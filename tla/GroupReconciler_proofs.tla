----------------------- MODULE GroupReconciler_proofs -----------------------
(***************************************************************************)
(* Proofs about routing: from the intent to running senders, and from      *)
(* presets to the intent.                                                  *)
(***************************************************************************)
EXTENDS GroupReconciler, HousePresets, FunctionTheorems, FiniteSetTheorems,
        SequenceTheorems, TLAPS

-----------------------------------------------------------------------------
(* The group reconciler *)
(***************************************************************************)
(* Proofs about the group reconciler, for every set of devices, sources    *)
(* and settings, and every bound.                                          *)
(*                                                                         *)
(* A pass works from a snapshot, phase by phase, and every phase leaves a  *)
(* fact that holds to the end of the pass, because what could undo it      *)
(* needs the lock the pass holds.  The invariant collects those facts:     *)
(* what teardown, the idle drop and the session drop have cleared, and     *)
(* what steering leaves in a group whose turn is over.  From them follow   *)
(* that a device is left under one sender, and that a pass which failed    *)
(* nowhere and was told of no change ends with what its snapshot asks for. *)
(***************************************************************************)

Phases == {"rest", "teardown", "drop idle", "drop sessions", "steer", "idle"}

Fields == {"server", "players", "dial", "codec", "lead", "force", "receivers", "rate", "hosts"}

\* A group as steering leaves it: without a server it dials nobody.
IsGroup(g) == /\ DOMAIN g = Fields
              /\ g.server \in BOOLEAN
              /\ ~g.server => g.dial = {}

Shapes ==
  /\ phase \in Phases
  /\ nudged \in BOOLEAN /\ retry \in BOOLEAN /\ unheard \in BOOLEAN /\ leaving \in BOOLEAN
  /\ GroupsUp \subseteq Keys
  /\ \A k \in GroupsUp : IsGroup(running[k])
  /\ DOMAIN sessions \subseteq Dialed

-----------------------------------------------------------------------------
\* The snapshot puts every device in one place.
Sound(d, others) ==
  /\ d.players \subseteq Players \ others
  /\ Names(d.dial) \subseteq d.players
  /\ Names(d.receivers) \subseteq Receivers
  /\ d.hosts \subseteq Hosts

ToFeed(d) == Names(d.dial) \cup Names(d.receivers) \cup d.hosts

WantSound ==
  phase # "rest" =>
    /\ DOMAIN want.groups \subseteq Keys
    /\ DOMAIN want.idle \subseteq Players
    /\ \A k \in DOMAIN want.groups : Sound(want.groups[k], DOMAIN want.idle)
    /\ \A j, k \in DOMAIN want.groups :
         j # k => ToFeed(want.groups[j]) \cap ToFeed(want.groups[k]) = {}

\* A pass nobody has told of a change works from what is.
SnapshotCurrent == phase # "rest" /\ ~nudged /\ ~unheard => want = Snapshot

\* What each phase has cleared away stays away.
StaleTornDown ==
  phase \in {"drop idle", "drop sessions", "steer", "idle"} => GroupsUp \subseteq DOMAIN want.groups
IdleDropped ==
  phase \in {"drop sessions", "steer", "idle"} => DOMAIN idle \subseteq DOMAIN want.idle
SessionsDropped ==
  phase \in {"steer", "idle"} => (DOMAIN sessions) \cap TakenOver = {}

\* A group whose turn is over feeds what it was to feed, and less only if a retry is due.
Turn(k)     == phase = "steer" /\ k \in todo
AsWanted(g, d) == /\ g.dial = d.dial
                  /\ g.hosts = d.hosts
                  /\ Names(g.receivers) = Names(d.receivers)
TurnsSound == /\ phase = "steer" => todo \subseteq DOMAIN want.groups
              /\ phase = "idle" => todo \subseteq DOMAIN want.idle
FeedsOnlyWanted ==
  phase \in {"steer", "idle"} =>
    \A k \in GroupsUp : Turn(k) \/ Fed(running[k]) \subseteq ToFeed(want.groups[k])
SteeredOrRetried ==
  phase \in {"steer", "idle"} /\ ~retry =>
    \A k \in DOMAIN want.groups :
      Turn(k) \/ (k \in GroupsUp /\ AsWanted(running[k], want.groups[k]))
IdleOrRetried ==
  phase = "idle" /\ ~retry => DOMAIN want.idle \subseteq (DOMAIN idle) \cup todo

IInv ==
  /\ Shapes
  /\ WantSound
  /\ SnapshotCurrent
  /\ StaleTornDown
  /\ IdleDropped
  /\ SessionsDropped
  /\ TurnsSound
  /\ FeedsOnlyWanted
  /\ SteeredOrRetried
  /\ IdleOrRetried

-----------------------------------------------------------------------------
(* The steps of one group's turn.                                            *)
LEMMA NamesEmpty ==
  ASSUME NEW S, Names(S) = {}
  PROVE  S = {}
BY DEF Names

LEMMA NamesGrow ==
  ASSUME NEW S, NEW T, S \subseteq T
  PROVE  Names(S) \subseteq Names(T)
BY DEF Names

LEMMA FreshIsGroup == IsGroup(FreshGroup)
BY DEF IsGroup, FreshGroup, Fields

LEMMA StoppedIsGroup ==
  ASSUME NEW g, IsGroup(g)
  PROVE  /\ IsGroup(Stopped(g))
         /\ ~Stopped(g).server
         /\ Stopped(g).dial = {}
         /\ Stopped(g).receivers = g.receivers
         /\ Stopped(g).hosts = g.hosts
         /\ Stopped(g).rate = g.rate
BY DEF IsGroup, Stopped, Fields

LEMMA SteerServerDials ==
  ASSUME NEW g, IsGroup(g), NEW d, NEW failed, Names(d.dial) \subseteq d.players
  PROVE  /\ IsGroup(SteerServer(g, d, failed))
         /\ SteerServer(g, d, failed).dial \subseteq d.dial
         /\ failed = {} => SteerServer(g, d, failed).dial = d.dial
<1> DEFINE s == SteerServer(g, d, failed)
           up(h) == [h EXCEPT !.server = TRUE, !.players = d.players, !.dial = d.dial]
<1>1. CASE ServerStarts(g, d) /\ "sendspin" \in failed
  <2>1. s = Stopped(g)
    BY <1>1 DEF SteerServer
  <2> QED BY <1>1, <2>1, StoppedIsGroup
<1>2. CASE ServerStarts(g, d) /\ "sendspin" \notin failed
  <2>1. s = [up(Stopped(g)) EXCEPT !.codec = d.codec, !.lead = d.lead]
    BY <1>2 DEF SteerServer
  <2>2. DOMAIN Stopped(g) = Fields
    BY StoppedIsGroup DEF IsGroup
  <2>3. DOMAIN up(Stopped(g)) = Fields /\ up(Stopped(g)).server = TRUE /\ up(Stopped(g)).dial = d.dial
    BY <2>2 DEF Fields
  <2> HIDE DEF up
  <2>4. DOMAIN s = Fields /\ s.server = TRUE /\ s.dial = d.dial
    BY <2>1, <2>3 DEF Fields
  <2> QED BY <2>4 DEF IsGroup
<1>3. CASE ~ServerStarts(g, d) /\ ServerStops(g, d)
  <2>1. s = Stopped(g)
    BY <1>3 DEF SteerServer
  <2>2. d.dial = {}
    BY <1>3, NamesEmpty DEF ServerStops
  <2> QED BY <2>1, <2>2, StoppedIsGroup
<1>4. CASE ~ServerStarts(g, d) /\ ~ServerStops(g, d) /\ g.server
  <2>1. s = up(g)
    BY <1>4 DEF SteerServer
  <2>2. DOMAIN s = Fields /\ s.server = TRUE /\ s.dial = d.dial
    BY <2>1 DEF IsGroup, Fields
  <2> QED BY <2>2 DEF IsGroup
<1>5. CASE ~ServerStarts(g, d) /\ ~ServerStops(g, d) /\ ~g.server
  <2>1. s = g
    BY <1>5 DEF SteerServer
  <2>2. d.players = {}
    BY <1>5 DEF ServerStarts
  <2>3. d.dial = {} /\ g.dial = {}
    BY <1>5, <2>2, NamesEmpty DEF IsGroup
  <2> QED BY <2>1, <2>3
<1> QED BY <1>1, <1>2, <1>3, <1>4, <1>5

LEMMA ReconnectForcedDials ==
  ASSUME NEW g, IsGroup(g), NEW d
  PROVE  /\ IsGroup(ReconnectForced(g, d))
         /\ ReconnectForced(g, d).dial \subseteq g.dial
         /\ Reconnecting(g, d) = {} => ReconnectForced(g, d).dial = g.dial
<1> DEFINE s == ReconnectForced(g, d)
           stay(D) == {x \in D : x[1] \notin Reconnecting(g, d)}
<1>1. DOMAIN s = Fields /\ s.server = g.server /\ s.dial = stay(g.dial)
  BY DEF ReconnectForced, IsGroup, Fields
<1>2. stay(g.dial) \subseteq g.dial /\ (Reconnecting(g, d) = {} => stay(g.dial) = g.dial)
  OBVIOUS
<1>3. IsGroup(s)
  BY <1>1, <1>2 DEF IsGroup
<1> HIDE DEF stay
<1>4. s.dial \subseteq g.dial /\ (Reconnecting(g, d) = {} => s.dial = g.dial)
  BY <1>1, <1>2
<1> HIDE DEF s
<1> QED BY <1>3, <1>4 DEF s

LEMMA SteerReceiversFeeds ==
  ASSUME NEW g, IsGroup(g), NEW d, NEW failed
  PROVE  LET s == SteerReceivers(g, d, failed)
         IN /\ IsGroup(s)
            /\ s.dial = g.dial
            /\ Names(s.receivers) \subseteq Names(d.receivers)
            /\ failed = {} => Names(s.receivers) = Names(d.receivers)
<1> DEFINE s == SteerReceivers(g, d, failed)
<1>0. Names({}) = {}
  BY DEF Names
<1>1. CASE SameSet(g, d)
  <2>1. s = g
    BY <1>1 DEF SteerReceivers
  <2> QED BY <1>1, <2>1 DEF SameSet
<1>2. CASE ~SameSet(g, d)
           /\ (d.receivers = {} \/ "airplay" \in failed)
  <2>1. s = [g EXCEPT !.receivers = {}]
    BY <1>2 DEF SteerReceivers
  <2>2. DOMAIN s = Fields /\ s.server = g.server /\ s.dial = g.dial /\ s.receivers = {}
    BY <2>1 DEF IsGroup, Fields
  <2>3. IsGroup(s)
    BY <2>2 DEF IsGroup
  <2> HIDE DEF s
  <2>4. failed = {} => d.receivers = {}
    BY <1>2
  <2> QED BY <2>2, <2>3, <2>4, <1>0 DEF s
<1>3. CASE ~SameSet(g, d)
           /\ ~(d.receivers = {} \/ "airplay" \in failed)
  <2>1. s = [g EXCEPT !.receivers = d.receivers, !.rate = d.rate]
    BY <1>3 DEF SteerReceivers
  <2>2. DOMAIN s = Fields /\ s.server = g.server /\ s.dial = g.dial /\ s.receivers = d.receivers
    BY <2>1 DEF IsGroup, Fields
  <2>3. IsGroup(s)
    BY <2>2 DEF IsGroup
  <2> HIDE DEF s
  <2> QED BY <2>2, <2>3 DEF s
<1> QED BY <1>1, <1>2, <1>3

LEMMA SteerHostsFeeds ==
  ASSUME NEW g, IsGroup(g), NEW d, NEW failed
  PROVE  LET s == SteerHosts(g, d, failed)
         IN /\ IsGroup(s)
            /\ s.dial = g.dial /\ s.receivers = g.receivers
            /\ s.hosts \subseteq d.hosts
            /\ failed = {} => s.hosts = d.hosts
<1> DEFINE s == SteerHosts(g, d, failed)
           kept == IF d.hosts # g.hosts /\ "rtp" \in failed THEN {} ELSE d.hosts
<1>1. s = [g EXCEPT !.hosts = kept]
  BY DEF SteerHosts
<1>2. kept \subseteq d.hosts /\ (failed = {} => kept = d.hosts)
  OBVIOUS
<1> HIDE DEF kept
<1>3. /\ DOMAIN s = Fields /\ s.server = g.server /\ s.dial = g.dial
      /\ s.receivers = g.receivers /\ s.hosts = kept
  BY <1>1 DEF IsGroup, Fields
<1>4. IsGroup(s)
  BY <1>3 DEF IsGroup
<1> HIDE DEF s
<1> QED BY <1>2, <1>3, <1>4 DEF s

\* A turn leaves the group feeding nobody else, and everybody unless it failed somewhere.
LEMMA SteeredFeeds ==
  ASSUME NEW g, IsGroup(g), NEW d, NEW failed, Names(d.dial) \subseteq d.players
  PROVE  LET s == Steered(g, d, failed)
         IN /\ IsGroup(s)
            /\ Fed(s) \subseteq ToFeed(d)
            /\ failed = {} /\ Reconnecting(SteerServer(g, d, failed), d) = {} => AsWanted(s, d)
<1> DEFINE a == SteerServer(g, d, failed)
           b == ReconnectForced(a, d)
           c == SteerReceivers(b, d, failed)
           s == SteerHosts(c, d, failed)
<1>1. IsGroup(a) /\ a.dial \subseteq d.dial /\ (failed = {} => a.dial = d.dial)
  BY SteerServerDials
<1> HIDE DEF a
<1>2. /\ IsGroup(b) /\ b.dial \subseteq d.dial
      /\ failed = {} /\ Reconnecting(a, d) = {} => b.dial = d.dial
  BY <1>1, ReconnectForcedDials
<1> HIDE DEF b
<1>3. /\ IsGroup(c) /\ c.dial = b.dial /\ Names(c.receivers) \subseteq Names(d.receivers)
      /\ failed = {} => Names(c.receivers) = Names(d.receivers)
  BY <1>2, SteerReceiversFeeds
<1> HIDE DEF c
<1>4. /\ IsGroup(s) /\ s.dial = c.dial /\ s.receivers = c.receivers
      /\ s.hosts \subseteq d.hosts /\ (failed = {} => s.hosts = d.hosts)
  BY <1>3, SteerHostsFeeds
<1>5. s = Steered(g, d, failed) /\ a = SteerServer(g, d, failed)
  BY DEF Steered, a, b, c
<1> HIDE DEF s
<1>6. Names(s.dial) \subseteq Names(d.dial)
  BY <1>2, <1>3, <1>4, NamesGrow
<1>7. Fed(s) \subseteq ToFeed(d)
  BY <1>3, <1>4, <1>6 DEF Fed, ToFeed
<1>8. failed = {} /\ Reconnecting(a, d) = {} => AsWanted(s, d)
  BY <1>2, <1>3, <1>4 DEF AsWanted
<1> QED BY <1>4, <1>5, <1>7, <1>8

-----------------------------------------------------------------------------
(* What is asked for.                                                        *)

LEMMA SameAsked ==
  ASSUME UNCHANGED <<storeVars, hold>>
  PROVE  Asked' = Asked /\ Snapshot' = Snapshot
<1>1. \A o : Feed(o)' = Feed(o)
  BY DEF Feed, storeVars
<1>2. \A k : GroupMembers(k)' = GroupMembers(k)
  BY <1>1 DEF GroupMembers, Dialable, storeVars
<1>3. \A k : DesiredGroup(k)' = DesiredGroup(k)
  <2> TAKE k
  <2> DEFINE ps == GroupMembers(k) \cap Players
             rs == GroupMembers(k) \cap Receivers
  <2>1. ps' = ps /\ rs' = rs
    BY <1>2
  <2>2. found' = found /\ need' = need /\ pick' = pick /\ rate' = rate
    BY DEF storeVars
  <2> QED BY <1>2, <2>1, <2>2 DEF DesiredGroup, Dialable
<1>4. DesiredKeys' = DesiredKeys
  BY <1>2 DEF DesiredKeys
<1>5. WantIdle' = WantIdle
  BY <1>1 DEF WantIdle, storeVars
<1>6. Asked' = Asked
  BY <1>3, <1>4, <1>5 DEF Asked
<1>7. Snapshot' = Snapshot
  BY <1>3, <1>4, <1>5 DEF Snapshot, Dialable, storeVars
<1> QED BY <1>6, <1>7

\* A snapshot puts every device in one place: in a group, or on its own.
LEMMA SnapshotSound ==
  /\ DOMAIN Snapshot.groups = DesiredKeys /\ DesiredKeys \subseteq Keys
  /\ DOMAIN Snapshot.idle = WantIdle /\ WantIdle \subseteq Players
  /\ \A k \in DesiredKeys : /\ Snapshot.groups[k] = DesiredGroup(k)
                            /\ Sound(DesiredGroup(k), WantIdle)
  /\ \A j, k \in DesiredKeys : j # k => ToFeed(DesiredGroup(j)) \cap ToFeed(DesiredGroup(k)) = {}
<1>1. /\ DOMAIN Snapshot.groups = DesiredKeys
      /\ DOMAIN Snapshot.idle = WantIdle
      /\ \A k \in DesiredKeys : Snapshot.groups[k] = DesiredGroup(k)
  BY DEF Snapshot
<1>2. DesiredKeys \subseteq Keys /\ WantIdle \subseteq Players
  BY DEF DesiredKeys, WantIdle
<1>3. ASSUME NEW k \in DesiredKeys
      PROVE  Sound(DesiredGroup(k), WantIdle)
  <2> DEFINE ps == GroupMembers(k) \cap Players
             rs == GroupMembers(k) \cap Receivers
             d  == DesiredGroup(k)
  <2>1. /\ d.players = ps
        /\ d.dial = {<<p, found[p]>> : p \in {q \in ps : Dialable(q)}}
        /\ d.receivers = {<<r, found[r]>> : r \in rs}
        /\ d.hosts = GroupMembers(k) \cap Hosts
    BY DEF DesiredGroup
  <2> HIDE DEF d
  <2>2. k # {}
    BY <1>2 DEF Keys
  <2>3. \A p \in ps : Feed(p) = k
    BY DEF GroupMembers
  <2>4. ps \cap WantIdle = {}
    BY <2>2, <2>3 DEF WantIdle
  <2>5. Names(d.dial) \subseteq ps /\ Names(d.receivers) \subseteq rs
    BY <2>1 DEF Names
  <2>6. Sound(d, WantIdle)
    BY <2>1, <2>4, <2>5 DEF Sound
  <2> QED BY <2>6 DEF d
<1>4. ASSUME NEW k \in DesiredKeys, NEW o \in ToFeed(DesiredGroup(k))
      PROVE  Feed(o) = k
  <2> DEFINE d == DesiredGroup(k)
  <2>1. /\ d.dial = {<<p, found[p]>> : p \in {q \in GroupMembers(k) \cap Players : Dialable(q)}}
        /\ d.receivers = {<<r, found[r]>> : r \in GroupMembers(k) \cap Receivers}
        /\ d.hosts = GroupMembers(k) \cap Hosts
    BY DEF DesiredGroup
  <2> HIDE DEF d
  <2>2. ToFeed(d) \subseteq GroupMembers(k)
    BY <2>1 DEF ToFeed, Names
  <2> QED BY <2>2, <1>4 DEF GroupMembers, d
<1>5. \A j, k \in DesiredKeys : j # k => ToFeed(DesiredGroup(j)) \cap ToFeed(DesiredGroup(k)) = {}
  BY <1>4
<1> QED BY <1>1, <1>2, <1>3, <1>5

-----------------------------------------------------------------------------
(* What happens around a pass leaves what the pass has done alone, and a     *)
(* change is either heard of or marked unheard.                              *)

Spoken == \/ nudged' = TRUE /\ UNCHANGED unheard
          \/ unheard' = TRUE /\ UNCHANGED nudged

Frame ==
  /\ UNCHANGED <<passVars, retry>>
  /\ leaving => leaving'
  /\ nudged => nudged'
  /\ unheard => unheard'
  /\ phase # "rest" => UNCHANGED <<running, idle>> /\ DOMAIN sessions' \subseteq DOMAIN sessions
  /\ UNCHANGED <<storeVars, hold>> \/ nudged' \/ unheard'
  /\ Built' = Built \/ (leaving' /\ UNCHANGED <<storeVars, hold>>)

LEMMA SameBuilt ==
  ASSUME UNCHANGED <<running, idle>>
  PROVE  Built' = Built
BY DEF Built, GroupsUp

\* A change of the stores or of the devices.
LEMMA ChangeFrame ==
  ASSUME Shapes, Change, Spoken, UNCHANGED groupVars
  PROVE  Frame /\ Shapes'
<1>1. UNCHANGED <<passVars, leaving, running, idle, sessions, retry>>
  BY DEF Change, groupVars
<1>2. UNCHANGED <<phase, GroupsUp>>
  BY <1>1 DEF passVars, GroupsUp
<1>3. nudged' \in BOOLEAN /\ unheard' \in BOOLEAN /\ (nudged => nudged') /\ (unheard => unheard')
  BY DEF Spoken, Shapes
<1>4. Frame
  BY <1>1, <1>3, SameBuilt DEF Frame, Spoken
<1>5. Shapes'
  BY <1>1, <1>2, <1>3 DEF Shapes
<1> QED BY <1>4, <1>5

LEMMA StoresFrame ==
  ASSUME Shapes,
         \/ \E o \in Outputs : Adopt(o) \/ \E from \in Mixes : Link(o, from)
         \/ Configure
         \/ \E d \in Players \cup Receivers :
              Lost(d) \/ \E a \in Addresses \cup {Unresolved} : Resolved(d, a)
         \/ \E h \in Hosts : AgentComesOrGoes(h)
  PROVE  Frame /\ Shapes'
<1>1. ASSUME NEW o, Adopt(o)
      PROVE  Change /\ Spoken /\ UNCHANGED groupVars
  BY <1>1 DEF Adopt, Told, Spoken
<1>2. ASSUME NEW o, NEW from, Link(o, from)
      PROVE  Change /\ Spoken /\ UNCHANGED groupVars
  BY <1>2 DEF Link, Told, Spoken
<1>3. ASSUME Configure
      PROVE  Change /\ Spoken /\ UNCHANGED groupVars
  BY <1>3 DEF Configure, Told, Spoken
<1>4. ASSUME NEW d, Lost(d)
      PROVE  Change /\ Spoken /\ UNCHANGED groupVars
  BY <1>4 DEF Lost, Told, Spoken
<1>5. ASSUME NEW d, NEW a, Resolved(d, a)
      PROVE  Change /\ Spoken /\ UNCHANGED groupVars
  BY <1>5 DEF Resolved, Told, Spoken
<1>6. ASSUME NEW h, AgentComesOrGoes(h)
      PROVE  Change /\ Spoken /\ UNCHANGED groupVars
  BY <1>6 DEF AgentComesOrGoes, Told, Spoken
<1> QED BY <1>1, <1>2, <1>3, <1>4, <1>5, <1>6, ChangeFrame

LEMMA ForceFrame ==
  ASSUME Shapes, NEW p \in Players, ForceDeviceReconnect(p)
  PROVE  Frame /\ Shapes'
<1>1. /\ phase = "rest" /\ nudged' = TRUE
      /\ UNCHANGED <<passVars, storeVars, idle, sessions, hold, retry, leaving, unheard>>
  BY DEF ForceDeviceReconnect, Change, Told
<1>2. PICK k \in GroupsUp : running' = [running EXCEPT ![k].force = @ \cup {p}]
  BY DEF ForceDeviceReconnect
<1>3. GroupsUp' = GroupsUp
  BY <1>2 DEF GroupsUp
<1>4. ASSUME NEW j \in GroupsUp
      PROVE  /\ IsGroup(running'[j])
             /\ running'[j].dial = running[j].dial
             /\ running'[j].hosts = running[j].hosts
             /\ running'[j].receivers = running[j].receivers
  <2>1. IsGroup(running[j])
    BY DEF Shapes
  <2>2. CASE j = k
    <3>1. running'[j] = [running[j] EXCEPT !.force = @ \cup {p}]
      BY <1>2, <2>2 DEF GroupsUp
    <3>2. /\ DOMAIN running'[j] = Fields
          /\ running'[j].server = running[j].server
          /\ running'[j].dial = running[j].dial
          /\ running'[j].hosts = running[j].hosts
          /\ running'[j].receivers = running[j].receivers
      BY <2>1, <3>1 DEF IsGroup, Fields
    <3> QED BY <2>1, <3>2 DEF IsGroup
  <2>3. CASE j # k
    <3>1. running'[j] = running[j]
      BY <1>2, <2>3 DEF GroupsUp
    <3> QED BY <2>1, <3>1
  <2> QED BY <2>2, <2>3
<1>5. Built' = Built
  BY <1>1, <1>3, <1>4 DEF Built
<1>6. Frame
  BY <1>1, <1>5 DEF Frame
<1>7. Shapes'
  BY <1>1, <1>3, <1>4 DEF Shapes, passVars
<1> QED BY <1>6, <1>7

\* The on-demand sessions come only between passes, and in a pass only run down.
LEMMA SessionsFrame ==
  ASSUME Shapes,
         \/ \E o \in Dialed : EnsureAnnounceTransport(o) \/ ClipComesOrGoes(o)
         \/ Second \/ PollAnnounceSessions
  PROVE  Frame /\ Shapes'
<1>1. /\ UNCHANGED <<passVars, storeVars, running, idle, hold, retry, nudged, unheard, leaving>>
      /\ phase # "rest" => DOMAIN sessions' \subseteq DOMAIN sessions
      /\ DOMAIN sessions' \subseteq Dialed
  <2>1. ASSUME NEW o \in Dialed, EnsureAnnounceTransport(o)
        PROVE  <1>1!1 /\ <1>1!2 /\ <1>1!3
    BY <2>1 DEF EnsureAnnounceTransport, Change, Put, Shapes
  <2>2. ASSUME NEW o \in Dialed, ClipComesOrGoes(o)
        PROVE  <1>1!1 /\ <1>1!2 /\ <1>1!3
    BY <2>2 DEF ClipComesOrGoes, groupVars, Shapes
  <2>3. ASSUME Second
        PROVE  <1>1!1 /\ <1>1!2 /\ <1>1!3
    BY <2>3 DEF Second, Shapes
  <2>4. ASSUME PollAnnounceSessions
        PROVE  <1>1!1 /\ <1>1!2 /\ <1>1!3
    BY <2>4 DEF PollAnnounceSessions, Shapes
  <2> QED BY <2>1, <2>2, <2>3, <2>4
<1>2. Frame
  BY <1>1, SameBuilt DEF Frame
<1>3. Shapes'
  BY <1>1 DEF Shapes, passVars, GroupsUp
<1> QED BY <1>2, <1>3

LEMMA ShutdownFrame ==
  ASSUME Shapes, Shutdown
  PROVE  Frame /\ Shapes'
<1>1. /\ phase = "rest" /\ leaving' = TRUE
      /\ UNCHANGED <<passVars, storeVars, hold, retry, nudged, unheard>>
      /\ sessions' = <<>>
  BY DEF Shutdown
<1>2. GroupsUp' = GroupsUp
  BY DEF Shutdown, GroupsUp
<1>3. ASSUME NEW k \in GroupsUp
      PROVE  IsGroup(running'[k])
  <2> DEFINE a == ShutdownPwsink(running[k])
             b == ShutdownAp2(a)
  <2>1. IsGroup(running[k])
    BY DEF Shapes
  <2>2. DOMAIN a = Fields /\ a.server = running[k].server /\ a.dial = running[k].dial
    BY <2>1 DEF ShutdownPwsink, IsGroup, Fields
  <2> HIDE DEF a
  <2>3. DOMAIN b = Fields /\ b.server = running[k].server /\ b.dial = running[k].dial
    BY <2>2 DEF ShutdownAp2, Fields
  <2>4. IsGroup(b)
    BY <2>1, <2>3 DEF IsGroup
  <2> HIDE DEF b
  <2>5. IsGroup(Stopped(b))
    BY <2>4, StoppedIsGroup
  <2>6. running'[k] = Stopped(b)
    BY DEF Shutdown, ShutdownSendspin, a, b
  <2> QED BY <2>5, <2>6
<1>4. Frame
  BY <1>1 DEF Frame
<1>5. DOMAIN sessions' = {}
  BY <1>1
<1>6. Shapes'
  BY <1>1, <1>2, <1>3, <1>5 DEF Shapes, passVars
<1> QED BY <1>4, <1>6

LEMMA AroundFrame ==
  ASSUME Shapes, Around
  PROVE  Frame /\ Shapes'
<1>1. ASSUME RearmLead
      PROVE  Frame /\ Shapes'
  <2>1. /\ phase = "rest" /\ nudged' = TRUE
        /\ UNCHANGED <<passVars, running, idle, sessions, retry, leaving, unheard>>
    BY <1>1 DEF RearmLead, Change, Told
  <2>2. Frame
    BY <2>1, SameBuilt DEF Frame
  <2> QED BY <2>1, <2>2 DEF Shapes, passVars, GroupsUp
<1>2. ASSUME NEW S, AlignHold(S)
      PROVE  Frame /\ Shapes'
  <2>1. /\ phase = "rest" /\ nudged' = TRUE
        /\ UNCHANGED <<passVars, running, idle, sessions, retry, leaving, unheard>>
    BY <1>2 DEF AlignHold, Change, Told
  <2>2. Frame
    BY <2>1, SameBuilt DEF Frame
  <2> QED BY <2>1, <2>2 DEF Shapes, passVars, GroupsUp
<1>3. ASSUME NEW r, Closed(r)
      PROVE  Frame /\ Shapes'
  <2>1. UNCHANGED <<storeVars, groupVars, passVars, nudged, unheard, leaving>>
    BY <1>3 DEF Closed
  <2>2. UNCHANGED <<running, idle, sessions, hold, retry>>
    BY <2>1 DEF groupVars
  <2>3. Frame
    BY <2>1, <2>2, SameBuilt DEF Frame
  <2> QED BY <2>1, <2>2, <2>3 DEF Shapes, passVars, GroupsUp
<1> QED
  BY <1>1, <1>2, <1>3, StoresFrame, ForceFrame, SessionsFrame, ShutdownFrame DEF Around

-----------------------------------------------------------------------------
(* The invariant, action by action.                                          *)

LEMMA InitIInv == ReconcilerInit => IInv
<1> SUFFICES ASSUME ReconcilerInit PROVE IInv
  OBVIOUS
<1>0. DOMAIN running = {} /\ DOMAIN sessions = {}
  BY DEF ReconcilerInit
<1>1. Shapes
  BY <1>0 DEF ReconcilerInit, Shapes, Phases, GroupsUp
<1>2. phase = "rest"
  BY DEF ReconcilerInit
<1> QED
  BY <1>1, <1>2 DEF IInv, WantSound, SnapshotCurrent, StaleTornDown, IdleDropped,
                    SessionsDropped, TurnsSound, FeedsOnlyWanted, SteeredOrRetried, IdleOrRetried

LEMMA SameTakenOver ==
  ASSUME UNCHANGED want
  PROVE  TakenOver' = TakenOver
BY DEF TakenOver, WantedBy

LEMMA AroundIInv ==
  ASSUME IInv, Around
  PROVE  IInv'
<1>1. Frame /\ Shapes'
  BY AroundFrame DEF IInv
<1>2. UNCHANGED <<phase, want, todo, retry>>
  BY <1>1 DEF Frame, passVars
<1>3. CASE phase = "rest"
  BY <1>1, <1>2, <1>3
     DEF IInv, WantSound, SnapshotCurrent, StaleTornDown, IdleDropped,
         SessionsDropped, TurnsSound, FeedsOnlyWanted, SteeredOrRetried, IdleOrRetried
<1>4. CASE phase # "rest"
  <2>1. UNCHANGED <<running, idle>> /\ DOMAIN sessions' \subseteq DOMAIN sessions
    BY <1>1, <1>4 DEF Frame
  <2>2. GroupsUp' = GroupsUp
    BY <2>1 DEF GroupsUp
  <2>3. WantSound'
    BY <1>2 DEF IInv, WantSound
  <2>4. SnapshotCurrent'
    <3> SUFFICES ASSUME ~nudged', ~unheard' PROVE want' = Snapshot'
      BY DEF SnapshotCurrent
    <3>1. ~nudged /\ ~unheard /\ UNCHANGED <<storeVars, hold>>
      BY <1>1 DEF Frame
    <3>2. want = Snapshot
      BY <1>4, <3>1 DEF IInv, SnapshotCurrent
    <3> QED BY <1>2, <3>1, <3>2, SameAsked
  <2>5. StaleTornDown' /\ IdleDropped'
    BY <1>2, <2>1, <2>2 DEF IInv, StaleTornDown, IdleDropped
  <2>6. SessionsDropped'
    BY <1>2, <2>1, SameTakenOver DEF IInv, SessionsDropped
  <2>7. TurnsSound' /\ FeedsOnlyWanted' /\ SteeredOrRetried' /\ IdleOrRetried'
    BY <1>2, <2>1, <2>2
       DEF IInv, TurnsSound, FeedsOnlyWanted, SteeredOrRetried, IdleOrRetried, Turn
  <2> QED BY <1>1, <2>3, <2>4, <2>5, <2>6, <2>7 DEF IInv
<1> QED BY <1>3, <1>4

LEMMA BeginPassIInv ==
  ASSUME IInv, BeginPass
  PROVE  IInv'
<1>1. /\ phase' = "teardown" /\ want' = Snapshot
      /\ nudged' = FALSE /\ unheard' = FALSE /\ retry' = FALSE
      /\ UNCHANGED <<storeVars, hold, running, idle, sessions, leaving>>
  BY DEF BeginPass
<1>2. Snapshot' = Snapshot
  BY <1>1, SameAsked
<1>3. WantSound'
  BY <1>1, SnapshotSound DEF WantSound
<1>4. Shapes'
  BY <1>1 DEF IInv, Shapes, Phases, GroupsUp
<1> QED
  BY <1>1, <1>2, <1>3, <1>4
     DEF IInv, SnapshotCurrent, StaleTornDown, IdleDropped,
         SessionsDropped, TurnsSound, FeedsOnlyWanted, SteeredOrRetried, IdleOrRetried

\* What a step of a pass leaves as it was.
InPass == /\ phase # "rest" /\ phase' \in Phases
          /\ UNCHANGED <<storeVars, hold, want, nudged, unheard, leaving>>

LEMMA InPassKeeps ==
  ASSUME IInv, InPass
  PROVE  WantSound' /\ SnapshotCurrent' /\ TakenOver' = TakenOver
<1>1. Snapshot' = Snapshot
  BY SameAsked DEF InPass
<1>2. WantSound' /\ SnapshotCurrent'
  BY <1>1 DEF IInv, InPass, WantSound, SnapshotCurrent
<1> QED BY <1>2, SameTakenOver DEF InPass

LEMMA TearDownIInv ==
  ASSUME IInv, TearDownStale
  PROVE  IInv'
<1>1. InPass /\ phase' = "drop idle" /\ UNCHANGED <<idle, sessions, retry>>
  BY DEF TearDownStale, InPass, Phases
<1>2. /\ GroupsUp' \subseteq GroupsUp \cap DOMAIN want.groups
      /\ \A k \in GroupsUp' : running'[k] = running[k]
  BY DEF TearDownStale, Without, GroupsUp
<1>3. Shapes'
  BY <1>1, <1>2 DEF IInv, Shapes, InPass
<1> QED
  BY <1>1, <1>2, <1>3, InPassKeeps
     DEF IInv, InPass, StaleTornDown, IdleDropped,
         SessionsDropped, TurnsSound, FeedsOnlyWanted, SteeredOrRetried, IdleOrRetried

LEMMA DropIdleIInv ==
  ASSUME IInv, DropIdle
  PROVE  IInv'
<1>1. /\ InPass /\ phase = "drop idle" /\ phase' = "drop sessions"
      /\ UNCHANGED <<running, sessions, retry>>
  BY DEF DropIdle, InPass, Phases
<1>2. DOMAIN idle' \subseteq DOMAIN want.idle
  BY DEF DropIdle, Without
<1>3. Shapes'
  BY <1>1 DEF IInv, Shapes, InPass, GroupsUp
<1> QED
  BY <1>1, <1>2, <1>3, InPassKeeps
     DEF IInv, InPass, StaleTornDown, IdleDropped, GroupsUp,
         SessionsDropped, TurnsSound, FeedsOnlyWanted, SteeredOrRetried, IdleOrRetried

LEMMA DropSessionsIInv ==
  ASSUME IInv, DropSessions
  PROVE  IInv'
<1>1. /\ InPass /\ phase = "drop sessions" /\ phase' = "steer" /\ todo' = DOMAIN want.groups
      /\ UNCHANGED <<running, idle, retry>>
  BY DEF DropSessions, InPass, Phases
<1>2. DOMAIN sessions' \subseteq DOMAIN sessions /\ (DOMAIN sessions') \cap TakenOver = {}
  BY DEF DropSessions, Without
<1>3. Shapes'
  BY <1>1, <1>2 DEF IInv, Shapes, InPass, GroupsUp
<1>4. GroupsUp' = GroupsUp /\ GroupsUp \subseteq DOMAIN want.groups
  BY <1>1 DEF IInv, StaleTornDown, GroupsUp
<1>5. FeedsOnlyWanted' /\ SteeredOrRetried'
  BY <1>1, <1>4 DEF InPass, FeedsOnlyWanted, SteeredOrRetried, Turn
<1> QED
  BY <1>1, <1>2, <1>3, <1>4, <1>5, InPassKeeps
     DEF IInv, InPass, StaleTornDown, IdleDropped, SessionsDropped, TurnsSound, IdleOrRetried

LEMMA SteerIInv ==
  ASSUME IInv, NEW k \in Keys, Steer(k)
  PROVE  IInv'
<1> DEFINE d == want.groups[k]
           g == IF k \in GroupsUp THEN running[k] ELSE FreshGroup
<1>1. /\ InPass /\ phase = "steer" /\ phase' = "steer" /\ k \in todo /\ todo' = todo \ {k}
      /\ UNCHANGED <<idle, sessions>>
  BY DEF Steer, InPass, Phases
<1>2. PICK failed :
        /\ running' = Put(running, k, Steered(g, d, failed))
        /\ retry' = (retry \/ failed # {} \/ Reconnecting(SteerServer(g, d, failed), d) # {})
  BY DEF Steer
<1>3. k \in DOMAIN want.groups /\ Names(d.dial) \subseteq d.players
  BY <1>1 DEF IInv, TurnsSound, WantSound, Sound
<1>4. IsGroup(g)
  BY FreshIsGroup DEF IInv, Shapes
<1> HIDE DEF g, d
<1> DEFINE s == Steered(g, d, failed)
<1>5. /\ IsGroup(s) /\ Fed(s) \subseteq ToFeed(d)
      /\ retry' \in BOOLEAN
      /\ ~retry' => ~retry /\ AsWanted(s, d)
  <2>1. ~retry' => ~retry /\ failed = {} /\ Reconnecting(SteerServer(g, d, failed), d) = {}
    BY <1>2
  <2>2. retry' \in BOOLEAN
    BY <1>2
  <2> QED BY <1>3, <1>4, <2>1, <2>2, SteeredFeeds
<1>6. /\ GroupsUp' = GroupsUp \cup {k}
      /\ running'[k] = s
      /\ \A j \in GroupsUp : j # k => running'[j] = running[j]
  BY <1>2 DEF Put, GroupsUp
<1> HIDE DEF s
<1>7. Shapes'
  BY <1>1, <1>5, <1>6 DEF IInv, Shapes, InPass
<1>8. FeedsOnlyWanted'
  <2> SUFFICES ASSUME NEW j \in GroupsUp', ~Turn(j)'
               PROVE  Fed(running'[j]) \subseteq ToFeed(want'.groups[j])
    BY DEF FeedsOnlyWanted
  <2>1. CASE j = k
    BY <1>1, <1>5, <1>6, <2>1 DEF InPass, d
  <2>2. CASE j # k
    <3>1. j \in GroupsUp /\ ~Turn(j) /\ running'[j] = running[j]
      BY <1>1, <1>6, <2>2 DEF Turn
    <3> QED BY <1>1, <3>1 DEF IInv, FeedsOnlyWanted, InPass
  <2> QED BY <2>1, <2>2
<1>9. SteeredOrRetried'
  <2> SUFFICES ASSUME ~retry', NEW j \in DOMAIN want'.groups, ~Turn(j)'
               PROVE  j \in GroupsUp' /\ AsWanted(running'[j], want'.groups[j])
    BY DEF SteeredOrRetried
  <2>1. CASE j = k
    BY <1>1, <1>5, <1>6, <2>1 DEF InPass, d
  <2>2. CASE j # k
    <3>1. ~Turn(j) /\ ~retry /\ j \in DOMAIN want.groups
      BY <1>1, <1>5, <2>2 DEF Turn, InPass
    <3>2. j \in GroupsUp /\ AsWanted(running[j], want.groups[j])
      BY <1>1, <3>1 DEF IInv, SteeredOrRetried
    <3> QED BY <1>1, <1>6, <2>2, <3>2 DEF InPass
  <2> QED BY <2>1, <2>2
<1> QED
  BY <1>1, <1>3, <1>6, <1>7, <1>8, <1>9, InPassKeeps
     DEF IInv, InPass, StaleTornDown, IdleDropped, SessionsDropped, TurnsSound, IdleOrRetried

LEMMA AnchorFailsIInv ==
  ASSUME IInv, NEW k \in Keys, AnchorFails(k)
  PROVE  IInv'
<1>1. /\ InPass /\ phase = "steer" /\ phase' = "steer" /\ todo' = todo \ {k}
      /\ k \notin GroupsUp /\ retry' = TRUE
      /\ UNCHANGED <<running, idle, sessions>>
  BY DEF AnchorFails, InPass, Phases
<1>2. GroupsUp' = GroupsUp
  BY <1>1 DEF GroupsUp
<1>3. Shapes'
  BY <1>1, <1>2 DEF IInv, Shapes, InPass
<1>4. FeedsOnlyWanted'
  BY <1>1, <1>2 DEF IInv, FeedsOnlyWanted, InPass, Turn
<1> QED
  BY <1>1, <1>2, <1>3, <1>4, InPassKeeps
     DEF IInv, InPass, StaleTornDown, IdleDropped, SessionsDropped, TurnsSound,
         SteeredOrRetried, IdleOrRetried

LEMMA SteeredAllIInv ==
  ASSUME IInv, SteeredAll
  PROVE  IInv'
<1>1. /\ InPass /\ phase = "steer" /\ todo = {} /\ phase' = "idle"
      /\ todo' = (DOMAIN want.idle) \ DOMAIN idle
      /\ UNCHANGED <<running, idle, sessions, retry>>
  BY DEF SteeredAll, InPass, Phases
<1>2. GroupsUp' = GroupsUp
  BY <1>1 DEF GroupsUp
<1>3. Shapes'
  BY <1>1, <1>2 DEF IInv, Shapes, InPass
<1>4. FeedsOnlyWanted' /\ SteeredOrRetried'
  BY <1>1, <1>2 DEF IInv, FeedsOnlyWanted, SteeredOrRetried, InPass, Turn
<1> QED
  BY <1>1, <1>2, <1>3, <1>4, InPassKeeps
     DEF IInv, InPass, StaleTornDown, IdleDropped, SessionsDropped, TurnsSound, IdleOrRetried

LEMMA StartIdleIInv ==
  ASSUME IInv, NEW p \in Players, StartIdle(p) \/ IdleFails(p)
  PROVE  IInv'
<1>1. /\ InPass /\ phase = "idle" /\ phase' = "idle" /\ p \in todo /\ todo' = todo \ {p}
      /\ UNCHANGED <<running, sessions>>
  BY DEF StartIdle, IdleFails, InPass, Phases
<1>2. \/ DOMAIN idle' = (DOMAIN idle) \cup {p} /\ retry' = retry
      \/ idle' = idle /\ retry' = TRUE
  BY DEF StartIdle, IdleFails, Put
<1>3. p \in DOMAIN want.idle
  BY <1>1 DEF IInv, TurnsSound
<1>4. GroupsUp' = GroupsUp
  BY <1>1 DEF GroupsUp
<1>5. Shapes'
  BY <1>1, <1>2, <1>4 DEF IInv, Shapes, InPass
<1>6. FeedsOnlyWanted' /\ SteeredOrRetried'
  BY <1>1, <1>2, <1>4 DEF IInv, FeedsOnlyWanted, SteeredOrRetried, InPass, Turn
<1>7. IdleOrRetried' /\ IdleDropped'
  BY <1>1, <1>2, <1>3 DEF IInv, IdleOrRetried, IdleDropped, InPass
<1> QED
  BY <1>1, <1>3, <1>4, <1>5, <1>6, <1>7, InPassKeeps
     DEF IInv, InPass, StaleTornDown, SessionsDropped, TurnsSound

LEMMA EndPassIInv ==
  ASSUME IInv, EndPass
  PROVE  IInv'
<1>1. phase' = "rest" /\ UNCHANGED <<running, sessions, nudged, unheard, leaving, retry>>
  BY DEF EndPass, groupVars
<1>2. Shapes'
  BY <1>1 DEF IInv, Shapes, GroupsUp, Phases
<1> QED
  BY <1>1, <1>2 DEF IInv, WantSound, SnapshotCurrent, StaleTornDown, IdleDropped,
                    SessionsDropped, TurnsSound, FeedsOnlyWanted, SteeredOrRetried, IdleOrRetried

LEMMA StutterIInv ==
  ASSUME IInv, UNCHANGED reconcilerVars
  PROVE  IInv'
<1>1. /\ UNCHANGED <<storeVars, hold, want, phase, todo, running, idle, sessions>>
      /\ UNCHANGED <<retry, nudged, unheard, leaving>>
  BY DEF reconcilerVars, groupVars, passVars
<1>2. GroupsUp' = GroupsUp /\ Snapshot' = Snapshot /\ TakenOver' = TakenOver
  BY <1>1, SameAsked, SameTakenOver DEF GroupsUp
<1> QED
  BY <1>1, <1>2
     DEF IInv, Shapes, WantSound, SnapshotCurrent, StaleTornDown, IdleDropped, SessionsDropped,
         TurnsSound, FeedsOnlyWanted, SteeredOrRetried, IdleOrRetried, Turn

LEMMA NextIInv == IInv /\ [ReconcilerNext]_reconcilerVars => IInv'
BY BeginPassIInv, TearDownIInv, DropIdleIInv, DropSessionsIInv, SteerIInv, AnchorFailsIInv,
   SteeredAllIInv, StartIdleIInv, EndPassIInv, AroundIInv, StutterIInv
   DEF ReconcilerNext, Pass

(* What each phase of a pass leaves behind holds to the end of the pass,     *)
(* whatever links, settings and devices do meanwhile.                        *)
THEOREM Invariance == ReconcilerSpec => []IInv
<1> QED BY InitIInv, NextIInv, PTL DEF ReconcilerSpec

-----------------------------------------------------------------------------
(* Hand-over within a pass. *)

\* What an output's own sender would still be up for is not the group's yet.
LEMMA OwnSendersAreGone ==
  ASSUME IInv, phase \in {"steer", "idle"}, NEW o \in OnItsOwn,
         NEW k \in FedBy(o) \cap DOMAIN want.groups
  PROVE  k \in todo
<1> DEFINE d == want.groups[k]
<1>1. k \in GroupsUp /\ o \in Fed(running[k])
  BY DEF FedBy
<1>2. phase # "rest"
  OBVIOUS
<1>3. Sound(d, DOMAIN want.idle) /\ DOMAIN want.idle \subseteq Players
  BY <1>2 DEF IInv, WantSound
<1>4. SUFFICES ASSUME ~Turn(k) PROVE FALSE
  BY DEF Turn
<1>5. o \in ToFeed(d)
  BY <1>1, <1>4 DEF IInv, FeedsOnlyWanted
<1>6. o \in WantedBy(k) => o \in TakenOver
  BY DEF TakenOver
<1>7. CASE o \in DOMAIN idle
  <2>1. o \in DOMAIN want.idle
    BY <1>7 DEF IInv, IdleDropped
  <2> QED BY <1>3, <1>5, <2>1, KindsApart DEF Sound, ToFeed
<1>8. CASE o \in DOMAIN sessions
  <2>1. o \in Dialed /\ o \notin TakenOver
    BY <1>8 DEF IInv, Shapes, SessionsDropped
  <2>2. o \notin Names(d.receivers) /\ o \notin d.hosts
    BY <1>6, <2>1 DEF WantedBy
  <2> QED BY <1>3, <1>5, <2>1, <2>2, KindsApart DEF Sound, ToFeed, Dialed
<1> QED BY <1>7, <1>8 DEF OnItsOwn

\* Two groups that have had their turn feed what the snapshot gave them, and it gave
\* nothing to two of them.
LEMMA GroupsAreApart ==
  ASSUME IInv, phase = "idle", NEW o, NEW k \in FedBy(o), NEW l \in FedBy(o)
  PROVE  k = l
<1>1. /\ k \in GroupsUp /\ o \in Fed(running[k])
      /\ l \in GroupsUp /\ o \in Fed(running[l])
  BY DEF FedBy
<1>2. k \in DOMAIN want.groups /\ l \in DOMAIN want.groups
  BY <1>1 DEF IInv, StaleTornDown
<1>3. o \in ToFeed(want.groups[k]) /\ o \in ToFeed(want.groups[l])
  BY <1>1 DEF IInv, FeedsOnlyWanted, Turn
<1> QED BY <1>2, <1>3 DEF IInv, WantSound

LEMMA IInvHandsOver == IInv => HandedOver
BY OwnSendersAreGone, GroupsAreApart DEF HandedOver

\* A pass lets go of an output's own sender before it makes a group's sender for it, and
\* leaves no output under two senders: of the handles the reconciler keeps.  (When the
\* connection behind a dropped AirPlay 2 handle ends is up to its task.)
THEOREM OneHandleEach == ReconcilerSpec => []HandedOver
<1> QED BY Invariance, IInvHandsOver, PTL

-----------------------------------------------------------------------------
(* The reconciler is a control loop. *)

\* A pass that failed nowhere and heard of nothing ends with what is asked for.
LEMMA EndAgrees ==
  ASSUME IInv, phase = "idle", todo = {}, ~nudged, ~unheard, ~retry
  PROVE  Built = Asked
<1>1. phase # "rest" /\ want = Snapshot
  BY DEF IInv, SnapshotCurrent
<1>2. /\ DOMAIN want.groups = DesiredKeys /\ DOMAIN want.idle = WantIdle
      /\ \A k \in DesiredKeys : want.groups[k] = DesiredGroup(k)
  BY <1>1, SnapshotSound
<1>3. GroupsUp = DesiredKeys
  BY <1>2 DEF IInv, StaleTornDown, SteeredOrRetried, Turn
<1>4. \A k \in DesiredKeys : AsWanted(running[k], DesiredGroup(k))
  BY <1>2 DEF IInv, SteeredOrRetried, Turn
<1>5. DOMAIN idle = WantIdle
  BY <1>2 DEF IInv, IdleDropped, IdleOrRetried
<1>6. Built.groups = Asked.groups
  BY <1>3, <1>4 DEF Built, Asked, AsWanted
<1> QED BY <1>5, <1>6 DEF Built, Asked

\* What happens around a pass asks for something else, or is work, or goes unnoticed.
LEMMA AroundRefines ==
  ASSUME Shapes, Around
  PROVE  [Follows!LoopNext]_Follows!loopVars
<1>1. Frame /\ Shapes'
  BY AroundFrame
<1>2. Owing \in BOOLEAN /\ Owing' \in BOOLEAN /\ (Owing => Owing')
  BY <1>1 DEF Frame, passVars, Shapes, Owing
<1>3. Asked' = Asked \/ Owing'
  BY <1>1, SameAsked DEF Frame, Owing
<1>4. Built' = Built \/ (Owing' /\ Asked' = Asked)
  BY <1>1, SameAsked DEF Frame, Owing
<1>5. CASE Built' = Built
  BY <1>2, <1>3, <1>5
     DEF Follows!LoopNext, Follows!Ask, Follows!Work, Follows!Wake, Follows!loopVars
<1>6. CASE Owing' /\ Asked' = Asked
  BY <1>2, <1>6
     DEF Follows!LoopNext, Follows!Work, Follows!Wake
<1> QED BY <1>4, <1>5, <1>6

LEMMA PassRefines ==
  ASSUME IInv, Pass
  PROVE  Follows!LoopNext
<1>1. UNCHANGED <<storeVars, hold>> /\ (phase # "rest" \/ nudged \/ retry)
  BY DEF Pass, BeginPass, TearDownStale, DropIdle, DropSessions, SteeredAll, EndPass,
         Steer, AnchorFails, StartIdle, IdleFails, groupVars
<1>2. Asked' = Asked /\ Owing
  BY <1>1, SameAsked DEF Owing
<1>3. ASSUME ~EndPass
      PROVE  phase' # "rest"
  BY <1>3 DEF Pass, BeginPass, TearDownStale, DropIdle, DropSessions, SteeredAll,
              Steer, AnchorFails, StartIdle, IdleFails
<1>4. CASE Owing'
  BY <1>2, <1>4 DEF Follows!LoopNext, Follows!Work
<1>5. CASE ~Owing'
  <2>1. EndPass
    BY <1>3, <1>5 DEF Owing
  <2>2. UNCHANGED <<running, idle, nudged, unheard, retry>> /\ phase = "idle" /\ todo = {}
    BY <2>1 DEF EndPass, groupVars
  <2>3. ~nudged /\ ~unheard /\ ~retry
    BY <1>5, <2>2 DEF Owing
  <2>4. Built = Asked /\ Built' = Built
    BY <2>2, <2>3, EndAgrees, SameBuilt
  <2> QED BY <1>2, <1>5, <2>4 DEF Follows!LoopNext, Follows!Done
<1> QED BY <1>4, <1>5

LEMMA StutterRefines ==
  ASSUME UNCHANGED reconcilerVars
  PROVE  UNCHANGED Follows!loopVars
<1>1. /\ UNCHANGED <<storeVars, hold, phase, running, idle>>
      /\ UNCHANGED <<retry, nudged, unheard, leaving>>
  BY DEF reconcilerVars, groupVars, passVars
<1>2. Asked' = Asked /\ Built' = Built /\ Owing' = Owing
  BY <1>1, SameAsked, SameBuilt DEF Owing
<1> QED BY <1>2 DEF Follows!loopVars

\* What is built moves towards what is asked for only by a loop that owes work, and the
\* loop owes none only once they agree (the reconcile task, its channel and its retry).
THEOREM IsControlLoop == ReconcilerSpec => FollowsIntent
<1>1. ReconcilerInit => Follows!LoopInit
  <2> SUFFICES ASSUME ReconcilerInit PROVE Follows!LoopInit
    OBVIOUS
  <2>1. nudged = TRUE
    BY DEF ReconcilerInit
  <2> QED BY <2>1 DEF Follows!LoopInit, Owing
<1>2. IInv /\ [ReconcilerNext]_reconcilerVars => [Follows!LoopNext]_Follows!loopVars
  BY AroundRefines, PassRefines, StutterRefines DEF IInv, ReconcilerNext
<1> QED
  BY <1>1, <1>2, Invariance, PTL DEF ReconcilerSpec, FollowsIntent, Follows!LoopSpec

-----------------------------------------------------------------------------
(* Presets and their music *)
(***************************************************************************)
(* An activated preset restores its music.  While an activation is under   *)
(* way, every group of the preset that has a source is either played       *)
(* already or still in the plan; the groups of a preset have no member in  *)
(* common, so what serves one leaves the others alone.                     *)
(***************************************************************************)

Playable == Inputs \union {Silent}
SlotT == [members : SUBSET Sinks, source : Playable]

SlotsOK ==
  /\ DOMAIN slots \subseteq Presets /\ Default \in DOMAIN slots
  /\ \A p \in DOMAIN slots : /\ DOMAIN slots[p] \subseteq Groups
                             /\ \A g \in DOMAIN slots[p] : slots[p][g] \in SlotT

Requested(q) ==
  /\ q.at \in {"look", "route"} => q.plan \in Seq(SlotT) /\ Len(q.plan) > 0
  /\ q.at = "note" => q.source \in Playable

HouseTypeOK ==
  /\ SlotsOK /\ activePreset \in DOMAIN slots
  /\ links \subseteq Inputs \X Sinks /\ added \subseteq Sinks
  /\ handler = [r \in Handlers |-> handler[r]] /\ \A r \in Handlers : Requested(handler[r])
  /\ overlapped \in BOOLEAN

\* No two groups of a preset have an output in common.
Apart(f) == \A g, h \in DOMAIN f : g # h => f[g].members \cap f[h].members = {}
Exclusive == \A p \in DOMAIN slots : Apart(slots[p])

\* The group's music is what its members play.
Plays(s) == s.source # Silent => \A o \in s.members : SourcesOf(o) = {s.source}

\* What an activation under way has not served is yet to come in its plan.
Serving(q) ==
  q.at \in {"look", "route"} /\ q.preset \in Presets =>
    /\ q.preset \in DOMAIN slots
    /\ \A i \in 1..Len(q.plan) : \E g \in DOMAIN slots[q.preset] : q.plan[i] = slots[q.preset][g]
    /\ \A g \in DOMAIN slots[q.preset] :
         Plays(slots[q.preset][g]) \/ \E i \in 1..Len(q.plan) : q.plan[i] = slots[q.preset][g]

OneAtATime == \A r, s \in Handlers : handler[r].at # "idle" /\ handler[s].at # "idle" => r = s

Alone ==
  /\ OneAtATime
  /\ \A r \in Handlers : Serving(handler[r]) /\ (handler[r].at = "route" => handler[r].seen = links)
  /\ restored \in DOMAIN slots =>
       /\ \A r \in Handlers : handler[r].at = "idle"
       /\ \A g \in DOMAIN slots[restored] : Plays(slots[restored][g])

HouseInv == HouseTypeOK /\ Exclusive /\ (~overlapped => Alone)

LEMMA IdleAt == NoWork.at = "idle"
BY DEF NoWork

LEMMA EditSlot ==
  ASSUME NEW s \in SlotT
  PROVE  /\ s = Slot(s.members, s.source) /\ s.members \subseteq Sinks /\ s.source \in Playable
         /\ \A n \in Playable : [s EXCEPT !.source = n] \in SlotT /\ [s EXCEPT !.source = n].members = s.members
         /\ \A o : [s EXCEPT !.members = @ \ {o}] \in SlotT /\ [s EXCEPT !.members = @ \ {o}].members = s.members \ {o}
<1>1. s = Slot(s.members, s.source) /\ s.members \subseteq Sinks /\ s.source \in Playable
  BY DEF SlotT, Slot
<1>2. \A n \in Playable : [s EXCEPT !.source = n] \in SlotT /\ [s EXCEPT !.source = n].members = s.members
  BY DEF SlotT
<1>3. \A o : [s EXCEPT !.members = @ \ {o}] \in SlotT /\ [s EXCEPT !.members = @ \ {o}].members = s.members \ {o}
  BY DEF SlotT
<1>4. QED
  BY <1>1, <1>2, <1>3

LEMMA NewSlot ==
  ASSUME NEW members \in SUBSET Sinks, NEW source \in Playable
  PROVE  Slot(members, source) \in SlotT /\ Slot(members, source).members = members
         /\ Slot(members, source).source = source
BY DEF Slot, SlotT

LEMMA InitHouse == HouseAssumption /\ HouseInit => HouseInv
<1> SUFFICES ASSUME HouseAssumption, HouseInit PROVE HouseInv
  OBVIOUS
<1>1. PICK m \in {f \in [Groups -> SUBSET Sinks] : OneGroup(f)} : slots = [p \in {Default} |-> Migrated(m)]
  BY DEF HouseInit
<1>2. DOMAIN slots = {Default} /\ DOMAIN slots[Default] \subseteq Groups
      /\ \A g \in DOMAIN slots[Default] : slots[Default][g] = Slot(m[g], Silent)
  BY <1>1 DEF Migrated
<1>3. \A g \in DOMAIN slots[Default] : slots[Default][g] \in SlotT /\ slots[Default][g].members = m[g]
  BY <1>1, <1>2, NewSlot DEF Playable
<1>4. \A r \in Handlers : handler[r].at = "idle"
  BY IdleAt DEF HouseInit
<1>5. HouseTypeOK
  BY <1>2, <1>3, <1>4 DEF HouseTypeOK, SlotsOK, HouseInit, HouseAssumption, Requested
<1>6. Exclusive
  BY <1>1, <1>2, <1>3 DEF Exclusive, Apart, OneGroup
<1>7. Alone
  <2>1. restored \notin DOMAIN slots
    BY <1>2 DEF HouseInit, HouseAssumption
  <2>2. QED
    BY <1>4, <2>1 DEF Alone, OneAtATime, Serving
<1>8. QED
  BY <1>5, <1>6, <1>7 DEF HouseInv

-----------------------------------------------------------------------------
(* The plan of a preset *)

\* Each member of a finite set of numbers has a rank, and each rank a member.
LEMMA RanksFit ==
  ASSUME NEW S, IsFiniteSet(S), S \subseteq Nat
  PROVE  LET RankOf(g) == Cardinality({h \in S : h <= g})
         IN  /\ Cardinality(S) \in Nat
             /\ \A g \in S : RankOf(g) \in 1..Cardinality(S)
             /\ \A g, h \in S : RankOf(g) = RankOf(h) => g = h
             /\ \A i \in 1..Cardinality(S) : \E g \in S : RankOf(g) = i
<1> DEFINE Upto(g) == {h \in S : h <= g}
           RankOf(g) == Cardinality(Upto(g))
           f == [g \in S |-> RankOf(g)]
           n == Cardinality(S)
<1>1. n \in Nat
  BY FS_CardinalityType
<1>2. ASSUME NEW g \in S PROVE Upto(g) \subseteq S /\ IsFiniteSet(Upto(g)) /\ RankOf(g) \in Nat /\ RankOf(g) <= n
  BY FS_Subset, FS_CardinalityType
<1>3. ASSUME NEW g \in S PROVE RankOf(g) \in 1..n
  <2>1. g \in Upto(g)
    OBVIOUS
  <2>2. RankOf(g) # 0
    BY <1>2, <2>1, FS_EmptySet
  <2>3. QED
    BY <1>1, <1>2, <2>2
<1>4. ASSUME NEW g \in S, NEW h \in S, g < h PROVE RankOf(g) # RankOf(h)
  <2>1. Upto(g) \subseteq Upto(h) /\ h \in Upto(h) /\ h \notin Upto(g)
    <3>1. g \in Nat /\ h \in Nat
      OBVIOUS
    <3>2. \A x \in S : x <= g => x <= h
      BY <1>4, <3>1
    <3>3. h <= h /\ ~(h <= g)
      BY <1>4, <3>1
    <3>4. QED
      BY <3>2, <3>3
  <2>2. IsFiniteSet(Upto(h))
    BY <1>2
  <2> HIDE DEF Upto
  <2>3. Cardinality(Upto(h)) = Cardinality(Upto(g)) => Upto(h) = Upto(g)
    BY <2>1, <2>2, FS_Subset
  <2>4. QED
    BY <2>1, <2>3
<1>5. \A g, h \in S : RankOf(g) = RankOf(h) => g = h
  <2> SUFFICES ASSUME NEW g \in S, NEW h \in S, g # h PROVE RankOf(g) # RankOf(h)
    OBVIOUS
  <2>1. g < h \/ h < g
    OBVIOUS
  <2> HIDE DEF RankOf
  <2>2. QED
    BY <1>4, <2>1
<1>6. f \in Injection(S, 1..n)
  <2> HIDE DEF RankOf, n
  <2>1. f \in [S -> 1..n]
    BY <1>3
  <2>2. \A g, h \in S : f[g] = f[h] => g = h
    BY <1>5
  <2>3. QED
    BY <2>1, <2>2 DEF Injection, IsInjective
<1>7. IsFiniteSet(1..n) /\ Cardinality(1..n) = n
  BY <1>1, FS_Interval
<1>8. f \in Surjection(S, 1..n)
  BY <1>6, <1>7, FS_Injection
<1>9. \A i \in 1..n : \E g \in S : RankOf(g) = i
  <2> HIDE DEF RankOf, n
  <2>1. QED
    BY <1>8 DEF Surjection
<1>10. QED
  BY <1>1, <1>3, <1>5, <1>9

LEMMA PlanCovers ==
  ASSUME HouseAssumption, HouseTypeOK, NEW p \in DOMAIN slots
  PROVE  /\ PlanOf(p) \in Seq(SlotT)
         /\ \A i \in 1..Len(PlanOf(p)) : \E g \in DOMAIN slots[p] : PlanOf(p)[i] = slots[p][g]
         /\ \A g \in DOMAIN slots[p] :
              \/ slots[p][g].members = {} \/ slots[p][g].source = Silent
              \/ \E i \in 1..Len(PlanOf(p)) : PlanOf(p)[i] = slots[p][g]
<1> DEFINE with == {g \in DOMAIN slots[p] : slots[p][g].members # {} /\ slots[p][g].source # Silent}
           RankOf(g) == Cardinality({h \in with : h <= g})
           At(i) == CHOOSE g \in with : RankOf(g) = i
           n == Cardinality(with)
<1>1. with \subseteq DOMAIN slots[p] /\ DOMAIN slots[p] \subseteq Groups /\ \A g \in DOMAIN slots[p] : slots[p][g] \in SlotT
  BY DEF HouseTypeOK, SlotsOK
<1>2. IsFiniteSet(with) /\ with \subseteq Nat
  <2>1. with \in SUBSET Groups
    BY <1>1
  <2> HIDE DEF with
  <2>2. QED
    BY <2>1, FS_Subset DEF HouseAssumption
<1>3. /\ n \in Nat /\ \A g \in with : RankOf(g) \in 1..n
      /\ \A g, h \in with : RankOf(g) = RankOf(h) => g = h
      /\ \A i \in 1..n : \E g \in with : RankOf(g) = i
  <2> HIDE DEF with
  <2>1. QED
    BY <1>2, RanksFit
<1>4. PlanOf(p) = [i \in 1..n |-> slots[p][At(i)]]
  BY DEF PlanOf
<1> HIDE DEF with, RankOf, n
<1>5. \A i \in 1..n : At(i) \in with /\ RankOf(At(i)) = i
  BY <1>3
<1>6. \A g \in with : At(RankOf(g)) = g
  BY <1>3, <1>5
<1> HIDE DEF At
<1>7. PlanOf(p) \in Seq(SlotT) /\ Len(PlanOf(p)) = n /\ \A i \in 1..n : PlanOf(p)[i] = slots[p][At(i)]
  BY <1>1, <1>3, <1>4, <1>5
<1>8. \A i \in 1..n : At(i) \in DOMAIN slots[p]
  BY <1>1, <1>5
<1>9. ASSUME NEW g \in DOMAIN slots[p], slots[p][g].members # {}, slots[p][g].source # Silent
      PROVE  \E i \in 1..n : PlanOf(p)[i] = slots[p][g]
  <2>1. g \in with
    BY <1>9 DEF with
  <2>2. QED
    BY <1>3, <1>6, <1>7, <2>1
<1>10. QED
  BY <1>7, <1>8, <1>9

-----------------------------------------------------------------------------
(* A request begins: if it is alone, no other is under way. *)

\* The requests after the step, when only that of r has changed.
Only(r, q) == handler' = [handler EXCEPT ![r] = q]

LEMMA BeginsAlone ==
  ASSUME HouseAssumption, HouseInv, NEW r \in Handlers, Arrives(r), SlotsOK', NEW q, Only(r, q),
         q.at \in {"look", "route"} => q.preset = NoPreset /\ q.at = "look"
  PROVE  ~overlapped' => Alone'
<1> SUFFICES ASSUME ~overlapped' PROVE Alone'
  OBVIOUS
<1>1. \A s \in Handlers : handler[s].at = "idle"
  BY IdleAt DEF Arrives, AllFree
<1>2. \A s \in Handlers : handler'[s] = IF s = r THEN q ELSE handler[s]
  BY DEF Only, HouseInv, HouseTypeOK
<1>3. restored' \notin DOMAIN slots'
  BY DEF Arrives, SlotsOK, HouseAssumption
<1>4. OneAtATime'
  BY <1>1, <1>2 DEF OneAtATime
<1>5. \A s \in Handlers : Serving(handler[s])' /\ handler'[s].at # "route"
  BY <1>1, <1>2 DEF Serving, HouseAssumption
<1>6. QED
  BY <1>3, <1>4, <1>5 DEF Alone

LEMMA BeginsAtOnce ==
  ASSUME HouseAssumption, HouseInv, NEW r \in Handlers, Arrives(r), SlotsOK', handler' = handler
  PROVE  ~overlapped' => Alone'
<1>1. Only(r, NoWork)
  BY DEF Arrives, Only, HouseInv, HouseTypeOK
<1>2. QED
  BY <1>1, IdleAt, BeginsAlone

\* What the stores are after a step that leaves the groups alone.
SameSlots == UNCHANGED <<slots, activePreset>>

LEMMA TypesOfRequest ==
  ASSUME HouseTypeOK, NEW r \in Handlers, NEW q, Only(r, q), Requested(q), SlotsOK', activePreset' \in DOMAIN slots',
         links' \subseteq Inputs \X Sinks, added' \subseteq Sinks, overlapped' \in BOOLEAN
  PROVE  HouseTypeOK'
<1>1. /\ handler' = [s \in Handlers |-> handler'[s]]
      /\ \A s \in Handlers : handler'[s] = IF s = r THEN q ELSE handler[s]
  BY DEF Only, HouseTypeOK
<1>2. \A s \in Handlers : Requested(handler'[s])
  BY <1>1 DEF HouseTypeOK
<1>3. QED
  BY <1>1, <1>2 DEF HouseTypeOK, Requested

LEMMA BeginsOverlap == ASSUME NEW r, Arrives(r) PROVE overlapped' \in BOOLEAN
BY DEF Arrives

\* A request that is done under its first lock: what it leaves of the groups.
LEMMA AtOnceKeeps ==
  ASSUME HouseAssumption, HouseInv, NEW r \in Handlers, Arrives(r), handler' = handler, SlotsOK', Exclusive',
         activePreset' \in DOMAIN slots', links' \subseteq Inputs \X Sinks, added' \subseteq Sinks
  PROVE  HouseInv'
<1>1. Only(r, NoWork) /\ Requested(NoWork)
  BY IdleAt DEF Arrives, Only, HouseInv, HouseTypeOK, Requested
<1>2. HouseTypeOK'
  BY <1>1, TypesOfRequest, BeginsOverlap DEF HouseInv
<1>3. QED
  BY <1>2, BeginsAtOnce DEF HouseInv

\* A request that has begun: what is yet to do of it.
LEMMA BegunKeeps ==
  ASSUME HouseAssumption, HouseInv, NEW r \in Handlers, Arrives(r), NEW q, Only(r, q), Requested(q), SameSlots,
         q.at \in {"look", "route"} => q.preset = NoPreset /\ q.at = "look",
         links' \subseteq Inputs \X Sinks, added' \subseteq Sinks
  PROVE  HouseInv'
<1>1. SlotsOK' /\ Exclusive' /\ activePreset' \in DOMAIN slots'
  BY DEF SameSlots, HouseInv, HouseTypeOK, SlotsOK, Exclusive
<1>2. HouseTypeOK'
  BY <1>1, TypesOfRequest, BeginsOverlap DEF HouseInv
<1>3. QED
  BY <1>1, <1>2, BeginsAlone DEF HouseInv

-----------------------------------------------------------------------------
(* The groups *)

\* A group given members that no other group of the preset has.
LEMMA GivenApart ==
  ASSUME HouseAssumption, HouseInv, NEW p \in DOMAIN slots, NEW g \in Groups, NEW s \in SlotT,
         NEW but \in {NoGroup, g}, ~ExclusivityConflict(p, s.members, but),
         slots' = [slots EXCEPT ![p] = Extended(@, g, s)]
  PROVE  SlotsOK' /\ Exclusive' /\ DOMAIN slots' = DOMAIN slots
<1>1. DOMAIN slots' = DOMAIN slots /\ \A k \in DOMAIN slots : slots'[k] = IF k = p THEN Extended(slots[p], g, s) ELSE slots[k]
  OBVIOUS
<1>2. /\ DOMAIN Extended(slots[p], g, s) = DOMAIN slots[p] \union {g}
      /\ \A h \in DOMAIN slots[p] \union {g} : Extended(slots[p], g, s)[h] = IF h = g THEN s ELSE slots[p][h]
  BY DEF Extended
<1>3. SlotsOK'
  BY <1>1, <1>2 DEF HouseInv, HouseTypeOK, SlotsOK
<1>4. \A h \in DOMAIN slots[p] \ {g} : slots[p][h].members \cap s.members = {}
  <2>1. DOMAIN slots[p] \subseteq Groups /\ NoGroup \notin Groups
    BY DEF HouseInv, HouseTypeOK, SlotsOK, HouseAssumption, NoGroup
  <2>2. QED
    BY <2>1 DEF ExclusivityConflict
<1>5. Apart(Extended(slots[p], g, s))
  <2>1. Apart(slots[p])
    BY DEF HouseInv, Exclusive
  <2>2. QED
    BY <1>2, <1>4, <2>1 DEF Apart
<1>6. Exclusive'
  BY <1>1, <1>5 DEF HouseInv, Exclusive, Apart
<1>7. QED
  BY <1>1, <1>3, <1>6

LEMMA CreateMusicKeeps ==
  ASSUME HouseAssumption, HouseInv, NEW r \in Handlers, NEW g \in Groups, NEW members \in SUBSET Sinks, NEW p,
         CreateMusic(r, g, members, p)
  PROVE  HouseInv'
<1>1. Slot(members, Silent) \in SlotT /\ Slot(members, Silent).members = members
  BY NewSlot DEF Playable
<1>2. SlotsOK' /\ Exclusive' /\ DOMAIN slots' = DOMAIN slots
  BY <1>1, GivenApart DEF CreateMusic
<1>3. QED
  BY <1>2, AtOnceKeeps DEF CreateMusic, HouseInv, HouseTypeOK

LEMMA UpdateMusicKeeps ==
  ASSUME HouseAssumption, HouseInv, NEW r \in Handlers, NEW g \in Groups, NEW members \in SUBSET Sinks, NEW p,
         UpdateMusic(r, g, members, p)
  PROVE  HouseInv'
<1>1. SlotOf(p, g).source \in Playable
  <2>1. g \in DOMAIN slots[p] => slots[p][g].source \in Playable
    BY EditSlot DEF UpdateMusic, HouseInv, HouseTypeOK, SlotsOK
  <2>2. Slot({}, Silent).source \in Playable
    BY DEF Slot, Playable
  <2>3. QED
    BY <2>1, <2>2 DEF SlotOf
<1>2. Slot(members, SlotOf(p, g).source) \in SlotT /\ Slot(members, SlotOf(p, g).source).members = members
  BY <1>1, NewSlot
<1>3. SlotsOK' /\ Exclusive' /\ DOMAIN slots' = DOMAIN slots
  BY <1>2, GivenApart DEF UpdateMusic
<1>4. QED
  BY <1>3, AtOnceKeeps DEF UpdateMusic, HouseInv, HouseTypeOK

LEMMA DeleteMusicKeeps ==
  ASSUME HouseAssumption, HouseInv, NEW r \in Handlers, NEW g \in Groups, DeleteMusic(r, g) PROVE HouseInv'
<1>1. /\ DOMAIN slots' = DOMAIN slots
      /\ \A p \in DOMAIN slots : /\ DOMAIN slots'[p] = DOMAIN slots[p] \ {g}
                                 /\ \A h \in DOMAIN slots[p] \ {g} : slots'[p][h] = slots[p][h]
  BY DEF DeleteMusic, Dropping
<1>2. SlotsOK'
  BY <1>1 DEF HouseInv, HouseTypeOK, SlotsOK
<1>3. Exclusive'
  BY <1>1 DEF HouseInv, Exclusive, Apart
<1>4. QED
  BY <1>1, <1>2, <1>3, AtOnceKeeps DEF DeleteMusic, HouseInv, HouseTypeOK

LEMMA CreatePresetKeeps ==
  ASSUME HouseAssumption, HouseInv, NEW r \in Handlers, NEW p \in Presets, NEW groups, CreatePreset(r, p, groups),
         groups = <<>> \/ \E from \in DOMAIN slots : groups = slots[from]
  PROVE  HouseInv'
<1>1. /\ DOMAIN slots' = DOMAIN slots \union {p}
      /\ \A k \in DOMAIN slots' : slots'[k] = IF k = p THEN groups ELSE slots[k]
  BY DEF CreatePreset, Extended
<1>2. DOMAIN groups \subseteq Groups /\ (\A g \in DOMAIN groups : groups[g] \in SlotT) /\ Apart(groups)
  <2>1. CASE groups = <<>>
    <3>1. DOMAIN groups = {}
      BY <2>1
    <3>2. QED
      BY <3>1 DEF Apart
  <2>2. CASE \E from \in DOMAIN slots : groups = slots[from]
    BY <2>2 DEF HouseInv, HouseTypeOK, SlotsOK, Exclusive
  <2>3. QED
    BY <2>1, <2>2
<1>3. SlotsOK'
  BY <1>1, <1>2 DEF HouseInv, HouseTypeOK, SlotsOK
<1>4. Exclusive'
  BY <1>1, <1>2 DEF HouseInv, Exclusive, Apart
<1>5. QED
  BY <1>1, <1>3, <1>4, AtOnceKeeps DEF CreatePreset, HouseInv, HouseTypeOK

-----------------------------------------------------------------------------
(* The routing of a group *)

LEMMA AskGroupKeeps ==
  ASSUME HouseAssumption, HouseInv, NEW r \in Handlers, NEW g \in Groups,
         (\E s \in Inputs : RouteGroup(r, g, s)) \/ UnrouteGroup(r, g)
  PROVE  HouseInv'
<1>1. PICK s \in Playable : /\ Arrives(r) /\ UNCHANGED stores
                         /\ Only(r, [at |-> "look", plan |-> <<Slot(SlotOf(activePreset, g).members, s)>>, note |-> g,
                                     preset |-> NoPreset])
  BY DEF RouteGroup, UnrouteGroup, Playable, Only
<1> DEFINE plan == <<Slot(SlotOf(activePreset, g).members, s)>>
           q == [at |-> "look", plan |-> plan, note |-> g, preset |-> NoPreset]
<1>2. SlotOf(activePreset, g).members \subseteq Sinks
  <2>1. g \in DOMAIN slots[activePreset] => slots[activePreset][g].members \subseteq Sinks
    BY EditSlot DEF HouseInv, HouseTypeOK, SlotsOK
  <2>2. Slot({}, Silent).members \subseteq Sinks
    BY DEF Slot
  <2>3. QED
    BY <2>1, <2>2 DEF SlotOf
<1>3. plan \in Seq(SlotT) /\ Len(plan) > 0
  BY <1>2, NewSlot
<1> HIDE DEF plan
<1>4. Requested(q) /\ q.at = "look" /\ q.preset = NoPreset
  BY <1>3 DEF Requested
<1>5. Only(r, q) /\ Arrives(r) /\ UNCHANGED stores
  BY <1>1 DEF plan
<1> HIDE DEF q
<1>6. SameSlots /\ links' \subseteq Inputs \X Sinks /\ added' \subseteq Sinks
  BY <1>5 DEF SameSlots, stores, HouseInv, HouseTypeOK
<1>7. QED
  BY <1>4, <1>5, <1>6, BegunKeeps

LEMMA AskPresetKeeps ==
  ASSUME HouseAssumption, HouseInv, NEW r \in Handlers, NEW p, AskActivate(r, p) \/ AskDelete(r, p)
  PROVE  HouseInv'
<1>1. PICK q : Only(r, q) /\ q.at \in {"activate", "delete"} /\ Arrives(r) /\ UNCHANGED stores
  BY DEF AskActivate, AskDelete, Only
<1>2. Requested(q)
  BY <1>1 DEF Requested
<1>3. SameSlots /\ links' \subseteq Inputs \X Sinks /\ added' \subseteq Sinks
  BY <1>1 DEF SameSlots, stores, HouseInv, HouseTypeOK
<1>4. QED
  BY <1>1, <1>2, <1>3, BegunKeeps

LEMMA OutputRequestKeeps ==
  ASSUME HouseAssumption, HouseInv, NEW r \in Handlers, OutputRequest(r) PROVE HouseInv'
<1>1. PICK o \in Sinks : \/ AdoptOutput(r, o) \/ Remove(r, o)
                           \/ \E s \in Inputs : LinkOne(r, s, o) \/ UnlinkOne(r, s, o)
  BY DEF OutputRequest
<1>2. links \subseteq Inputs \X Sinks /\ added \subseteq Sinks /\ SlotsOK /\ activePreset \in DOMAIN slots
  BY DEF HouseInv, HouseTypeOK
<1>3. ASSUME SameSlots PROVE SlotsOK' /\ Exclusive' /\ activePreset' \in DOMAIN slots'
  BY <1>2, <1>3 DEF SameSlots, SlotsOK, HouseInv, Exclusive
<1>4. CASE AdoptOutput(r, o)
  BY <1>2, <1>3, <1>4, AtOnceKeeps DEF AdoptOutput, SameSlots
<1>5. ASSUME NEW s \in Inputs, LinkOne(r, s, o) PROVE HouseInv'
  <2>1. links' \subseteq Inputs \X Sinks
    BY <1>2, <1>5 DEF LinkOne
  <2>2. QED
    BY <1>2, <1>3, <1>5, <2>1, AtOnceKeeps DEF LinkOne, SameSlots
<1>6. ASSUME NEW s \in Inputs, UnlinkOne(r, s, o) PROVE HouseInv'
  <2>1. links' \subseteq Inputs \X Sinks
    BY <1>2, <1>6 DEF UnlinkOne
  <2>2. QED
    BY <1>2, <1>3, <1>6, <2>1, AtOnceKeeps DEF UnlinkOne, SameSlots
<1>7. CASE Remove(r, o)
  <2> DEFINE q == [at |-> "leave", output |-> o]
  <2>1. q.at = "leave" /\ Requested(q) /\ Only(r, q) /\ Arrives(r) /\ SameSlots
    BY <1>7 DEF Remove, Requested, Only, SameSlots
  <2> HIDE DEF q
  <2>2. links' \subseteq Inputs \X Sinks /\ added' \subseteq Sinks
    BY <1>2, <1>7 DEF Remove
  <2>3. QED
    BY <2>1, <2>2, BegunKeeps
<1>8. QED
  BY <1>1, <1>4, <1>5, <1>6, <1>7

LEMMA MusicRequestKeeps ==
  ASSUME HouseAssumption, HouseInv, NEW r \in Handlers, MusicRequest(r) PROVE HouseInv'
BY CreateMusicKeeps, UpdateMusicKeeps, DeleteMusicKeeps, AskGroupKeeps DEF MusicRequest

LEMMA PresetRequestKeeps ==
  ASSUME HouseAssumption, HouseInv, NEW r \in Handlers, PresetRequest(r) PROVE HouseInv'
BY CreatePresetKeeps, AskPresetKeeps DEF PresetRequest

-----------------------------------------------------------------------------
(* A request goes on: alone, it is the only one there is. *)

Busy(r) == r \in Handlers /\ handler[r].at # "idle"

\* What is left to show of a step of the one request.
Goes(q) ==
  /\ Serving(q)' /\ (q.at = "route" => q.seen = links')
  /\ restored' \in DOMAIN slots' => q.at = "idle" /\ \A g \in DOMAIN slots'[restored'] : Plays(slots[restored][g])'

LEMMA GoesOn ==
  ASSUME HouseInv, NEW r, Busy(r), NEW q, Only(r, q), overlapped' = overlapped, ~overlapped => Goes(q)
  PROVE  ~overlapped' => Alone'
<1> SUFFICES ASSUME ~overlapped PROVE Alone'
  OBVIOUS
<1>1. \A s \in Handlers : handler'[s] = IF s = r THEN q ELSE handler[s]
  BY DEF Only, HouseInv, HouseTypeOK
<1>2. \A s \in Handlers \ {r} : handler'[s].at = "idle"
  BY <1>1 DEF Busy, HouseInv, Alone, OneAtATime
<1>3. handler'[r] = q /\ r \in Handlers
  BY <1>1 DEF Busy
<1>4. OneAtATime'
  BY <1>2 DEF OneAtATime
<1>5. \A s \in Handlers : Serving(handler[s])' /\ (handler'[s].at = "route" => handler'[s].seen = links')
  BY <1>2, <1>3 DEF Goes, Serving
<1>6. restored' \in DOMAIN slots' => \A s \in Handlers : handler'[s].at = "idle"
  BY <1>2, <1>3 DEF Goes
<1>7. QED
  BY <1>4, <1>5, <1>6 DEF Alone, Goes

\* As long as it runs, nothing is restored.
LEMMA BusyRestoresNothing ==
  ASSUME HouseInv, NEW r, Busy(r), ~overlapped PROVE restored \notin DOMAIN slots
BY DEF HouseInv, Alone, Busy

LEMMA AlongKeeps ==
  ASSUME HouseInv, NEW r, Busy(r), NEW q, Only(r, q), Requested(q), overlapped' = overlapped, ~overlapped => Goes(q),
         SlotsOK', Exclusive', activePreset' \in DOMAIN slots', links' \subseteq Inputs \X Sinks, added' \subseteq Sinks
  PROVE  HouseInv'
<1>1. HouseTypeOK'
  BY TypesOfRequest DEF HouseInv, HouseTypeOK, Busy
<1>2. QED
  BY <1>1, GoesOn DEF HouseInv

\* A step after which the request neither routes nor has restored anything.
LEMMA PlainGoes ==
  ASSUME HouseInv, NEW r, Busy(r), NEW q, q.at \notin {"look", "route"}, restored' \notin DOMAIN slots
  PROVE  DOMAIN slots' \subseteq DOMAIN slots => Goes(q)
BY DEF Goes, Serving

LEMMA LookKeeps == ASSUME HouseInv, NEW r \in Handlers, Look(r) PROVE HouseInv'
<1>0. PICK old : old = handler[r]
  OBVIOUS
<1>1. PICK q : /\ q = [at |-> "route", seen |-> links, plan |-> old.plan, note |-> old.note, preset |-> old.preset]
               /\ Only(r, q)
  BY <1>0 DEF Look, Only, HouseInv, HouseTypeOK
<1>2. /\ q.at = "route" /\ q.seen = links /\ q.plan = old.plan /\ q.preset = old.preset
      /\ old.at = "look" /\ UNCHANGED <<stores, overlapped, restored>>
  BY <1>0, <1>1 DEF Look, houseHistory
<1>3. Busy(r)
  BY <1>0, <1>2 DEF Busy
<1>4. Requested(q)
  BY <1>0, <1>2 DEF HouseInv, HouseTypeOK, Requested
<1>5. ASSUME ~overlapped PROVE Goes(q)
  <2>1. Serving(old)
    BY <1>0, <1>5 DEF HouseInv, Alone
  <2>2. Serving(q)
    BY <1>2, <2>1 DEF Serving
  <2>3. Serving(q)'
    BY <1>2, <2>2 DEF Serving, Plays, SourcesOf, stores
  <2>4. restored' \notin DOMAIN slots'
    BY <1>2, <1>3, <1>5, BusyRestoresNothing DEF stores
  <2>5. QED
    BY <1>2, <2>3, <2>4 DEF Goes, stores
<1>6. SlotsOK' /\ Exclusive' /\ activePreset' \in DOMAIN slots' /\ links' \subseteq Inputs \X Sinks /\ added' \subseteq Sinks
  BY <1>2 DEF HouseInv, HouseTypeOK, SlotsOK, Exclusive, stores
<1>7. QED
  BY <1>1, <1>2, <1>3, <1>4, <1>5, <1>6, AlongKeeps

\* The links after an entry was put in: its members have its source only, and
\* the other outputs what they had.
LEMMA PutServes ==
  ASSUME links \subseteq Inputs \X Sinks, NEW m \in SUBSET Sinks, NEW s \in Inputs, links' = Rewired(links, m, s), s # Silent
  PROVE  /\ \A o \in m : SourcesOf(o)' = {s}
         /\ \A o : o \notin m => SourcesOf(o)' = SourcesOf(o)
<1>1. links' = (links \ {l \in links : l[2] \in m /\ l[1] # s}) \union ({s} \X m)
  BY DEF Rewired, Dropped
<1>2. \A l \in links : l = <<l[1], l[2]>>
  OBVIOUS
<1>3. ASSUME NEW o \in m PROVE SourcesOf(o)' = {s}
  <2>1. \A l \in links' : l[2] = o => l[1] = s
    BY <1>1, <1>3
  <2>2. <<s, o>> \in links' /\ <<s, o>>[1] = s /\ <<s, o>>[2] = o
    BY <1>1, <1>3
  <2>3. QED
    BY <2>1, <2>2 DEF SourcesOf
<1>4. ASSUME NEW o, o \notin m PROVE SourcesOf(o)' = SourcesOf(o)
  <2>1. \A l \in {s} \X m : l[2] # o
    BY <1>4
  <2>2. \A l \in links : l[2] = o => l \in links'
    BY <1>1, <1>4
  <2>3. \A l \in links' : l[2] = o => l \in links
    BY <1>1, <2>1
  <2>4. QED
    BY <2>2, <2>3 DEF SourcesOf
<1>5. QED
  BY <1>3, <1>4

LEMMA PutIsLinks ==
  ASSUME links \subseteq Inputs \X Sinks, NEW m \in SUBSET Sinks, NEW s \in Playable, NEW seen
  PROVE  Rewired(seen, m, s) \subseteq Inputs \X Sinks
BY DEF Rewired, Playable

\* An entry of the plan is served: what is left, and what was, is untouched.
LEMMA ServedGoes ==
  ASSUME HouseInv, ~overlapped, NEW r \in Handlers, NEW q, q = handler[r], q.at = "route",
         NEW p \in Presets, p = q.preset, links' = Rewired(q.seen, Head(q.plan).members, Head(q.plan).source), slots' = slots
  PROVE  /\ p \in DOMAIN slots
         /\ \A g \in DOMAIN slots[p] : Plays(slots[p][g])' \/ \E i \in 2..Len(q.plan) : q.plan[i] = slots[p][g]
<1> DEFINE e == q.plan[1]
<1>1. q.plan \in Seq(SlotT) /\ Len(q.plan) > 0 /\ Serving(q) /\ q.seen = links
  BY DEF HouseInv, HouseTypeOK, Requested, Alone
<1>2. 1 \in 1..Len(q.plan) /\ Head(q.plan) = e /\ e \in SlotT
  BY <1>1
<1>3. p \in DOMAIN slots /\ \A g \in DOMAIN slots[p] : Plays(slots[p][g]) \/ \E i \in 1..Len(q.plan) : q.plan[i] = slots[p][g]
  BY <1>1 DEF Serving
<1>4. PICK f \in DOMAIN slots[p] : e = slots[p][f]
  BY <1>1, <1>2 DEF Serving
<1>5. links' = Rewired(links, e.members, e.source) /\ links \subseteq Inputs \X Sinks
  BY <1>1, <1>2 DEF HouseInv, HouseTypeOK
<1>6. e.members \subseteq Sinks /\ e.source \in Playable
  BY <1>2, EditSlot
<1>7. Apart(slots[p])
  BY <1>3 DEF HouseInv, Exclusive
<1>8. \A g \in DOMAIN slots[p] : slots[p][g] \in SlotT
  BY <1>3 DEF HouseInv, HouseTypeOK, SlotsOK
<1> HIDE DEF e
<1>10. ASSUME NEW g \in DOMAIN slots[p] PROVE Plays(slots[p][g])' \/ \E i \in 2..Len(q.plan) : q.plan[i] = slots[p][g]
  <2>1. slots'[p][g] = slots[p][g]
    OBVIOUS
  <2>2. CASE slots[p][g] = e
    <3>1. e.source # Silent => \A o \in e.members : SourcesOf(o)' = {e.source}
      <4>1. e.source # Silent => e.source \in Inputs
        BY <1>6 DEF Playable
      <4>2. QED
        BY <1>5, <1>6, <4>1, PutServes
    <3>2. QED
      BY <2>1, <2>2, <3>1 DEF Plays
  <2>3. CASE slots[p][g] # e /\ Plays(slots[p][g])
    <3>1. slots[p][g].members \cap e.members = {}
      BY <1>4, <1>7, <2>3 DEF Apart
    <3>2. \A o \in slots[p][g].members : SourcesOf(o)' = SourcesOf(o)
      <4>1. CASE e.source = Silent
        <5>1. links' = links \ {l \in links : l[2] \in e.members /\ l[1] # Silent}
          BY <1>5, <4>1 DEF Rewired, Dropped
        <5>2. QED
          BY <3>1, <5>1 DEF SourcesOf
      <4>2. CASE e.source # Silent
        <5>1. e.source \in Inputs
          BY <1>6, <4>2 DEF Playable
        <5>2. QED
          BY <1>5, <1>6, <3>1, <4>2, <5>1, PutServes
      <4>3. QED
        BY <4>1, <4>2
    <3>3. QED
      BY <2>1, <2>3, <3>2 DEF Plays
  <2>4. CASE slots[p][g] # e /\ ~Plays(slots[p][g])
    <3>1. PICK i \in 1..Len(q.plan) : q.plan[i] = slots[p][g]
      BY <1>3, <2>4
    <3>2. i # 1
      BY <2>4, <3>1 DEF e
    <3>3. Len(q.plan) \in Nat
      BY <1>1
    <3>4. i \in 2..Len(q.plan)
      BY <3>1, <3>2, <3>3
    <3>5. QED
      BY <3>1, <3>4
  <2>5. QED
    BY <2>2, <2>3, <2>4
<1>11. QED
  BY <1>3, <1>10

LEMMA RouteKeeps == ASSUME HouseAssumption, HouseInv, NEW r \in Handlers, Route(r) PROVE HouseInv'
<1>0. PICK old : old = handler[r]
  OBVIOUS
<1> DEFINE e == Head(old.plan)
<1>1. old.at = "route" /\ UNCHANGED <<slots, activePreset, added, overlapped>>
  BY <1>0 DEF Route
<1>2. old.plan \in Seq(SlotT) /\ Len(old.plan) > 0 /\ Len(old.plan) \in Nat
  BY <1>0, <1>1 DEF HouseInv, HouseTypeOK, Requested
<1>3. e \in SlotT /\ e.members \subseteq Sinks /\ e.source \in Playable
  <2>1. e = old.plan[1] /\ old.plan[1] \in SlotT
    BY <1>2
  <2>2. QED
    BY <2>1, EditSlot
<1>4. SlotsOK' /\ Exclusive' /\ activePreset' \in DOMAIN slots' /\ added' \subseteq Sinks
  BY <1>1 DEF HouseInv, HouseTypeOK, SlotsOK, Exclusive
<1>5. Busy(r) /\ links \subseteq Inputs \X Sinks
  BY <1>0, <1>1 DEF Busy, HouseInv, HouseTypeOK
<1>6. CASE /\ links' = Rewired(old.seen, e.members, e.source) /\ handler' = [handler EXCEPT ![r] = AfterRoute(old)]
           /\ restored' = IF AfterRoute(old) = NoWork THEN old.preset ELSE restored
  <2>0. PICK q : q = AfterRoute(old)
    OBVIOUS
  <2>1. Only(r, q)
    BY <1>6, <2>0 DEF Only
  <2>2. links' \subseteq Inputs \X Sinks
    BY <1>3, <1>5, <1>6, PutIsLinks
  <2>3. CASE Len(old.plan) > 1
    <3>1. q.at = "look" /\ q.plan = Tail(old.plan) /\ q.preset = old.preset /\ q # NoWork
      BY <2>0, <2>3, IdleAt DEF AfterRoute
    <3>2. Tail(old.plan) \in Seq(SlotT) /\ Len(Tail(old.plan)) = Len(old.plan) - 1
          /\ \A i \in 1..(Len(old.plan) - 1) : Tail(old.plan)[i] = old.plan[i + 1]
      BY <1>2, <2>3
    <3>3. Requested(q)
      BY <1>2, <2>3, <3>1, <3>2 DEF Requested
    <3>4. ASSUME ~overlapped PROVE Goes(q)
      <4>1. restored' \notin DOMAIN slots'
        BY <1>1, <1>5, <1>6, <2>0, <3>1, <3>4, BusyRestoresNothing
      <4>2. ASSUME q.preset \in Presets
            PROVE  /\ q.preset \in DOMAIN slots
                   /\ \A i \in 1..Len(q.plan) : \E g \in DOMAIN slots[q.preset] : q.plan[i] = slots[q.preset][g]
                   /\ \A g \in DOMAIN slots[q.preset] :
                        Plays(slots[q.preset][g])' \/ \E i \in 1..Len(q.plan) : q.plan[i] = slots[q.preset][g]
        <5>0. links' = Rewired(old.seen, Head(old.plan).members, Head(old.plan).source) /\ slots' = slots /\ old.preset \in Presets
          BY <1>1, <1>6, <3>1, <4>2
        <5>1. /\ old.preset \in DOMAIN slots
              /\ \A g \in DOMAIN slots[old.preset] :
                   Plays(slots[old.preset][g])' \/ \E i \in 2..Len(old.plan) : old.plan[i] = slots[old.preset][g]
          <6>1. PICK p \in Presets : p = old.preset
            BY <5>0
          <6>2. /\ p \in DOMAIN slots
                /\ \A g \in DOMAIN slots[p] : Plays(slots[p][g])' \/ \E i \in 2..Len(old.plan) : old.plan[i] = slots[p][g]
            BY <1>0, <1>1, <3>4, <5>0, <6>1, ServedGoes DEF Plays
          <6>3. QED
            BY <6>1, <6>2 DEF Plays
        <5>2. \A i \in 1..Len(old.plan) : \E g \in DOMAIN slots[old.preset] : old.plan[i] = slots[old.preset][g]
          BY <1>0, <1>1, <3>1, <3>4, <4>2 DEF HouseInv, Alone, Serving
        <5>3. \A i \in 1..Len(q.plan) : i + 1 \in 1..Len(old.plan) /\ q.plan[i] = old.plan[i + 1]
          BY <1>2, <3>1, <3>2
        <5>4. \A i \in 2..Len(old.plan) : i - 1 \in 1..Len(q.plan) /\ q.plan[i - 1] = old.plan[i]
          BY <1>2, <3>1, <3>2
        <5>5. \A i \in 1..Len(q.plan) : \E g \in DOMAIN slots[old.preset] : q.plan[i] = slots[old.preset][g]
          BY <5>2, <5>3
        <5>6. ASSUME NEW g \in DOMAIN slots[old.preset]
              PROVE  Plays(slots[old.preset][g])' \/ \E i \in 1..Len(q.plan) : q.plan[i] = slots[old.preset][g]
          BY <5>1, <5>4
        <5>7. q.preset = old.preset
          BY <3>1
        <5>8. ASSUME NEW p, p = old.preset, NEW g \in DOMAIN slots[p]
              PROVE  Plays(slots[p][g])' \/ \E i \in 1..Len(q.plan) : q.plan[i] = slots[p][g]
          BY <5>6, <5>8 DEF Plays
        <5>9. QED
          BY <5>1, <5>5, <5>7, <5>8
      <4>3. Serving(q)'
        <5>1. QED
          BY <1>1, <4>2 DEF Serving, Plays
      <4>4. QED
        BY <3>1, <4>1, <4>3 DEF Goes
    <3>5. QED
      BY <1>1, <1>4, <1>5, <2>1, <2>2, <3>3, <3>4, AlongKeeps
  <2>4. CASE Len(old.plan) <= 1 /\ old.note # NoGroup
    <3>1. q.at = "note" /\ q.source = old.plan[1].source /\ q # NoWork
      BY <1>2, <2>0, <2>4, IdleAt DEF AfterRoute
    <3>2. Requested(q)
      BY <1>2, <1>3, <3>1 DEF Requested
    <3>3. ~overlapped => Goes(q)
      BY <1>1, <1>5, <1>6, <2>0, <3>1, BusyRestoresNothing, PlainGoes
    <3>4. QED
      BY <1>1, <1>4, <1>5, <2>1, <2>2, <3>2, <3>3, AlongKeeps
  <2>5. CASE Len(old.plan) <= 1 /\ old.note = NoGroup
    <3>1. q = NoWork /\ q.at = "idle"
      BY <1>2, <2>0, <2>5, IdleAt DEF AfterRoute
    <3>2. Requested(q)
      BY <3>1 DEF Requested
    <3>3. ASSUME ~overlapped PROVE Goes(q)
      <4>1. restored' = old.preset /\ 2..Len(old.plan) = {}
        BY <1>2, <1>6, <2>0, <2>5, <3>1
      <4>2. ASSUME old.preset \in DOMAIN slots
            PROVE  \A g \in DOMAIN slots[old.preset] : Plays(slots[old.preset][g])'
        <5>1. old.preset \in Presets
          BY <4>2 DEF HouseInv, HouseTypeOK, SlotsOK
        <5>2. QED
          BY <1>0, <1>1, <1>6, <3>3, <4>1, <5>1, ServedGoes
      <4>3. restored' \in DOMAIN slots' => \A g \in DOMAIN slots'[restored'] : Plays(slots[restored][g])'
        <5>1. ASSUME restored' \in DOMAIN slots', NEW g \in DOMAIN slots'[restored'] PROVE Plays(slots[restored][g])'
          <6>1. old.preset \in DOMAIN slots /\ g \in DOMAIN slots[old.preset]
            BY <1>1, <4>1, <5>1
          <6>2. Plays(slots[old.preset][g])'
            BY <4>2, <6>1
          <6>3. QED
            BY <1>1, <4>1, <6>2 DEF Plays
        <5>2. QED
          BY <5>1
      <4>4. QED
        BY <3>1, <4>3 DEF Goes, Serving
    <3>4. QED
      BY <1>1, <1>4, <1>5, <2>1, <2>2, <3>2, <3>3, AlongKeeps
  <2>6. QED
    BY <1>2, <2>3, <2>4, <2>5
<1>7. CASE \E some \in (SUBSET e.members) \ {{}} :
             links' = Rewired(old.seen, some, e.source) /\ Unsaved(r) /\ UNCHANGED restored
  <2>1. links' \subseteq Inputs \X Sinks
    <3>1. PICK some \in SUBSET e.members : links' = Rewired(old.seen, some, e.source)
      BY <1>7
    <3>2. some \in SUBSET Sinks
      BY <1>3
    <3>3. QED
      BY <1>3, <1>5, <3>1, <3>2, PutIsLinks
  <2>2. Only(r, NoWork) /\ Requested(NoWork) /\ restored' = restored
    BY <1>7, IdleAt DEF Unsaved, Only, Requested
  <2>3. ~overlapped => Goes(NoWork)
    BY <1>1, <1>5, <2>2, IdleAt, BusyRestoresNothing, PlainGoes
  <2>4. QED
    BY <1>1, <1>4, <1>5, <2>1, <2>2, <2>3, AlongKeeps
<1>8. QED
  BY <1>0, <1>6, <1>7 DEF Route

LEMMA NoteKeeps == ASSUME HouseAssumption, HouseInv, NEW r \in Handlers, Note(r) PROVE HouseInv'
<1>0. PICK old : old = handler[r]
  OBVIOUS
<1>1. /\ old.at = "note" /\ Only(r, NoWork) /\ UNCHANGED <<activePreset, links, added, overlapped, restored>>
      /\ slots' = IF activePreset \in DOMAIN slots /\ old.group \in DOMAIN slots[activePreset]
                  THEN [slots EXCEPT ![activePreset][old.group].source = old.source] ELSE slots
  BY <1>0 DEF Note, Done, Only, houseHistory
<1>2. old.source \in Playable /\ Busy(r)
  BY <1>0, <1>1 DEF HouseInv, HouseTypeOK, Requested, Busy
<1>3. SlotsOK' /\ Exclusive' /\ DOMAIN slots' = DOMAIN slots
  <2>1. CASE activePreset \in DOMAIN slots /\ old.group \in DOMAIN slots[activePreset]
    <3> DEFINE new == [slots[activePreset][old.group] EXCEPT !.source = old.source]
    <3>1. slots' = [slots EXCEPT ![activePreset] = [slots[activePreset] EXCEPT ![old.group] = new]]
      BY <1>1, <2>1
    <3>2. slots[activePreset][old.group] \in SlotT
      BY <2>1 DEF HouseInv, HouseTypeOK, SlotsOK
    <3>3. new \in SlotT /\ new.members = slots[activePreset][old.group].members
      BY <1>2, <3>2, EditSlot
    <3> HIDE DEF new
    <3>4. /\ DOMAIN slots' = DOMAIN slots
          /\ \A p \in DOMAIN slots : /\ DOMAIN slots'[p] = DOMAIN slots[p]
                                     /\ \A g \in DOMAIN slots[p] :
                                          slots'[p][g] = IF p = activePreset /\ g = old.group THEN new ELSE slots[p][g]
      BY <3>1
    <3>5. SlotsOK'
      BY <3>3, <3>4 DEF HouseInv, HouseTypeOK, SlotsOK
    <3>6. \A p \in DOMAIN slots : \A g \in DOMAIN slots[p] : slots'[p][g].members = slots[p][g].members
      BY <3>3, <3>4
    <3>7. Exclusive'
      BY <3>4, <3>6 DEF HouseInv, Exclusive, Apart
    <3>8. QED
      BY <3>4, <3>5, <3>7
  <2>2. CASE slots' = slots
    BY <2>2 DEF HouseInv, HouseTypeOK, SlotsOK, Exclusive
  <2>3. QED
    BY <1>1, <2>1, <2>2
<1>4. Requested(NoWork) /\ (~overlapped => Goes(NoWork))
  BY <1>1, <1>2, <1>3, IdleAt, BusyRestoresNothing, PlainGoes DEF Requested
<1>5. QED
  BY <1>1, <1>2, <1>3, <1>4, AlongKeeps DEF HouseInv, HouseTypeOK

LEMMA ActivateKeeps == ASSUME HouseAssumption, HouseInv, NEW r \in Handlers, ActivatePreset(r) PROVE HouseInv'
<1>0. PICK p : p = handler[r].preset
  OBVIOUS
<1>1. handler[r].at = "activate" /\ Apply(r, p) /\ UNCHANGED <<slots, links, added, overlapped>> /\ Busy(r)
  BY <1>0 DEF ActivatePreset, Busy
<1>2. SlotsOK' /\ Exclusive' /\ links' \subseteq Inputs \X Sinks /\ added' \subseteq Sinks
  BY <1>1 DEF HouseInv, HouseTypeOK, SlotsOK, Exclusive
<1>3. Requested(NoWork)
  BY IdleAt DEF Requested
<1>4. CASE p \notin DOMAIN slots
  <2>1. Only(r, NoWork) /\ UNCHANGED <<activePreset, restored>>
    BY <1>1, <1>4 DEF Apply, Done, Only
  <2>2. ~overlapped => Goes(NoWork)
    BY <1>1, <2>1, IdleAt, BusyRestoresNothing, PlainGoes
  <2>3. QED
    BY <1>1, <1>2, <1>3, <2>1, <2>2, AlongKeeps DEF HouseInv, HouseTypeOK
<1>5. CASE p \in DOMAIN slots
  <2>1. activePreset' \in DOMAIN slots'
    BY <1>1, <1>5 DEF Apply
  <2>2. p \in Presets /\ NoPreset \notin DOMAIN slots
    BY <1>5 DEF HouseInv, HouseTypeOK, SlotsOK, HouseAssumption
  <2>3. CASE Unsaved(r) /\ restored' = NoPreset
    <3>1. Only(r, NoWork)
      BY <2>3 DEF Unsaved, Only
    <3>2. ~overlapped => Goes(NoWork)
      BY <1>1, <2>2, <2>3, IdleAt, PlainGoes
    <3>3. QED
      BY <1>1, <1>2, <1>3, <2>1, <3>1, <3>2, AlongKeeps
  <2>4. PICK plan : plan = PlanOf(p)
    OBVIOUS
  <2>5. /\ plan \in Seq(SlotT)
        /\ \A i \in 1..Len(plan) : \E g \in DOMAIN slots[p] : plan[i] = slots[p][g]
        /\ \A g \in DOMAIN slots[p] : \/ slots[p][g].members = {} \/ slots[p][g].source = Silent
                                      \/ \E i \in 1..Len(plan) : plan[i] = slots[p][g]
    BY <1>5, <2>4, PlanCovers DEF HouseInv
  <2>6. \A g \in DOMAIN slots[p] : Plays(slots[p][g])' \/ \E i \in 1..Len(plan) : plan[i] = slots[p][g]
    BY <1>1, <2>5 DEF Plays
  <2>7. CASE plan = <<>> /\ handler' = [handler EXCEPT ![r] = NoWork] /\ restored' = p
    <3>1. Only(r, NoWork)
      BY <2>7 DEF Only
    <3>2. \A g \in DOMAIN slots[p] : Plays(slots[p][g])'
      BY <2>6, <2>7
    <3>3. Goes(NoWork)
      <4>1. \A g \in DOMAIN slots'[restored'] : Plays(slots[restored][g])'
        BY <1>1, <2>7, <3>2 DEF Plays
      <4>2. QED
        BY <4>1, IdleAt DEF Goes, Serving
    <3>4. QED
      BY <1>1, <1>2, <1>3, <2>1, <3>1, <3>3, AlongKeeps
  <2>8. CASE plan # <<>> /\ restored' = NoPreset
             /\ handler' = [handler EXCEPT ![r] = [at |-> "look", plan |-> plan, note |-> NoGroup, preset |-> p]]
    <3>1. PICK q : q = [at |-> "look", plan |-> plan, note |-> NoGroup, preset |-> p]
      OBVIOUS
    <3>2. Only(r, q)
      BY <2>8, <3>1 DEF Only
    <3>3. q.at = "look" /\ q.plan = plan /\ q.preset = p
      BY <3>1
    <3>4. Len(plan) > 0
      BY <2>5, <2>8, EmptySeq
    <3>5. Requested(q)
      BY <2>5, <3>3, <3>4 DEF Requested
    <3>6. Serving(q)'
      <4>1. \A g \in DOMAIN slots[p] : Plays(slots[p][g])' \/ \E i \in 1..Len(q.plan) : q.plan[i] = slots[p][g]
        BY <2>6, <3>3
      <4>2. \A i \in 1..Len(q.plan) : \E g \in DOMAIN slots[p] : q.plan[i] = slots[p][g]
        BY <2>5, <3>3
      <4>3. QED
        BY <1>1, <1>5, <3>3, <4>1, <4>2 DEF Serving, Plays
    <3>7. Goes(q)
      BY <1>1, <2>2, <2>8, <3>3, <3>6 DEF Goes
    <3>8. QED
      BY <1>1, <1>2, <2>1, <3>2, <3>5, <3>7, AlongKeeps
  <2>9. QED
    BY <1>1, <1>5, <2>3, <2>4, <2>7, <2>8 DEF Apply
<1>6. QED
  BY <1>4, <1>5

LEMMA DeletePresetKeeps == ASSUME HouseAssumption, HouseInv, NEW r \in Handlers, DeletePreset(r) PROVE HouseInv'
<1>0. PICK old : old = handler[r]
  OBVIOUS
<1> DEFINE p == old.preset
<1>1. old.at = "delete" /\ UNCHANGED <<links, added, overlapped, restored>> /\ Busy(r)
  BY <1>0 DEF DeletePreset, Busy, houseHistory
<1>2. PICK q : Only(r, q) /\ q.at \in {"idle", "activate"}
  <2>1. Only(r, NoWork) \/ Only(r, [at |-> "activate", preset |-> Default])
    BY <1>0 DEF DeletePreset, Done, Only
  <2>2. [at |-> "activate", preset |-> Default].at = "activate"
    OBVIOUS
  <2>3. QED
    BY <2>1, <2>2, IdleAt
<1>3. \/ UNCHANGED <<slots, activePreset>>
      \/ /\ p # Default /\ p \in DOMAIN slots /\ slots' = Dropping(slots, p)
         /\ activePreset' = IF activePreset = p THEN Default ELSE activePreset
  BY <1>0 DEF DeletePreset
<1>4. SlotsOK' /\ Exclusive' /\ activePreset' \in DOMAIN slots' /\ DOMAIN slots' \subseteq DOMAIN slots
  <2>1. CASE UNCHANGED <<slots, activePreset>>
    BY <2>1 DEF HouseInv, HouseTypeOK, SlotsOK, Exclusive
  <2>2. CASE p # Default /\ p \in DOMAIN slots /\ slots' = Dropping(slots, p)
             /\ activePreset' = IF activePreset = p THEN Default ELSE activePreset
    <3>1. DOMAIN slots' = DOMAIN slots \ {p} /\ \A k \in DOMAIN slots' : slots'[k] = slots[k]
      BY <2>2 DEF Dropping
    <3>2. SlotsOK'
      BY <2>2, <3>1 DEF HouseInv, HouseTypeOK, SlotsOK
    <3>3. Exclusive' /\ activePreset' \in DOMAIN slots'
      BY <2>2, <3>1 DEF HouseInv, HouseTypeOK, SlotsOK, Exclusive, Apart
    <3>4. QED
      BY <3>1, <3>2, <3>3
  <2>3. QED
    BY <1>3, <2>1, <2>2
<1>5. Requested(q) /\ (~overlapped => Goes(q))
  BY <1>1, <1>2, <1>4, BusyRestoresNothing, PlainGoes DEF Requested
<1>6. QED
  BY <1>1, <1>2, <1>4, <1>5, AlongKeeps DEF HouseInv, HouseTypeOK

LEMMA LeaveKeeps == ASSUME HouseInv, NEW r \in Handlers, Leave(r) PROVE HouseInv'
<1>0. PICK o : o = handler[r].output
  OBVIOUS
<1>1. /\ handler[r].at = "leave" /\ slots' = Left(o) /\ Busy(r) /\ Only(r, [at |-> "reset", output |-> o])
      /\ UNCHANGED <<activePreset, links, added, overlapped, restored>>
  BY <1>0 DEF Leave, Only, Busy, houseHistory
<1>2. PICK q : Only(r, q) /\ q.at = "reset"
  BY <1>1
<1>3. /\ DOMAIN slots' = DOMAIN slots
      /\ \A p \in DOMAIN slots :
           /\ DOMAIN slots'[p] = DOMAIN slots[p]
           /\ \A g \in DOMAIN slots[p] : slots'[p][g] = [slots[p][g] EXCEPT !.members = @ \ {o}]
  BY <1>1 DEF Left
<1>4. \A p \in DOMAIN slots : \A g \in DOMAIN slots[p] :
        slots'[p][g] \in SlotT /\ slots'[p][g].members = slots[p][g].members \ {o}
  <2> SUFFICES ASSUME NEW p \in DOMAIN slots, NEW g \in DOMAIN slots[p]
               PROVE  slots'[p][g] \in SlotT /\ slots'[p][g].members = slots[p][g].members \ {o}
    OBVIOUS
  <2>1. PICK s \in SlotT : s = slots[p][g]
    BY DEF HouseInv, HouseTypeOK, SlotsOK
  <2>2. slots'[p][g] = [s EXCEPT !.members = @ \ {o}]
    BY <1>3, <2>1
  <2>3. QED
    BY <2>1, <2>2 DEF SlotT
<1>5. SlotsOK'
  BY <1>3, <1>4 DEF HouseInv, HouseTypeOK, SlotsOK
<1>6. Exclusive'
  BY <1>3, <1>4 DEF HouseInv, Exclusive, Apart
<1>7. Requested(q) /\ (~overlapped => Goes(q))
  BY <1>1, <1>2, <1>3, BusyRestoresNothing, PlainGoes DEF Requested
<1>8. QED
  BY <1>1, <1>2, <1>3, <1>5, <1>6, <1>7, AlongKeeps DEF HouseInv, HouseTypeOK

LEMMA ResetKeeps == ASSUME HouseInv, NEW r \in Handlers, Reset(r) PROVE HouseInv'
<1>1. /\ handler[r].at = "reset" /\ Only(r, NoWork) /\ Busy(r) /\ added' \subseteq added
      /\ UNCHANGED <<slots, activePreset, links, overlapped, restored>>
  BY DEF Reset, Done, Only, Busy
<1>2. Requested(NoWork) /\ (~overlapped => Goes(NoWork))
  BY <1>1, IdleAt, BusyRestoresNothing, PlainGoes DEF Requested
<1>3. SlotsOK' /\ Exclusive'
  BY <1>1 DEF HouseInv, HouseTypeOK, SlotsOK, Exclusive
<1>4. QED
  BY <1>1, <1>2, <1>3, AlongKeeps DEF HouseInv, HouseTypeOK

LEMMA HouseStutterKeeps == HouseInv /\ UNCHANGED houseVars => HouseInv'
<1> SUFFICES ASSUME HouseInv, UNCHANGED houseVars PROVE HouseInv'
  OBVIOUS
<1>1. UNCHANGED <<slots, activePreset, links, added, handler, overlapped, restored>>
  BY DEF houseVars, stores, houseHistory
<1>2. HouseTypeOK' /\ Exclusive'
  BY <1>1 DEF HouseInv, HouseTypeOK, SlotsOK, Exclusive
<1>3. ~overlapped => Alone'
  <2> SUFFICES ASSUME ~overlapped PROVE Alone'
    OBVIOUS
  <2>1. Alone
    BY DEF HouseInv
  <2>2. OneAtATime'
    BY <1>1, <2>1 DEF Alone, OneAtATime
  <2>3. ASSUME NEW s \in Handlers PROVE Serving(handler[s])' /\ (handler'[s].at = "route" => handler'[s].seen = links')
    <3>1. PICK q : q = handler[s]
      OBVIOUS
    <3>2. Serving(q) /\ (q.at = "route" => q.seen = links)
      BY <2>1, <3>1 DEF Alone
    <3>3. \A x : Plays(x)' <=> Plays(x)
      BY <1>1 DEF Plays, SourcesOf
    <3>4. Serving(q)'
      BY <1>1, <3>2, <3>3 DEF Serving, Plays, SourcesOf
    <3>5. handler'[s] = q
      BY <1>1, <3>1
    <3>6. Serving(handler[s])'
      BY <3>4, <3>5 DEF Serving, Plays
    <3>7. QED
      BY <1>1, <3>2, <3>5, <3>6
  <2>4. restored' \in DOMAIN slots' => (\A r \in Handlers : handler'[r].at = "idle")
                                       /\ \A g \in DOMAIN slots'[restored'] : Plays(slots[restored][g])'
    BY <1>1, <2>1 DEF Alone, Plays, SourcesOf
  <2>5. QED
    BY <2>2, <2>3, <2>4 DEF Alone
<1>4. QED
  BY <1>1, <1>2, <1>3 DEF HouseInv

\* After a preset was activated, with no other request on its way, every member
\* of a group it has a source for plays that source and no other: for any
\* groups, outputs, presets and requests, and whatever was edited, deleted or
\* left half done before.
THEOREM HouseActivationRestores == ASSUME HouseAssumption PROVE HouseSpec => []ActivationRestores
<1>1. HouseInit => HouseInv
  BY InitHouse
<1>2. HouseInv /\ [HouseNext]_houseVars => HouseInv'
  BY MusicRequestKeeps, PresetRequestKeeps, OutputRequestKeeps, LookKeeps, RouteKeeps, NoteKeeps, ActivateKeeps,
     DeletePresetKeeps, LeaveKeeps, ResetKeeps, HouseStutterKeeps DEF HouseNext
<1>3. HouseInv => ActivationRestores
  BY DEF HouseInv, Alone, Plays, ActivationRestores
<1>4. QED
  BY <1>1, <1>2, <1>3, PTL DEF HouseSpec

=============================================================================
