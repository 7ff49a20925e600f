------------------------------- MODULE SourceStack ------------------------------
(***************************************************************************)
(* The audio sources (sources/mod.rs, airplay.rs, rtp.rs, spotify.rs): the *)
(* stored entries, the handlers that change them (api/sources.rs,          *)
(* api/clients.rs), and the reconcile after each change that brings the    *)
(* running receivers, devices and PipeWire modules in line with the store. *)
(*                                                                         *)
(* A reconcile works from a copy of the entries taken at its start.  The   *)
(* receivers and the devices are changed under a lock each; the modules by *)
(* commands to the PipeWire thread one after the other, and the modules to *)
(* remove are looked up in the registry mirror, which lags behind.         *)
(*                                                                         *)
(* An entry has one setting that needs a restart: the port of a receiver   *)
(* or of a module, the configuration of a device (0 is not a valid one).   *)
(***************************************************************************)
EXTENDS Integers, Sequences, FiniteSets

CONSTANTS Ids, Kinds, Labels, Settings,
          Requests, MaxRequests, MaxFailures, MaxRestarts

\* Sources are listed in the order of their ids; the first handler is the one of the start-up.
StackConstants == Ids \in SUBSET Nat /\ IsFiniteSet(Ids) /\ Requests \in SUBSET Nat

Blank == "blank"   \* a label of nothing but spaces

VARIABLES
  stored, disk,          \* the entries in memory and in the file: id -> entry
  receivers, devices,    \* running AirPlay receivers and Spotify devices
  modules, shown,        \* loaded RTP modules; their nodes in the mirror
  request, serving,      \* the handlers; they begin when the start-up is over
  asked, failures, restarts,
  crossed                \* the last reconcile was not alone with what it needs

sourceVars == <<stored, disk, receivers, devices, modules, shown, request, serving,
                asked, failures, restarts, crossed>>
running == <<receivers, devices, modules, shown>>

NoRequest == [at |-> "idle"]
Quiet == \A r \in Requests : request[r] = NoRequest
Others(r) == \E q \in Requests \ {r} : request[q] # NoRequest

Entry(kind, label, setting, prevent) == [kind |-> kind, label |-> label, setting |-> setting, prevent |-> prevent]
Entries == {Entry(k, l, s, p) : k \in Kinds, l \in Labels, s \in Settings \cup {0}, p \in BOOLEAN}
Stated(e) == e.kind = "airplay" \/ (~e.prevent /\ e.setting # 0 /\ (e.kind = "rtp" => e.label # Blank))

Without(f, k) == [x \in (DOMAIN f) \ {k} |-> f[x]]
With(f, k, v) == [x \in DOMAIN f \cup {k} |-> IF x = k THEN v ELSE f[x]]
OfKind(entries, kind) == {i \in DOMAIN entries : entries[i].kind = kind}

-----------------------------------------------------------------------------
(* SourcesStore *)

PortsInUse(entries, but) == {entries[i].setting : i \in OfKind(entries, "airplay") \ {but}}

\* the n-th port that no AirPlay entry has
FreePort(entries, but, n) ==
  LET used == PortsInUse(entries, but) IN
  CHOOSE p \in 1..Cardinality(used) + n : p \notin used /\ Cardinality((1..p) \ used) = n

Accepts(e, id) ==
  e.kind = "rtp" => \A i \in OfKind(stored, "rtp") \ {id} : stored[i].setting # e.setting

\* an AirPlay entry without a port gets the first that no other entry has
WithPort(e, id) ==
  IF e.kind = "airplay" /\ e.setting = 0 THEN [e EXCEPT !.setting = FreePort(stored, id, 1)] ELSE e

\* load: the entries of the file that have no port get one, in their order
Allocated(entries) ==
  LET open == {i \in OfKind(entries, "airplay") : entries[i].setting = 0}
  IN [i \in DOMAIN entries |->
        IF i \in open
        THEN [entries[i] EXCEPT !.setting = FreePort(entries, i, Cardinality({j \in open : j <= i}))]
        ELSE entries[i]]

-----------------------------------------------------------------------------
(* What an entry asks for *)

\* an AirPlay or Spotify entry with a blank label is switched off
Desired(entries, kind) == {i \in OfKind(entries, kind) : kind = "rtp" \/ entries[i].label # Blank}

Runs(e) == [label |-> e.label, setting |-> e.setting, prevent |-> e.prevent]

\* Faulty: a receiver keeps the port it was started on
NeedsRestartByName(h, e) == h.label # e.label

NeedsRestart(h, e) == h.label # e.label \/ h.setting # e.setting

-----------------------------------------------------------------------------
(* The handlers *)

Begins(r) ==
  /\ asked < MaxRequests /\ serving /\ request[r] = NoRequest
  /\ asked' = asked + 1

\* the store keeps a change it cannot write, and the handler ends there
Change(r, entries, next) ==
  /\ stored' = entries
  /\ \/ /\ disk' = entries /\ request' = [request EXCEPT ![r] = next]
        /\ crossed' = (crossed \/ Others(r)) /\ UNCHANGED failures
     \/ /\ failures < MaxFailures /\ failures' = failures + 1
        /\ request' = [request EXCEPT ![r] = NoRequest] /\ crossed' = TRUE /\ UNCHANGED disk

Create(r, id, e) ==
  /\ Begins(r) /\ id \notin DOMAIN stored /\ Accepts(e, id)
  /\ Change(r, With(stored, id, WithPort(e, id)), [at |-> "list"])
  /\ UNCHANGED <<running, serving, restarts>>

Update(r, id, e) ==
  /\ Begins(r) /\ id \in DOMAIN stored /\ e.kind = stored[id].kind /\ Accepts(e, id)
  /\ Change(r, With(stored, id, WithPort(e, id)), [at |-> "list"])
  /\ UNCHANGED <<running, serving, restarts>>

Delete(r, id) ==
  /\ Begins(r) /\ id \in DOMAIN stored
  /\ Change(r, Without(stored, id), [at |-> "list"])
  /\ UNCHANGED <<running, serving, restarts>>

\* set_source_policy reads the entry, stores it with the new policy, and tells
\* the receiver: three locks
AskPolicy(r, id, prevent) ==
  /\ Begins(r) /\ id \in OfKind(stored, "airplay")
  /\ request' = [request EXCEPT ![r] =
                   [at |-> "policy", id |-> id, entry |-> [stored[id] EXCEPT !.prevent = prevent]]]
  /\ crossed' = (crossed \/ Others(r))
  /\ UNCHANGED <<stored, disk, running, serving, failures, restarts>>

StorePolicy(r) ==
  LET q == request[r] IN
  /\ q.at = "policy"
  /\ IF q.id \in OfKind(stored, "airplay")
     THEN Change(r, [stored EXCEPT ![q.id] = [q.entry EXCEPT !.label = stored[q.id].label]],
                 [at |-> "tell", id |-> q.id, prevent |-> q.entry.prevent])
     ELSE request' = [request EXCEPT ![r] = NoRequest] /\ UNCHANGED <<stored, disk, failures, crossed>>
  /\ UNCHANGED <<running, serving, asked, restarts>>

TellPolicy(r) ==
  LET q == request[r] IN
  /\ q.at = "tell"
  /\ receivers' = IF q.id \in DOMAIN receivers THEN [receivers EXCEPT ![q.id].prevent = q.prevent] ELSE receivers
  /\ request' = [request EXCEPT ![r] = NoRequest]
  /\ UNCHANGED <<stored, disk, devices, modules, shown, serving, asked, failures, restarts, crossed>>

-----------------------------------------------------------------------------
(* reconcile_sources *)

List(r) ==
  /\ request[r].at = "list"
  /\ request' = [request EXCEPT ![r] = [at |-> "lookup", entries |-> stored]]
  /\ crossed' = Others(r)
  /\ UNCHANGED <<stored, disk, running, serving, asked, failures, restarts>>

InOrder(S) == [n \in 1..Cardinality(S) |-> CHOOSE i \in S : Cardinality({j \in S : j <= i}) = n]

\* the nodes the mirror shows that no entry has are unloaded, then every entry's
\* module is unloaded and loaded
Lookup(r) ==
  LET wanted  == OfKind(request[r].entries, "rtp")
      orphans == {i \in Ids \ wanted : shown[i] # "no"}
  IN
  /\ request[r].at = "lookup"
  /\ request' = [request EXCEPT ![r] =
       [at |-> "modules", entries |-> @.entries,
        todo |-> [n \in 1..Cardinality(orphans) |-> <<"unload", InOrder(orphans)[n]>>]
                 \o [n \in 1..2 * Cardinality(wanted) |->
                       <<IF n % 2 = 1 THEN "unload" ELSE "load", InOrder(wanted)[(n + 1) \div 2]>>]]]
  /\ crossed' = (crossed \/ \E i \in (DOMAIN modules) \ wanted : shown[i] = "no")
  /\ UNCHANGED <<stored, disk, running, serving, asked, failures, restarts>>

After(r) ==
  LET q == request[r] IN
  request' = [request EXCEPT ![r] = IF Len(q.todo) > 1 THEN [q EXCEPT !.todo = Tail(q.todo)]
                                    ELSE [at |-> "receivers", entries |-> q.entries]]

Unload(r) ==
  LET i == Head(request[r].todo)[2] IN
  /\ request[r].at = "modules" /\ request[r].todo # <<>> /\ Head(request[r].todo)[1] = "unload"
  /\ modules' = Without(modules, i)
  /\ shown' = [shown EXCEPT ![i] = IF @ = "yes" /\ i \in DOMAIN modules THEN "old" ELSE @]
  /\ After(r)
  /\ UNCHANGED <<stored, disk, receivers, devices, serving, asked, failures, restarts, crossed>>

\* a node name that has a module is refused another
LoadModule(r) ==
  LET i == Head(request[r].todo)[2] IN
  /\ request[r].at = "modules" /\ request[r].todo # <<>> /\ Head(request[r].todo)[1] = "load"
  /\ \/ /\ modules' = IF i \in DOMAIN modules THEN modules ELSE With(modules, i, request[r].entries[i].setting)
        /\ UNCHANGED <<failures, crossed>>
     \/ /\ failures < MaxFailures /\ failures' = failures + 1 /\ crossed' = TRUE
        /\ UNCHANGED modules
  /\ After(r)
  /\ UNCHANGED <<stored, disk, receivers, devices, shown, serving, asked, restarts>>

NoModules(r) ==
  /\ request[r].at = "modules" /\ request[r].todo = <<>>
  /\ request' = [request EXCEPT ![r] = [at |-> "receivers", entries |-> @.entries]]
  /\ UNCHANGED <<stored, disk, running, serving, asked, failures, restarts, crossed>>

\* a receiver starts unless another has its port
Started(kept, entries, ids) ==
  {i \in ids : /\ \A k \in DOMAIN kept : kept[k].setting # entries[i].setting
               /\ \A j \in ids : j < i => entries[j].setting # entries[i].setting}

Receivers(r) ==
  LET entries == request[r].entries
      wanted  == Desired(entries, "airplay")
      kept    == {i \in DOMAIN receivers \cap wanted : ~NeedsRestart(receivers[i], entries[i])}
      told    == [i \in kept |-> [receivers[i] EXCEPT !.prevent = entries[i].prevent]]
  IN
  /\ request[r].at = "receivers"
  /\ \E failed \in SUBSET (wanted \ kept) :
       /\ failures + Cardinality(failed) <= MaxFailures /\ failures' = failures + Cardinality(failed)
       /\ crossed' = (crossed \/ failed # {})
       /\ receivers' = [i \in kept \cup Started(told, entries, (wanted \ kept) \ failed) |->
                          IF i \in kept THEN told[i] ELSE Runs(entries[i])]
  /\ request' = [request EXCEPT ![r] = [at |-> "devices", entries |-> entries]]
  /\ UNCHANGED <<stored, disk, devices, modules, shown, serving, asked, restarts>>

Devices(r) ==
  LET entries == request[r].entries
      wanted  == Desired(entries, "spotify")
      kept    == {i \in DOMAIN devices \cap wanted : ~NeedsRestart(devices[i], entries[i])}
  IN
  /\ request[r].at = "devices"
  /\ \E failed \in SUBSET (wanted \ kept) :
       /\ failures + Cardinality(failed) <= MaxFailures /\ failures' = failures + Cardinality(failed)
       /\ crossed' = (crossed \/ failed # {})
       /\ devices' = [i \in kept \cup (wanted \ failed) |->
                        IF i \in kept THEN devices[i] ELSE Runs(entries[i])]
  /\ request' = [request EXCEPT ![r] = NoRequest]
  /\ serving' = TRUE
  /\ UNCHANGED <<stored, disk, receivers, modules, shown, asked, restarts>>

-----------------------------------------------------------------------------
(* The mirror, the daemon *)

NodeShown(i) ==
  /\ \/ shown[i] = "no" /\ i \in DOMAIN modules /\ shown' = [shown EXCEPT ![i] = "yes"]
     \/ shown[i] = "old" /\ shown' = [shown EXCEPT ![i] = "no"]
  /\ UNCHANGED <<stored, disk, receivers, devices, modules, request, serving, asked, failures, restarts, crossed>>

\* the daemon starts: it loads the file and reconciles before it serves requests
Boot(file) ==
  /\ stored' = Allocated(file) /\ disk' = Allocated(file)
  /\ receivers' = <<>> /\ devices' = <<>> /\ modules' = <<>>
  /\ shown' = [i \in Ids |-> "no"]
  /\ request' = [r \in Requests |-> IF \A q \in Requests : r <= q THEN [at |-> "list"] ELSE NoRequest]
  /\ serving' = FALSE /\ crossed' = FALSE

RestartDaemon ==
  /\ restarts < MaxRestarts /\ restarts' = restarts + 1
  /\ Boot(disk)
  /\ UNCHANGED <<asked, failures>>

SourceInit ==
  /\ \E ids \in SUBSET Ids : \E file \in [ids -> {e \in Entries : Stated(e)}] :
       /\ \A i, j \in OfKind(file, "rtp") : i # j => file[i].setting # file[j].setting
       /\ stored = Allocated(file) /\ disk = Allocated(file)
  /\ receivers = <<>> /\ devices = <<>> /\ modules = <<>>
  /\ shown = [i \in Ids |-> "no"]
  /\ request = [r \in Requests |-> IF \A q \in Requests : r <= q THEN [at |-> "list"] ELSE NoRequest]
  /\ serving = FALSE /\ crossed = FALSE /\ asked = 0 /\ failures = 0 /\ restarts = 0

SourceNext ==
  \/ \E r \in Requests :
       \/ /\ asked < MaxRequests /\ serving /\ request[r] = NoRequest
          /\ \E id \in Ids :
               \/ \E e \in {x \in Entries : Stated(x)} : Create(r, id, e) \/ Update(r, id, e)
               \/ Delete(r, id)
               \/ \E prevent \in BOOLEAN : AskPolicy(r, id, prevent)
       \/ StorePolicy(r) \/ TellPolicy(r)
       \/ List(r) \/ Lookup(r) \/ Unload(r) \/ LoadModule(r) \/ NoModules(r) \/ Receivers(r) \/ Devices(r)
  \/ \E i \in Ids : NodeShown(i)
  \/ RestartDaemon

SourceSpec == SourceInit /\ [][SourceNext]_sourceVars

-----------------------------------------------------------------------------
RunsStored ==
  /\ modules = [i \in OfKind(stored, "rtp") |-> stored[i].setting]
  /\ devices = [i \in Desired(stored, "spotify") |-> Runs(stored[i])]
  /\ \A i \in DOMAIN receivers : i \in Desired(stored, "airplay") /\ receivers[i] = Runs(stored[i])
  /\ \A i \in Desired(stored, "airplay") \ DOMAIN receivers :
       \E k \in DOMAIN receivers : receivers[k].setting = stored[i].setting

\* What runs is what is stored: after every change, once its reconcile is over,
\* whatever earlier reconciles failed to start, left behind or did at the same
\* time as another.  The last one has run alone, failed at nothing, and found
\* every module it had to unload in the mirror.
RunsWhatIsStored == Quiet /\ serving /\ ~crossed => RunsStored

=============================================================================
