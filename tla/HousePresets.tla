------------------------------ MODULE HousePresets ------------------------------
(***************************************************************************)
(* store/groups.rs, the intent of store/routing.rs, and the handlers of    *)
(* api/groups.rs, api/presets.rs and api/outputs.rs over them: which       *)
(* outputs form a music group in which preset, what each group plays, and  *)
(* the links a routed group or an activated preset leaves behind.          *)
(*                                                                         *)
(* Every store has a lock of its own, and a handler takes them one after   *)
(* the other: a step of a request is what it does under one lock.  Groups  *)
(* and presets are their ids; names, announcement groups and the order of  *)
(* a group's members are left out.                                         *)
(***************************************************************************)
EXTENDS Integers, Sequences, FiniteSets

CONSTANTS Sinks, Inputs, Groups, Presets,
          Default,      \* DEFAULT_PRESET_ID
          Handlers, MaxCalls, MaxFaults

Silent == "none"   \* no source recorded
NoGroup == 0
NoPreset == "no preset"

HouseAssumption ==
  /\ Default \in Presets /\ NoPreset \notin Presets
  /\ Groups \subseteq Nat \ {0} /\ IsFiniteSet(Groups)

VARIABLES
  music,          \* the groups that exist
  slots,          \* of each preset that exists: members and source of each group it has
  activePreset,   \* the active preset
  links, added,   \* the routing intent, <<source, output>>; the outputs that were added
  handler,        \* of each handler, what it has yet to do
  calls, faults,
  \* history
  overlapped,     \* the running requests have run at the same time as others
  restored,       \* the preset whose activation was the last thing that happened
  raw,            \* outputs linked one by one, past the groups
  forgotten       \* outputs removed, and named by no request since

stores    == <<music, slots, activePreset, links, added>>
houseHistory == <<restored, raw, forgotten>>
houseVars == <<stores, handler, calls, faults, overlapped, houseHistory>>

NoWork == [at |-> "idle"]
AllFree == \A r \in Handlers : handler[r] = NoWork

Dropping(f, k) == [x \in (DOMAIN f) \ {k} |-> f[x]]
Extended(f, k, v) == [x \in DOMAIN f \union {k} |-> IF x = k THEN v ELSE f[x]]

Slot(members, source) == [members |-> members, source |-> source]
SlotOf(p, g) == IF g \in DOMAIN slots[p] THEN slots[p][g] ELSE Slot({}, Silent)

\* an older file has members in its groups: they become the Default preset
Migrated(members) == [g \in {h \in DOMAIN members : members[h] # {}} |-> Slot(members[g], Silent)]

OneGroup(m) == \A g, h \in DOMAIN m : g # h => m[g] \cap m[h] = {}

HouseInit ==
  /\ music = Groups
  /\ \E m \in {f \in [Groups -> SUBSET Sinks] : OneGroup(f)} :
       slots = [p \in {Default} |-> Migrated(m)]
  /\ activePreset = Default /\ links = {} /\ added = Sinks
  /\ handler = [r \in Handlers |-> NoWork] /\ calls = 0 /\ faults = 0
  /\ overlapped = FALSE /\ restored = NoPreset /\ raw = {} /\ forgotten = {}

-----------------------------------------------------------------------------
(* A request begins with the first lock it takes *)

Arrives(r) ==
  /\ calls < MaxCalls /\ handler[r] = NoWork /\ calls' = calls + 1
  /\ overlapped' = ~AllFree
  /\ restored' = NoPreset

\* what a store changes it keeps in memory even when it cannot write its file
Unsaved(r) ==
  /\ faults < MaxFaults /\ faults' = faults + 1
  /\ handler' = [handler EXCEPT ![r] = NoWork]

Done(r) == handler' = [handler EXCEPT ![r] = NoWork]

\* exclusivity_conflict: another group of the preset has one of the members
ExclusivityConflict(p, members, editing) ==
  \E g \in DOMAIN slots[p] \ {editing} : slots[p][g].members \cap members # {}

\* a new group, or new members for a group, in the preset the caller edits
CreateMusic(r, g, members, p) ==
  /\ Arrives(r) /\ g \notin music /\ p \in DOMAIN slots /\ ~ExclusivityConflict(p, members, NoGroup)
  /\ music' = music \cup {g}
  /\ slots' = [slots EXCEPT ![p] = Extended(@, g, Slot(members, Silent))]
  /\ forgotten' = forgotten \ members
  /\ UNCHANGED <<activePreset, links, added, handler, faults, raw>>

UpdateMusic(r, g, members, p) ==
  /\ Arrives(r) /\ g \in music /\ p \in DOMAIN slots /\ ~ExclusivityConflict(p, members, g)
  /\ slots' = [slots EXCEPT ![p] = Extended(@, g, Slot(members, SlotOf(p, g).source))]
  /\ forgotten' = forgotten \ members
  /\ UNCHANGED <<music, activePreset, links, added, handler, faults, raw>>

DeleteMusic(r, g) ==
  /\ Arrives(r) /\ g \in music
  /\ music' = music \ {g} /\ slots' = [p \in DOMAIN slots |-> Dropping(slots[p], g)]
  /\ UNCHANGED <<activePreset, links, added, handler, faults, raw, forgotten>>

CreatePreset(r, p, groups) ==
  /\ Arrives(r) /\ p \notin DOMAIN slots
  /\ slots' = Extended(slots, p, groups)
  /\ UNCHANGED <<music, activePreset, links, added, handler, faults, raw, forgotten>>

-----------------------------------------------------------------------------
(* Routing a group *)

\* members_of, in the active preset
RouteGroup(r, g, s) ==
  /\ Arrives(r) /\ g \in music /\ SlotOf(activePreset, g).members # {}
  /\ handler' = [handler EXCEPT ![r] =
       [at |-> "look", plan |-> <<Slot(SlotOf(activePreset, g).members, s)>>, note |-> g, preset |-> NoPreset]]
  /\ UNCHANGED <<stores, faults, raw, forgotten>>

UnrouteGroup(r, g) ==
  /\ Arrives(r) /\ g \in music
  /\ handler' = [handler EXCEPT ![r] =
       [at |-> "look", plan |-> <<Slot(SlotOf(activePreset, g).members, Silent)>>, note |-> g, preset |-> NoPreset]]
  /\ UNCHANGED <<stores, faults, raw, forgotten>>

\* route_members and unroute_members look at the links before they take the
\* lock to change them
Look(r) ==
  /\ handler[r].at = "look"
  /\ handler' = [handler EXCEPT ![r] = [at |-> "route", seen |-> links, plan |-> @.plan,
                                        note |-> @.note, preset |-> @.preset]]
  /\ UNCHANGED <<stores, calls, faults, overlapped, houseHistory>>

\* Faulty: the new link is added, the others stay
DroppedNone(seen, members, s) == {}

Dropped(seen, members, s) == {l \in seen : l[2] \in members /\ l[1] # s}

Rewired(seen, members, s) ==
  (links \ Dropped(seen, members, s)) \cup (IF s = Silent THEN {} ELSE {s} \X members)

AfterRoute(q) ==
  IF Len(q.plan) > 1 THEN [at |-> "look", plan |-> Tail(q.plan), note |-> q.note, preset |-> q.preset]
  ELSE IF q.note # NoGroup THEN [at |-> "note", group |-> q.note, source |-> q.plan[1].source]
  ELSE NoWork

Route(r) ==
  LET q == handler[r] e == Head(q.plan) IN
  /\ q.at = "route"
  /\ \/ /\ links' = Rewired(q.seen, e.members, e.source) /\ UNCHANGED faults
        /\ handler' = [handler EXCEPT ![r] = AfterRoute(q)]
        /\ restored' = IF AfterRoute(q) = NoWork THEN q.preset ELSE restored
     \/ \* the store's add fails: the members after it are left alone
        \E some \in (SUBSET e.members) \ {{}} :
          /\ e.source # Silent /\ ~({e.source} \X some \subseteq links)
          /\ links' = Rewired(q.seen, some, e.source) /\ Unsaved(r) /\ UNCHANGED restored
  /\ UNCHANGED <<music, slots, activePreset, added, calls, overlapped, raw, forgotten>>

\* note_source: into the preset that is active by now, if the group has a slot there
Note(r) ==
  LET q == handler[r] IN
  /\ q.at = "note"
  /\ slots' = IF activePreset \in DOMAIN slots /\ q.group \in DOMAIN slots[activePreset]
              THEN [slots EXCEPT ![activePreset][q.group].source = q.source] ELSE slots
  /\ Done(r)
  /\ UNCHANGED <<music, activePreset, links, added, calls, faults, overlapped, houseHistory>>

-----------------------------------------------------------------------------
(* Presets *)

\* a preset's groups in the order of their ids: those that have members, and
\* leave their links alone when no source is recorded
PlanOf(p) ==
  LET with == {g \in DOMAIN slots[p] : slots[p][g].members # {} /\ slots[p][g].source # Silent}
      RankOf(g) == Cardinality({h \in with : h <= g})
  IN [i \in 1..Cardinality(with) |-> slots[p][CHOOSE g \in with : RankOf(g) = i]]

\* apply_preset: the store first, then the links of group after group
Apply(r, p) ==
  IF p \notin DOMAIN slots THEN Done(r) /\ UNCHANGED <<activePreset, faults, restored>>
  ELSE /\ activePreset' = p
       /\ \/ /\ UNCHANGED faults
             /\ handler' = [handler EXCEPT ![r] = IF PlanOf(p) = <<>> THEN NoWork
                              ELSE [at |-> "look", plan |-> PlanOf(p), note |-> NoGroup, preset |-> p]]
             /\ restored' = IF PlanOf(p) = <<>> THEN p ELSE NoPreset
          \/ Unsaved(r) /\ restored' = NoPreset

AskActivate(r, p) ==
  /\ Arrives(r) /\ handler' = [handler EXCEPT ![r] = [at |-> "activate", preset |-> p]]
  /\ UNCHANGED <<stores, faults, raw, forgotten>>

ActivatePreset(r) ==
  /\ handler[r].at = "activate" /\ Apply(r, handler[r].preset)
  /\ UNCHANGED <<music, slots, links, added, calls, overlapped, raw, forgotten>>

\* delete_preset looks whether the preset is active, then deletes it, and
\* applies Default if it was
AskDelete(r, p) ==
  /\ Arrives(r)
  /\ handler' = [handler EXCEPT ![r] = [at |-> "delete", preset |-> p, was |-> activePreset = p]]
  /\ UNCHANGED <<stores, faults, raw, forgotten>>

DeletePreset(r) ==
  LET q == handler[r] p == q.preset IN
  /\ q.at = "delete"
  /\ IF p = Default \/ p \notin DOMAIN slots THEN UNCHANGED <<slots, activePreset>> /\ Done(r)
     ELSE /\ slots' = Dropping(slots, p)
          /\ activePreset' = IF activePreset = p THEN Default ELSE activePreset
          /\ handler' = [handler EXCEPT ![r] = IF q.was THEN [at |-> "activate", preset |-> Default] ELSE NoWork]
  /\ UNCHANGED <<music, links, added, calls, faults, overlapped, houseHistory>>

-----------------------------------------------------------------------------
(* Outputs *)

\* link and unlink of routing/mod.rs, and adopt
LinkOne(r, s, o) ==
  /\ Arrives(r) /\ o \in added
  /\ links' = links \cup {<<s, o>>} /\ raw' = raw \cup {o} /\ forgotten' = forgotten \ {o}
  /\ UNCHANGED <<music, slots, activePreset, added, handler, faults>>

UnlinkOne(r, s, o) ==
  /\ Arrives(r) /\ <<s, o>> \in links
  /\ links' = links \ {<<s, o>>} /\ raw' = raw \cup {o}
  /\ UNCHANGED <<music, slots, activePreset, added, handler, faults, forgotten>>

AdoptOutput(r, o) ==
  /\ Arrives(r) /\ o \notin added /\ added' = added \cup {o}
  /\ UNCHANGED <<music, slots, activePreset, links, handler, faults, raw, forgotten>>

\* remove_output: out of the links, out of the groups, out of the outputs
Remove(r, o) ==
  /\ Arrives(r) /\ o \in added
  /\ links' = {l \in links : l[2] # o}
  /\ handler' = [handler EXCEPT ![r] = [at |-> "leave", output |-> o]]
  /\ UNCHANGED <<music, slots, activePreset, added, faults, raw, forgotten>>

Left(o) == [p \in DOMAIN slots |-> [g \in DOMAIN slots[p] |-> [slots[p][g] EXCEPT !.members = @ \ {o}]]]

Leave(r) ==
  LET o == handler[r].output IN
  /\ handler[r].at = "leave"
  /\ slots' = Left(o)
  /\ handler' = [handler EXCEPT ![r] = [at |-> "reset", output |-> o]]
  /\ UNCHANGED <<music, activePreset, links, added, calls, faults, overlapped, houseHistory>>

Reset(r) ==
  LET o == handler[r].output IN
  /\ handler[r].at = "reset"
  /\ added' = added \ {o} /\ Done(r)
  /\ forgotten' = IF overlapped THEN forgotten ELSE forgotten \cup {o}
  /\ UNCHANGED <<music, slots, activePreset, links, calls, faults, overlapped, restored, raw>>

-----------------------------------------------------------------------------
MusicRequest(r) == \E g \in Groups :
  \/ \E p \in DOMAIN slots, members \in SUBSET Sinks : 
       CreateMusic(r, g, members, p) \/ UpdateMusic(r, g, members, p)
  \/ \E s \in Inputs : RouteGroup(r, g, s)
  \/ UnrouteGroup(r, g)
  \/ DeleteMusic(r, g)

PresetRequest(r) == \E p \in Presets :
  \/ CreatePreset(r, p, <<>>)
  \/ \E from \in DOMAIN slots : CreatePreset(r, p, slots[from])
  \/ AskActivate(r, p) \/ AskDelete(r, p)

OutputRequest(r) == \E o \in Sinks :
  \/ AdoptOutput(r, o) \/ Remove(r, o)
  \/ \E s \in Inputs : LinkOne(r, s, o) \/ UnlinkOne(r, s, o)

HouseNext == \E r \in Handlers :
  \/ /\ calls < MaxCalls /\ handler[r] = NoWork
     /\ MusicRequest(r) \/ PresetRequest(r) \/ OutputRequest(r)
  \/ Look(r) \/ Route(r) \/ Note(r) \/ ActivatePreset(r) \/ DeletePreset(r) \/ Leave(r) \/ Reset(r)

HouseSpec == HouseInit /\ [][HouseNext]_houseVars

-----------------------------------------------------------------------------
SourcesOf(o) == {l[1] : l \in {k \in links : k[2] = o}}

\* A preset restores the music and not only the grouping (store/groups.rs): once
\* it has been activated, with no other request on its way, every member of a
\* group it has a source for plays that source and no other.  It takes the
\* exclusivity of the groups in each preset, through copies and edits of
\* presets that are not active.
ActivationRestores ==
  restored \in DOMAIN slots /\ ~overlapped =>
    \A g \in DOMAIN slots[restored] : LET s == slots[restored][g] IN
      s.source # Silent => \A o \in s.members : SourcesOf(o) = {s.source}

=============================================================================
