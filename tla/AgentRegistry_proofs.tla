------------------------ MODULE AgentRegistry_proofs ------------------------
(***************************************************************************)
(* Proofs about who is there: the receiver agents and their names, and the *)
(* network speakers that are found by probes.                              *)
(***************************************************************************)
EXTENDS AgentRegistry, Presence, TLAPS

-----------------------------------------------------------------------------
(* The agent registry *)
(***************************************************************************)
(* Proofs about the agent registry, for every set of hosts and sockets.    *)
(*                                                                         *)
(* Distinct names rest on where names come from: a name is the base name,  *)
(* which only one host can have taken, or the host's own suffixed one, and *)
(* a host keeps in its pair request the name it is paired under.  Entries  *)
(* then have sockets because a socket tells by its phase which of the two  *)
(* tables may name it, and by its name or its host which entry that is.    *)
(***************************************************************************)

\* node_name_for_identity(): the base name, or a suffix no other host has.
NamesOwn == \A x \in paired \cup pending : x.name \in {BaseName, x.identity}

\* A host has one name, in both tables.
OneNamePerHost ==
  \A x, y \in paired \cup pending : x.identity = y.identity /\ x \in paired => x.name = y.name

OneRequestPerHost == \A p, q \in pending : p.identity = q.identity => p = q

\* A socket that is not closed knows whose it is.
SocketsKnown ==
  \A s \in Sockets : sockets[s].phase # "closed" => /\ sockets[s].identity \in Identities
                                                    /\ sockets[s].name \in Names

IInv ==
  /\ TypeOK
  /\ NamesOwn
  /\ OneNamePerHost
  /\ OneRequestPerHost
  /\ SocketsKnown
  /\ NodeNamesDistinct
  /\ EntriesHaveSockets

(* A host that is paired keeps its output's name, whoever pairs, unpairs or  *)
(* asks meanwhile, over its own re-pairing and over restarts of the daemon.  *)
NamesKept ==
  [][\A a \in paired, b \in paired' : a.identity = b.identity => a.name = b.name]_vars

-----------------------------------------------------------------------------
(* node_name_for_identity() gives a host the name it is paired under, and    *)
(* never one that another host is paired under or has asked with.            *)
LEMMA NodeNameFits ==
  ASSUME RegistryConstants, IInv, NEW i \in Identities
  PROVE  /\ NodeName(i) \in Names
         /\ NodeName(i) \in {BaseName, i}
         /\ \A a \in paired : a.identity = i => a.name = NodeName(i)
         /\ \A x \in paired \cup pending : x.name = NodeName(i) => x.identity = i
<1>1. CASE PairedAs(i) # {}
  <2>1. PICK a \in paired : a.identity = i /\ NodeName(i) = a.name
    BY <1>1 DEF NodeName, PairedAs
  <2>2. \A x \in paired \cup pending : x.name = a.name => x.identity = i
    BY <2>1 DEF IInv, NodeNamesDistinct
  <2> QED BY <2>1, <2>2 DEF IInv, TypeOK, NamesOwn, OneNamePerHost
<1>2. CASE PairedAs(i) = {} /\ ~Taken(i, BaseName)
  BY <1>2 DEF NodeName, Taken, PairedAs, Names
<1>3. CASE PairedAs(i) = {} /\ Taken(i, BaseName)
  <2>1. NodeName(i) = i
    BY <1>3 DEF NodeName
  <2> QED BY <2>1, <1>3 DEF IInv, NamesOwn, PairedAs, Names, RegistryConstants
<1> QED BY <1>1, <1>2, <1>3

LEMMA InitInvariant == ASSUME RegistryConstants, Init PROVE IInv
BY DEF RegistryConstants, Init, IInv, TypeOK, NamesOwn, OneNamePerHost, OneRequestPerHost, SocketsKnown,
       NodeNamesDistinct, EntriesHaveSockets, Closed, Phases

(* A hello without a token, whatever the same host has asked before.         *)
LEMMA HelloPendingPreserves ==
  ASSUME RegistryConstants, IInv, NEW s \in Sockets, NEW i \in Identities, HelloPending(s, i)
  PROVE  IInv'
<1> DEFINE mine  == {p \in pending : p.identity = i}
           old   == IF mine = {} THEN None ELSE (CHOOSE p \in mine : TRUE).socket
           asking == [identity |-> i, name |-> NodeName(i), socket |-> s]
<1>1. /\ sockets[s].phase = "closed"
      /\ pending' = (pending \ mine) \cup {asking}
      /\ sockets' = [Supersede("pending", old)
                       EXCEPT ![s] = [phase |-> "pending", identity |-> i, name |-> NodeName(i)]]
      /\ UNCHANGED <<paired, live, asleep, lastToken>>
  BY DEF HelloPending
<1>2. /\ NodeName(i) \in Names
      /\ NodeName(i) \in {BaseName, i}
      /\ \A a \in paired : a.identity = i => a.name = NodeName(i)
      /\ \A x \in paired \cup pending : x.name = NodeName(i) => x.identity = i
  BY NodeNameFits
<1>3. \A t \in Sockets : t # s => /\ sockets'[t].identity = sockets[t].identity
                                 /\ sockets'[t].name = sockets[t].name
                                 /\ \/ sockets'[t].phase = sockets[t].phase
                                    \/ /\ t = old /\ sockets[t].phase = "pending"
                                       /\ sockets'[t].phase = "superseded_pending"
  BY <1>1 DEF Supersede, IInv, TypeOK
<1>4. sockets'[s] = [phase |-> "pending", identity |-> i, name |-> NodeName(i)]
  BY <1>1 DEF Supersede
<1>5. TypeOK'
  BY <1>1, <1>2 DEF IInv, TypeOK, Supersede, Phases, Names
<1>6. NamesOwn'
  BY <1>1, <1>2 DEF IInv, NamesOwn
<1>7. OneNamePerHost'
  BY <1>1, <1>2 DEF IInv, OneNamePerHost
<1>8. OneRequestPerHost'
  BY <1>1 DEF IInv, OneRequestPerHost
<1>9. SocketsKnown'
  BY <1>2, <1>3, <1>4 DEF IInv, SocketsKnown
<1>10. NodeNamesDistinct'
  BY <1>1, <1>2 DEF IInv, NodeNamesDistinct
<1>11. EntriesHaveSockets'
  <2>1. ASSUME NEW n \in Names, live'[n] # None
        PROVE  /\ sockets'[live'[n]].phase = "live" /\ sockets'[live'[n]].name = n
               /\ \E a \in paired' : a.name = n
    <3>1. live'[n] = live[n] /\ live[n] \in Sockets
      BY <2>1, <1>1 DEF IInv, TypeOK
    <3>2. /\ sockets[live[n]].phase = "live" /\ sockets[live[n]].name = n
          /\ \E a \in paired : a.name = n
      BY <3>1, <2>1 DEF IInv, EntriesHaveSockets
    <3> QED BY <3>1, <3>2, <1>1, <1>3
  <2>2. ASSUME NEW p \in pending', p # asking
        PROVE  sockets'[p.socket].phase = "pending" /\ sockets'[p.socket].identity = p.identity
    <3>1. p \in pending /\ p.identity # i /\ p.socket \in Sockets
      BY <2>2, <1>1 DEF IInv, TypeOK
    <3>2. sockets[p.socket].phase = "pending" /\ sockets[p.socket].identity = p.identity
      BY <3>1 DEF IInv, EntriesHaveSockets
    <3>3. p.socket # old
      <4>1. CASE mine = {}
        BY <4>1, <3>1 DEF RegistryConstants
      <4>2. CASE mine # {}
        BY <4>2, <3>1, <3>2 DEF IInv, EntriesHaveSockets
      <4> QED BY <4>1, <4>2
    <3> QED BY <3>1, <3>2, <3>3, <1>1, <1>3
  <2> QED BY <2>1, <2>2, <1>4 DEF EntriesHaveSockets
<1> QED BY <1>5, <1>6, <1>7, <1>8, <1>9, <1>10, <1>11 DEF IInv

(* A hello with the token of the pairing.                                    *)
LEMMA HelloWelcomePreserves ==
  ASSUME RegistryConstants, IInv, NEW s \in Sockets, NEW i \in Identities,
         NEW token, HelloWelcome(s, i, token)
  PROVE  IInv'
<1>1. PICK a \in PairedAs(i) :
        /\ live' = [live EXCEPT ![a.name] = s]
        /\ asleep' = asleep \ {a.name}
        /\ sockets' = [Supersede("live", live[a.name])
                         EXCEPT ![s] = [phase |-> "live", identity |-> i, name |-> a.name]]
  BY DEF HelloWelcome
<1>2. sockets[s].phase = "closed" /\ UNCHANGED <<paired, pending, lastToken>>
  BY DEF HelloWelcome
<1>3. a \in paired /\ a.identity = i /\ a.name \in Names
  BY DEF PairedAs, IInv, TypeOK
<1>4. \A t \in Sockets : t # s => /\ sockets'[t].identity = sockets[t].identity
                                 /\ sockets'[t].name = sockets[t].name
                                 /\ \/ sockets'[t].phase = sockets[t].phase
                                    \/ t = live[a.name] /\ sockets[t].phase = "live"
  BY <1>1 DEF Supersede, IInv, TypeOK
<1>5. sockets'[s] = [phase |-> "live", identity |-> i, name |-> a.name]
  BY <1>1 DEF Supersede
<1>6. TypeOK'
  BY <1>1, <1>2, <1>3 DEF IInv, TypeOK, Supersede, Phases
<1>7. SocketsKnown'
  <2> SUFFICES ASSUME NEW t \in Sockets, sockets'[t].phase # "closed"
               PROVE  sockets'[t].identity \in Identities /\ sockets'[t].name \in Names
    BY DEF SocketsKnown
  <2>1. CASE t = s
    BY <2>1, <1>3, <1>5
  <2>2. CASE t # s
    BY <2>2, <1>4 DEF IInv, SocketsKnown
  <2> QED BY <2>1, <2>2
<1>8. EntriesHaveSockets'
  <2>1. ASSUME NEW n \in Names, live'[n] # None
        PROVE  /\ sockets'[live'[n]].phase = "live" /\ sockets'[live'[n]].name = n
               /\ \E b \in paired' : b.name = n
    <3>1. CASE n = a.name
      BY <3>1, <1>1, <1>2, <1>3, <1>5 DEF IInv, TypeOK
    <3>2. CASE n # a.name
      <4>1. live'[n] = live[n] /\ live[n] \in Sockets
        BY <3>2, <2>1, <1>1 DEF IInv, TypeOK
      <4>2. /\ sockets[live[n]].phase = "live" /\ sockets[live[n]].name = n
            /\ \E b \in paired : b.name = n
        BY <4>1, <2>1 DEF IInv, EntriesHaveSockets
      <4>3. live[n] # s /\ live[n] # live[a.name]
        BY <4>1, <4>2, <3>2, <1>2, <1>3, <2>1 DEF IInv, EntriesHaveSockets
      <4> QED BY <4>1, <4>2, <4>3, <1>2, <1>4
    <3> QED BY <3>1, <3>2
  <2>2. ASSUME NEW p \in pending'
        PROVE  sockets'[p.socket].phase = "pending" /\ sockets'[p.socket].identity = p.identity
    <3>1. p.socket \in Sockets /\ sockets[p.socket].phase = "pending"
                               /\ sockets[p.socket].identity = p.identity
      BY <1>2 DEF IInv, TypeOK, EntriesHaveSockets
    <3> QED BY <3>1, <1>2, <1>4
  <2> QED BY <2>1, <2>2 DEF EntriesHaveSockets
<1> QED BY <1>2, <1>6, <1>7, <1>8
       DEF IInv, NamesOwn, OneNamePerHost, OneRequestPerHost, NodeNamesDistinct

(* A human approves the pair request; the host comes back on another socket. *)
LEMMA ApprovePreserves ==
  ASSUME RegistryConstants, IInv, NEW i \in Identities, Approve(i)
  PROVE  IInv'
<1>1. PICK p \in pending :
        /\ p.identity = i
        /\ pending' = pending \ {p}
        /\ paired' = {a \in paired : a.identity # i}
                       \cup {[identity |-> i, name |-> p.name, token |-> lastToken + 1]}
        /\ sockets' = Supersede("pending", p.socket)
  BY DEF Approve
<1>2. lastToken < MaxTokens /\ lastToken' = lastToken + 1 /\ UNCHANGED <<live, asleep>>
  BY DEF Approve
<1>3. p \in [identity : Identities, name : Names, socket : Sockets]
  BY DEF IInv, TypeOK
<1>4. \A t \in Sockets : /\ sockets'[t].identity = sockets[t].identity
                        /\ sockets'[t].name = sockets[t].name
                        /\ \/ sockets'[t].phase = sockets[t].phase
                           \/ /\ t = p.socket /\ sockets[t].phase = "pending"
                              /\ sockets'[t].phase = "superseded_pending"
  BY <1>1 DEF Supersede, IInv, TypeOK
<1>5. TypeOK'
  BY <1>1, <1>2, <1>3 DEF IInv, TypeOK, Supersede, Phases, RegistryConstants
<1>6. \A x \in paired' \cup pending' :
        \E y \in paired \cup pending : x.identity = y.identity /\ x.name = y.name
  BY <1>1
<1>7. NamesOwn' /\ NodeNamesDistinct'
  BY <1>6 DEF IInv, NamesOwn, NodeNamesDistinct
<1>8. OneRequestPerHost' /\ \A q \in pending' : q.identity # i
  BY <1>1 DEF IInv, OneRequestPerHost
<1>9. OneNamePerHost'
  <2>1. \A x \in paired' : x.identity = i => x.name = p.name
    BY <1>1
  <2>2. \A x \in paired' : x.identity # i => x \in paired
    BY <1>1
  <2> QED BY <1>1, <1>8, <2>1, <2>2 DEF IInv, OneNamePerHost
<1>10. SocketsKnown'
  BY <1>4 DEF IInv, SocketsKnown
<1>11. EntriesHaveSockets'
  <2>1. ASSUME NEW n \in Names, live'[n] # None
        PROVE  /\ sockets'[live'[n]].phase = "live" /\ sockets'[live'[n]].name = n
               /\ \E a \in paired' : a.name = n
    <3>1. live'[n] = live[n] /\ live[n] \in Sockets
      BY <2>1, <1>2 DEF IInv, TypeOK
    <3>2. sockets[live[n]].phase = "live" /\ sockets[live[n]].name = n
      BY <3>1, <2>1 DEF IInv, EntriesHaveSockets
    <3>3. PICK a \in paired : a.name = n
      BY <3>1, <2>1 DEF IInv, EntriesHaveSockets
    <3>4. CASE a.identity # i
      BY <3>1, <3>2, <3>3, <3>4, <1>1, <1>4
    <3>5. CASE a.identity = i
      <4>1. p.name = n
        BY <3>3, <3>5, <1>1 DEF IInv, OneNamePerHost
      <4>2. [identity |-> i, name |-> p.name, token |-> lastToken + 1] \in paired'
        BY <1>1
      <4> QED BY <3>1, <3>2, <4>1, <4>2, <1>4
    <3> QED BY <3>4, <3>5
  <2>2. ASSUME NEW q \in pending'
        PROVE  sockets'[q.socket].phase = "pending" /\ sockets'[q.socket].identity = q.identity
    <3>1. /\ q \in pending /\ q.identity # i /\ q.socket \in Sockets
          /\ sockets[q.socket].phase = "pending" /\ sockets[q.socket].identity = q.identity
      BY <1>1, <1>8 DEF IInv, TypeOK, EntriesHaveSockets
    <3>2. q.socket # p.socket
      BY <3>1, <1>1 DEF IInv, EntriesHaveSockets
    <3> QED BY <3>1, <3>2, <1>4
  <2> QED BY <2>1, <2>2 DEF EntriesHaveSockets
<1> QED BY <1>5, <1>7, <1>8, <1>9, <1>10, <1>11 DEF IInv

(* A pairing is revoked; its connection is left to close by itself.          *)
LEMMA UnpairPreserves ==
  ASSUME RegistryConstants, IInv, NEW i \in Identities, Unpair(i)
  PROVE  IInv'
<1>1. PICK a \in PairedAs(i) :
        /\ paired' = paired \ {a}
        /\ live' = [live EXCEPT ![a.name] = None]
        /\ sockets' = [t \in Sockets |-> IF t = live[a.name]
                                        THEN [sockets[t] EXCEPT !.phase = "revoked"] ELSE sockets[t]]
  BY DEF Unpair
<1>2. UNCHANGED <<pending, asleep, lastToken>>
  BY DEF Unpair
<1>3. a \in paired /\ a.identity = i /\ a.name \in Names
  BY DEF PairedAs, IInv, TypeOK
<1>4. \A t \in Sockets : /\ sockets'[t].identity = sockets[t].identity
                        /\ sockets'[t].name = sockets[t].name
                        /\ \/ sockets'[t].phase = sockets[t].phase
                           \/ t = live[a.name] /\ sockets'[t].phase = "revoked"
  BY <1>1 DEF IInv, TypeOK
<1>5. TypeOK'
  BY <1>1, <1>2 DEF IInv, TypeOK, Phases
<1>6. SocketsKnown'
  <2> SUFFICES ASSUME NEW t \in Sockets, sockets'[t].phase # "closed"
               PROVE  sockets'[t].identity \in Identities /\ sockets'[t].name \in Names
    BY DEF SocketsKnown
  <2>1. sockets[t].phase # "closed"
    <3>1. CASE t = live[a.name]
      <4>1. sockets[t].phase = "live"
        BY <3>1, <1>3 DEF IInv, EntriesHaveSockets, RegistryConstants
      <4> QED BY <4>1
    <3>2. CASE t # live[a.name]
      BY <3>2, <1>4
    <3> QED BY <3>1, <3>2
  <2>2. sockets[t].identity \in Identities /\ sockets[t].name \in Names
    BY <2>1 DEF IInv, SocketsKnown
  <2> QED BY <2>2, <1>4
<1>7. EntriesHaveSockets'
  <2>1. ASSUME NEW n \in Names, live'[n] # None
        PROVE  /\ sockets'[live'[n]].phase = "live" /\ sockets'[live'[n]].name = n
               /\ \E b \in paired' : b.name = n
    <3>1. n # a.name /\ live'[n] = live[n] /\ live[n] \in Sockets
      BY <2>1, <1>1, <1>3 DEF IInv, TypeOK
    <3>2. /\ sockets[live[n]].phase = "live" /\ sockets[live[n]].name = n
          /\ \E b \in paired : b.name = n
      BY <3>1, <2>1 DEF IInv, EntriesHaveSockets
    <3>3. live[n] # live[a.name]
      BY <3>1, <3>2, <2>1, <1>3 DEF IInv, EntriesHaveSockets
    <3> QED BY <3>1, <3>2, <3>3, <1>1, <1>4
  <2>2. ASSUME NEW p \in pending'
        PROVE  sockets'[p.socket].phase = "pending" /\ sockets'[p.socket].identity = p.identity
    <3>1. p.socket \in Sockets /\ sockets[p.socket].phase = "pending"
                               /\ sockets[p.socket].identity = p.identity
      BY <1>2 DEF IInv, TypeOK, EntriesHaveSockets
    <3>2. p.socket # live[a.name]
      BY <3>1, <1>3 DEF IInv, EntriesHaveSockets, RegistryConstants
    <3> QED BY <3>1, <3>2, <1>4
  <2> QED BY <2>1, <2>2 DEF EntriesHaveSockets
<1> QED BY <1>1, <1>2, <1>5, <1>6, <1>7
       DEF IInv, NamesOwn, OneNamePerHost, OneRequestPerHost, NodeNamesDistinct

(* A socket that was welcomed says that it suspends, or is found closed: the *)
(* entry of its name goes, and its own phase is not "live" after that.       *)
LEMMA EntryGoes ==
  ASSUME IInv, NEW s \in Sockets,
         live' = [live EXCEPT ![sockets[s].name] = None],
         UNCHANGED <<paired, pending, lastToken>>,
         sockets[s].phase \in {"live", "superseded_live", "revoked"},
         \A t \in Sockets : t # s => sockets'[t] = sockets[t]
  PROVE  EntriesHaveSockets'
<1>1. ASSUME NEW n \in Names, live'[n] # None
      PROVE  /\ sockets'[live'[n]].phase = "live" /\ sockets'[live'[n]].name = n
             /\ \E b \in paired' : b.name = n
  <2>1. n # sockets[s].name /\ live'[n] = live[n] /\ live[n] \in Sockets
    BY <1>1 DEF IInv, TypeOK
  <2>2. /\ sockets[live[n]].phase = "live" /\ sockets[live[n]].name = n
        /\ \E b \in paired : b.name = n
    BY <2>1, <1>1 DEF IInv, EntriesHaveSockets
  <2>3. sockets'[live[n]] = sockets[live[n]]
    BY <2>1, <2>2
  <2> QED BY <2>1, <2>2, <2>3
<1>2. ASSUME NEW p \in pending'
      PROVE  sockets'[p.socket].phase = "pending" /\ sockets'[p.socket].identity = p.identity
  <2>1. p.socket \in Sockets /\ sockets[p.socket].phase = "pending"
                             /\ sockets[p.socket].identity = p.identity
    BY DEF IInv, TypeOK, EntriesHaveSockets
  <2>2. sockets'[p.socket] = sockets[p.socket]
    BY <2>1
  <2> QED BY <2>1, <2>2
<1> QED BY <1>1, <1>2 DEF EntriesHaveSockets

LEMMA SuspendingPreserves ==
  ASSUME IInv, NEW s \in Sockets, Suspending(s)
  PROVE  IInv'
<1>1. /\ sockets[s].phase \in {"live", "superseded_live", "revoked"}
      /\ asleep' = asleep \cup {sockets[s].name}
      /\ live' = [live EXCEPT ![sockets[s].name] = None]
      /\ sockets' = [sockets EXCEPT ![s].phase = IF @ = "live" THEN "superseded_live" ELSE @]
      /\ UNCHANGED <<paired, pending, lastToken>>
  BY DEF Suspending
<1>2. sockets[s].identity \in Identities /\ sockets[s].name \in Names
  BY <1>1 DEF IInv, SocketsKnown
<1>3. TypeOK'
  BY <1>1, <1>2 DEF IInv, TypeOK, Phases
<1>4. \A t \in Sockets : t # s => sockets'[t] = sockets[t]
  BY <1>1 DEF IInv, TypeOK
<1>5. sockets'[s].identity = sockets[s].identity /\ sockets'[s].name = sockets[s].name
  BY <1>1 DEF IInv, TypeOK
<1>6. SocketsKnown'
  <2> SUFFICES ASSUME NEW t \in Sockets, sockets'[t].phase # "closed"
               PROVE  sockets'[t].identity \in Identities /\ sockets'[t].name \in Names
    BY DEF SocketsKnown
  <2>1. CASE t = s
    BY <2>1, <1>2, <1>5
  <2>2. CASE t # s
    BY <2>2, <1>4 DEF IInv, SocketsKnown
  <2> QED BY <2>1, <2>2
<1>7. EntriesHaveSockets'
  BY <1>1, <1>4, EntryGoes
<1> QED BY <1>1, <1>3, <1>6, <1>7
       DEF IInv, NamesOwn, OneNamePerHost, OneRequestPerHost, NodeNamesDistinct

(* One socket is closed, and what the tables hold stays as it is.            *)
LEMMA SocketClosed ==
  ASSUME IInv, NEW s \in Sockets, sockets' = [sockets EXCEPT ![s] = Closed]
  PROVE  /\ sockets' \in [Sockets -> [phase : Phases, identity : Identities \cup {None},
                                                     name : Names \cup {None}]]
         /\ \A t \in Sockets : t # s => sockets'[t] = sockets[t]
         /\ SocketsKnown'
<1>1. /\ sockets' \in [Sockets -> [phase : Phases, identity : Identities \cup {None},
                                                  name : Names \cup {None}]]
      /\ \A t \in Sockets : t # s => sockets'[t] = sockets[t]
      /\ sockets'[s].phase = "closed"
  BY DEF IInv, TypeOK, Closed, Phases
<1>2. SocketsKnown'
  BY <1>1 DEF IInv, SocketsKnown
<1> QED BY <1>1, <1>2

LEMMA CloseLivePreserves ==
  ASSUME IInv, NEW s \in Sockets, CloseLive(s)
  PROVE  IInv'
<1>1. /\ sockets[s].phase \in {"live", "superseded_live", "revoked"}
      /\ live' = [live EXCEPT ![sockets[s].name] = None]
      /\ sockets' = [sockets EXCEPT ![s] = Closed]
      /\ UNCHANGED <<paired, pending, asleep, lastToken>>
  BY DEF CloseLive
<1>2. /\ sockets' \in [Sockets -> [phase : Phases, identity : Identities \cup {None},
                                                  name : Names \cup {None}]]
      /\ \A t \in Sockets : t # s => sockets'[t] = sockets[t]
      /\ SocketsKnown'
  BY <1>1, SocketClosed
<1>3. TypeOK'
  BY <1>1, <1>2 DEF IInv, TypeOK
<1>4. EntriesHaveSockets'
  BY <1>1, <1>2, EntryGoes
<1> QED BY <1>1, <1>2, <1>3, <1>4
       DEF IInv, NamesOwn, OneNamePerHost, OneRequestPerHost, NodeNamesDistinct

(* The end of a pair request takes whatever its host is asking with.         *)
LEMMA ClosePendingPreserves ==
  ASSUME IInv, NEW s \in Sockets, ClosePending(s)
  PROVE  IInv'
<1>1. /\ sockets[s].phase \in {"pending", "superseded_pending"}
      /\ pending' = {p \in pending : p.identity # sockets[s].identity}
      /\ sockets' = [sockets EXCEPT ![s] = Closed]
      /\ UNCHANGED <<paired, live, asleep, lastToken>>
  BY DEF ClosePending
<1>2. /\ sockets' \in [Sockets -> [phase : Phases, identity : Identities \cup {None},
                                                  name : Names \cup {None}]]
      /\ \A t \in Sockets : t # s => sockets'[t] = sockets[t]
      /\ SocketsKnown'
  BY <1>1, SocketClosed
<1>3. TypeOK'
  BY <1>1, <1>2 DEF IInv, TypeOK
<1>4. EntriesHaveSockets'
  <2>1. ASSUME NEW n \in Names, live'[n] # None
        PROVE  /\ sockets'[live'[n]].phase = "live" /\ sockets'[live'[n]].name = n
               /\ \E b \in paired' : b.name = n
    <3>1. live'[n] = live[n] /\ live[n] \in Sockets
      BY <2>1, <1>1 DEF IInv, TypeOK
    <3>2. /\ sockets[live[n]].phase = "live" /\ sockets[live[n]].name = n
          /\ \E b \in paired : b.name = n
      BY <3>1, <2>1 DEF IInv, EntriesHaveSockets
    <3>3. sockets'[live[n]] = sockets[live[n]]
      BY <3>1, <3>2, <1>1, <1>2
    <3> QED BY <3>1, <3>2, <3>3, <1>1
  <2>2. ASSUME NEW p \in pending'
        PROVE  sockets'[p.socket].phase = "pending" /\ sockets'[p.socket].identity = p.identity
    <3>1. p \in pending /\ p.identity # sockets[s].identity /\ p.socket \in Sockets
      BY <1>1 DEF IInv, TypeOK
    <3>2. sockets[p.socket].phase = "pending" /\ sockets[p.socket].identity = p.identity
      BY <3>1 DEF IInv, EntriesHaveSockets
    <3>3. sockets'[p.socket] = sockets[p.socket]
      BY <3>1, <3>2, <1>2
    <3> QED BY <3>2, <3>3
  <2> QED BY <2>1, <2>2 DEF EntriesHaveSockets
<1> QED BY <1>1, <1>2, <1>3, <1>4
       DEF IInv, NamesOwn, OneNamePerHost, OneRequestPerHost, NodeNamesDistinct

(* After a restart there is the store, and nothing else.                     *)
LEMMA RestartPreserves ==
  ASSUME IInv, Restart
  PROVE  IInv'
<1>1. /\ pending' = {} /\ asleep' = {}
      /\ live' = [n \in Names |-> None]
      /\ sockets' = [s \in Sockets |-> Closed]
      /\ UNCHANGED <<paired, lastToken>>
  BY DEF Restart
<1>2. TypeOK'
  BY <1>1 DEF IInv, TypeOK, Closed, Phases
<1>3. SocketsKnown' /\ EntriesHaveSockets'
  BY <1>1 DEF SocketsKnown, EntriesHaveSockets, Closed
<1> QED BY <1>1, <1>2, <1>3
       DEF IInv, NamesOwn, OneNamePerHost, OneRequestPerHost, NodeNamesDistinct

-----------------------------------------------------------------------------
LEMMA NextPreserves ==
  ASSUME RegistryConstants, IInv, [Next]_vars
  PROVE  IInv'
<1>1. ASSUME NEW s \in Sockets, NEW i \in Identities, HelloPending(s, i)
      PROVE  IInv'
  BY <1>1, HelloPendingPreserves
<1>2. ASSUME NEW s \in Sockets, NEW i \in Identities, NEW t \in 1..lastToken, HelloWelcome(s, i, t)
      PROVE  IInv'
  BY <1>2, HelloWelcomePreserves
<1>3. ASSUME NEW i \in Identities, Approve(i) \/ Unpair(i)
      PROVE  IInv'
  BY <1>3, ApprovePreserves, UnpairPreserves
<1>4. ASSUME NEW s \in Sockets, Suspending(s) \/ CloseLive(s) \/ ClosePending(s)
      PROVE  IInv'
  BY <1>4, SuspendingPreserves, CloseLivePreserves, ClosePendingPreserves
<1>5. CASE Restart
  BY <1>5, RestartPreserves
<1>6. CASE UNCHANGED vars
  BY <1>6 DEF vars, IInv, TypeOK, NamesOwn, OneNamePerHost, OneRequestPerHost, SocketsKnown,
              NodeNamesDistinct, EntriesHaveSockets
<1> QED BY <1>1, <1>2, <1>3, <1>4, <1>5, <1>6 DEF Next

(* What pairing changes of a paired host is its token.                       *)
LEMMA NextKeepsNames ==
  ASSUME RegistryConstants, IInv, [Next]_vars
  PROVE  \A a \in paired, b \in paired' : a.identity = b.identity => a.name = b.name
<1>1. ASSUME NEW i \in Identities, Approve(i)
      PROVE  \A a \in paired, b \in paired' : a.identity = b.identity => a.name = b.name
  <2>1. PICK p \in pending :
          /\ p.identity = i
          /\ paired' = {a \in paired : a.identity # i}
                         \cup {[identity |-> i, name |-> p.name, token |-> lastToken + 1]}
    BY <1>1 DEF Approve
  <2>2. \A b \in paired' : \/ b \in paired
                           \/ b.identity = p.identity /\ b.name = p.name
    BY <2>1
  <2> QED BY <2>2 DEF IInv, OneNamePerHost
<1>2. ASSUME ~ \E i \in Identities : Approve(i)
      PROVE  paired' \subseteq paired
  BY <1>2 DEF Next, vars, HelloPending, HelloWelcome, Unpair, Suspending, CloseLive, ClosePending,
              Restart
<1> QED BY <1>1, <1>2 DEF IInv, OneNamePerHost

-----------------------------------------------------------------------------
(* The strengthening holds in every reachable state.                         *)
THEOREM Invariance == ASSUME RegistryConstants PROVE Spec => []IInv
<1>1. Init => IInv
  BY InitInvariant
<1>2. IInv /\ [Next]_vars => IInv'
  BY NextPreserves
<1> QED BY <1>1, <1>2, PTL DEF Spec

(* Every entry and every socket is well formed (agents.json, the two tables  *)
(* and handle_socket() of outputs/pwsink/agent.rs).                          *)
THEOREM TypeCorrect == ASSUME RegistryConstants PROVE Spec => []TypeOK
<1>1. IInv => TypeOK
  BY DEF IInv
<1> QED BY <1>1, Invariance, PTL

(* No two hosts share a node name, and so an output, whichever of them ask,  *)
(* are approved, revoked or forgotten by a restart, in any order.            *)
THEOREM NamesStayDistinct == ASSUME RegistryConstants PROVE Spec => []NodeNamesDistinct
<1>1. IInv => NodeNamesDistinct
  BY DEF IInv
<1> QED BY <1>1, Invariance, PTL

(* Only a paired host is a live target, by an open connection of its own     *)
(* name, and a pair request waits only as long as the socket it came on.     *)
THEOREM OnlyPairedAreLive == ASSUME RegistryConstants PROVE Spec => []EntriesHaveSockets
<1>1. IInv => EntriesHaveSockets
  BY DEF IInv
<1> QED BY <1>1, Invariance, PTL

(* A paired host keeps its name through re-pairing and restarts: what is     *)
(* routed to it stays routed to it.                                          *)
THEOREM PairedKeepTheirNames == ASSUME RegistryConstants PROVE Spec => NamesKept
<1>1. IInv /\ [Next]_vars
        => [\A a \in paired, b \in paired' : a.identity = b.identity => a.name = b.name]_vars
  BY NextKeepsNames
<1> QED BY <1>1, Invariance, PTL DEF Spec, NamesKept

-----------------------------------------------------------------------------
(* The presence of speakers *)
(***************************************************************************)
(* A network speaker that has answered within the time a removal takes is  *)
(* not forgotten.  The mark of an absence, `offline`, is no older than the *)
(* last answer; a speaker that is leaving has a mark of full age, was not  *)
(* probed again in the round, and a speaker that is not listed has none.   *)
(***************************************************************************)

Ages == 0..RemoveAfter

PresenceTypeOK ==
  /\ kind \in {"ap2", "sendspin", "pwsink"} /\ inRound \in BOOLEAN
  /\ listed \subseteq Speakers /\ probing \subseteq Speakers /\ leaving \subseteq Speakers
  /\ offline \in [Speakers -> Ages \union {Unset}] /\ sinceAnswer \in [Speakers -> Ages]
  /\ fails \in [Speakers -> Nat]

\* The mark is younger than the silence.
MarkIsYounger == \A d \in Speakers : offline[d] # Unset => offline[d] <= sinceAnswer[d]
Unmarked == \A d \in Speakers \ listed : offline[d] = Unset
RoundSound ==
  /\ probing \subseteq listed /\ leaving \subseteq listed /\ probing \intersect leaving = {}
  /\ \A d \in leaving : offline[d] = RemoveAfter
  /\ ~inRound => probing = {} /\ leaving = {}
  /\ kind = "pwsink" => ~inRound

PresenceInv == PresenceTypeOK /\ MarkIsYounger /\ Unmarked /\ RoundSound

LEMMA InitPresence == PresenceConstants /\ PresenceInit => PresenceInv
<1> SUFFICES ASSUME PresenceConstants, PresenceInit PROVE PresenceInv
  OBVIOUS
<1>1. /\ kind \in {"ap2", "sendspin", "pwsink"} /\ listed = {} /\ probing = {} /\ leaving = {} /\ inRound = FALSE
      /\ fails = [d \in Speakers |-> 0] /\ offline = [d \in Speakers |-> Unset]
      /\ sinceAnswer = [d \in Speakers |-> 0] /\ 0 \in Ages
  BY DEF PresenceInit, PresenceConstants, Ages
<1>2. PresenceTypeOK
  BY <1>1 DEF PresenceTypeOK
<1>3. MarkIsYounger /\ Unmarked /\ RoundSound
  BY <1>1 DEF MarkIsYounger, Unmarked, RoundSound
<1>4. QED
  BY <1>2, <1>3 DEF PresenceInv

LEMMA OlderFacts ==
  ASSUME PresenceConstants
  PROVE  /\ \A age \in Ages : Older(age, RemoveAfter) \in Ages /\ Older(age, RemoveAfter) # Unset
                              /\ age <= Older(age, RemoveAfter)
         /\ Older(Unset, RemoveAfter) = Unset
         /\ \A a, b \in Ages : a <= b => Older(a, RemoveAfter) <= Older(b, RemoveAfter)
BY DEF PresenceConstants, Older, Ages

\* A step that leaves the marks, the rounds and the answers alone.
Apart == UNCHANGED <<kind, listed, probing, leaving, inRound, offline, sinceAnswer, fails>>

LEMMA ApartKeeps == PresenceInv /\ Apart => PresenceInv' /\ AnsweredStays
BY DEF Apart, PresenceInv, PresenceTypeOK, MarkIsYounger, Unmarked, RoundSound, Ages, AnsweredStays

LEMMA ResolvedKeeps ==
  ASSUME PresenceConstants, PresenceInv, NEW d \in Speakers, NEW a \in Addresses \union {Unset}, SpeakerResolved(d, a)
  PROVE  PresenceInv' /\ AnsweredStays
<1>1. /\ listed' = listed \union {d} /\ UNCHANGED <<kind, probing, leaving, inRound, fails>>
      /\ offline' = IF kind = "pwsink" THEN MarkCleared(d) ELSE offline
      /\ sinceAnswer' = IF d \in listed /\ kind # "pwsink" THEN sinceAnswer ELSE [sinceAnswer EXCEPT ![d] = 0]
  BY DEF SpeakerResolved, round
<1>2. 0 \in Ages
  BY DEF PresenceConstants, Ages
<1>3. PresenceTypeOK'
  BY <1>1, <1>2 DEF PresenceInv, PresenceTypeOK, MarkCleared, Ages
<1>4. MarkIsYounger'
  <2> SUFFICES ASSUME NEW e \in Speakers, offline'[e] # Unset PROVE offline'[e] <= sinceAnswer'[e]
    BY DEF MarkIsYounger
  <2>1. CASE kind = "pwsink"
    BY <1>1, <2>1 DEF PresenceInv, PresenceTypeOK, MarkIsYounger, MarkCleared
  <2>2. CASE kind # "pwsink"
    BY <1>1, <2>2 DEF PresenceInv, PresenceTypeOK, MarkIsYounger, Unmarked
  <2>3. QED
    BY <2>1, <2>2
<1>5. Unmarked'
  BY <1>1 DEF PresenceInv, PresenceTypeOK, Unmarked, MarkCleared
<1>6. RoundSound'
  BY <1>1 DEF PresenceInv, PresenceTypeOK, RoundSound, MarkCleared
<1>7. AnsweredStays
  BY <1>1 DEF AnsweredStays
<1>8. QED
  BY <1>3, <1>4, <1>5, <1>6, <1>7 DEF PresenceInv

LEMMA WithdrawnKeeps ==
  ASSUME PresenceConstants, PresenceInv, NEW d \in Speakers, AdvertWithdrawn(d)
  PROVE  PresenceInv' /\ AnsweredStays
<1>1. /\ d \in listed /\ UNCHANGED <<kind, listed, probing, leaving, inRound, fails, sinceAnswer>>
      /\ offline' = [offline EXCEPT ![d] = 0] /\ kind = "pwsink" /\ 0 \in Ages
  BY DEF AdvertWithdrawn, round, history, PresenceConstants, Ages
<1>2. PresenceTypeOK' /\ Unmarked' /\ RoundSound' /\ AnsweredStays
  BY <1>1 DEF PresenceInv, PresenceTypeOK, Unmarked, RoundSound, AnsweredStays
<1>3. MarkIsYounger'
  BY <1>1 DEF PresenceInv, PresenceTypeOK, MarkIsYounger, Ages
<1>4. QED
  BY <1>2, <1>3 DEF PresenceInv

LEMMA BeginRoundKeeps ==
  ASSUME PresenceConstants, PresenceInv, BeginRound
  PROVE  PresenceInv' /\ AnsweredStays
<1>1. /\ kind # "pwsink" /\ ~inRound /\ inRound' = TRUE /\ probing' = listed
      /\ UNCHANGED <<kind, listed, leaving, fails>>
      /\ offline' = [d \in Speakers |-> Older(offline[d], RemoveAfter)]
      /\ sinceAnswer' = [d \in Speakers |-> Older(sinceAnswer[d], RemoveAfter)]
  BY DEF BeginRound
<1>2. PresenceTypeOK'
  BY <1>1, OlderFacts DEF PresenceInv, PresenceTypeOK
<1>3. MarkIsYounger'
  BY <1>1, OlderFacts DEF PresenceInv, PresenceTypeOK, MarkIsYounger
<1>4. Unmarked'
  BY <1>1, OlderFacts DEF PresenceInv, PresenceTypeOK, Unmarked
<1>5. RoundSound'
  BY <1>1 DEF PresenceInv, RoundSound
<1>6. QED
  BY <1>1, <1>2, <1>3, <1>4, <1>5 DEF PresenceInv, AnsweredStays

LEMMA AnsweredKeeps ==
  ASSUME PresenceConstants, PresenceInv, NEW d \in Speakers, ProbeAnswered(d)
  PROVE  PresenceInv' /\ AnsweredStays
<1>1. /\ inRound /\ d \in probing /\ probing' = probing \ {d}
      /\ UNCHANGED <<kind, listed, leaving, inRound>>
      /\ fails' = [fails EXCEPT ![d] = 0] /\ offline' = [offline EXCEPT ![d] = Unset]
      /\ sinceAnswer' = [sinceAnswer EXCEPT ![d] = 0] /\ 0 \in Ages
  BY DEF ProbeAnswered, Probed, MarkCleared, PresenceConstants, Ages
<1>2. PresenceTypeOK'
  BY <1>1 DEF PresenceInv, PresenceTypeOK
<1>3. MarkIsYounger' /\ Unmarked'
  BY <1>1 DEF PresenceInv, PresenceTypeOK, MarkIsYounger, Unmarked
<1>4. RoundSound'
  BY <1>1 DEF PresenceInv, PresenceTypeOK, RoundSound
<1>5. QED
  BY <1>1, <1>2, <1>3, <1>4 DEF PresenceInv, AnsweredStays

LEMMA FailedKeeps ==
  ASSUME PresenceConstants, PresenceInv, NEW d \in Speakers, ProbeFailed(d)
  PROVE  PresenceInv' /\ AnsweredStays
<1>1. /\ inRound /\ d \in probing /\ probing' = probing \ {d}
      /\ UNCHANGED <<kind, listed, inRound, sinceAnswer>>
      /\ fails' = [fails EXCEPT ![d] = Older(@, FailThreshold)] /\ 0 \in Ages
  BY DEF ProbeFailed, Probed, history, PresenceConstants, Ages
<1>2. /\ offline' = offline \/ offline' = [offline EXCEPT ![d] = IF @ = Unset THEN 0 ELSE @]
      /\ leaving' = leaving \/ (leaving' = leaving \union {d} /\ offline'[d] = RemoveAfter)
  BY DEF ProbeFailed
<1>3. d \in listed /\ d \notin leaving
  BY <1>1 DEF PresenceInv, RoundSound
<1>4. Older(fails[d], FailThreshold) \in Nat
  BY DEF PresenceInv, PresenceTypeOK, Older, PresenceConstants
<1>5. PresenceTypeOK'
  <2>1. offline' \in [Speakers -> Ages \union {Unset}]
    BY <1>1, <1>2 DEF PresenceInv, PresenceTypeOK
  <2>2. fails' \in [Speakers -> Nat] /\ leaving' \subseteq Speakers
    BY <1>1, <1>2, <1>4 DEF PresenceInv, PresenceTypeOK
  <2>3. QED
    BY <1>1, <2>1, <2>2 DEF PresenceInv, PresenceTypeOK
<1>6. MarkIsYounger'
  BY <1>1, <1>2 DEF PresenceInv, PresenceTypeOK, MarkIsYounger, Ages
<1>7. Unmarked'
  BY <1>1, <1>2, <1>3 DEF PresenceInv, PresenceTypeOK, Unmarked
<1>8. RoundSound'
  BY <1>1, <1>2, <1>3 DEF PresenceInv, PresenceTypeOK, RoundSound
<1>9. QED
  BY <1>1, <1>5, <1>6, <1>7, <1>8 DEF PresenceInv, AnsweredStays

LEMMA EndRoundKeeps ==
  ASSUME PresenceConstants, PresenceInv, EndRound
  PROVE  PresenceInv' /\ AnsweredStays
<1>1. /\ inRound /\ probing = {} /\ inRound' = FALSE /\ leaving' = {} /\ listed' = listed \ leaving
      /\ fails' = [d \in Speakers |-> IF d \in leaving THEN 0 ELSE fails[d]]
      /\ offline' = [d \in Speakers |-> IF d \in leaving THEN Unset ELSE offline[d]]
      /\ UNCHANGED <<kind, probing, sinceAnswer>>
  BY DEF EndRound, history
<1>2. PresenceTypeOK'
  BY <1>1 DEF PresenceInv, PresenceTypeOK
<1>3. MarkIsYounger' /\ Unmarked' /\ RoundSound'
  BY <1>1 DEF PresenceInv, PresenceTypeOK, MarkIsYounger, Unmarked, RoundSound
<1>4. AnsweredStays
  <2> SUFFICES ASSUME NEW d \in listed \ listed' PROVE sinceAnswer[d] = RemoveAfter /\ kind # "pwsink"
    BY <1>1 DEF AnsweredStays
  <2>1. d \in Speakers /\ offline[d] = RemoveAfter /\ kind # "pwsink" /\ sinceAnswer[d] \in Ages
    BY <1>1 DEF PresenceInv, PresenceTypeOK, RoundSound
  <2>2. RemoveAfter <= sinceAnswer[d]
    BY <2>1 DEF PresenceInv, MarkIsYounger, PresenceConstants
  <2>3. QED
    BY <2>1, <2>2 DEF Ages, PresenceConstants
<1>5. QED
  BY <1>2, <1>3, <1>4 DEF PresenceInv

LEMMA TargetsKeep ==
  ASSUME PresenceConstants, PresenceInv, CheckTargets
  PROVE  PresenceInv' /\ AnsweredStays
<1> DEFINE age == [d \in Speakers |-> Older(offline[d], RemoveAfter)]
           gone == {d \in listed \ streaming : age[d] = RemoveAfter}
<1>1. /\ kind = "pwsink" /\ listed' = listed \ gone
      /\ offline' = [d \in Speakers |-> IF d \in gone THEN Unset ELSE age[d]]
      /\ sinceAnswer' = [d \in Speakers |->
                          IF offline[d] = Unset THEN 0 ELSE Older(sinceAnswer[d], RemoveAfter)]
      /\ UNCHANGED <<kind, fails, probing, leaving, inRound>>
  BY DEF CheckTargets, round
<1>2. /\ age \in [Speakers -> Ages \union {Unset}] /\ 0 \in Ages
      /\ \A d \in Speakers : age[d] # Unset => offline[d] # Unset
      /\ \A d \in Speakers : offline[d] = Unset => age[d] = Unset
  BY OlderFacts DEF PresenceInv, PresenceTypeOK, PresenceConstants, Ages
<1>3. \A d \in Speakers : age[d] # Unset => age[d] <= sinceAnswer'[d]
  BY <1>1, <1>2, OlderFacts DEF PresenceInv, PresenceTypeOK, MarkIsYounger
<1>4. sinceAnswer' \in [Speakers -> Ages]
  BY <1>1, <1>2, OlderFacts DEF PresenceInv, PresenceTypeOK
<1> HIDE DEF age
<1>5. PresenceTypeOK'
  BY <1>1, <1>2, <1>4 DEF PresenceInv, PresenceTypeOK
<1>6. MarkIsYounger'
  BY <1>1, <1>2, <1>3 DEF MarkIsYounger
<1>7. Unmarked'
  BY <1>1, <1>2 DEF PresenceInv, Unmarked
<1>8. RoundSound'
  BY <1>1 DEF PresenceInv, RoundSound
<1>9. AnsweredStays
  <2> SUFFICES ASSUME NEW d \in listed \ listed' PROVE sinceAnswer'[d] = RemoveAfter /\ d \notin streaming
    BY DEF AnsweredStays
  <2>1. d \in Speakers /\ d \notin streaming /\ age[d] = RemoveAfter /\ sinceAnswer'[d] \in Ages
    BY <1>1, <1>4 DEF PresenceInv, PresenceTypeOK
  <2>2. RemoveAfter <= sinceAnswer'[d]
    BY <1>3, <2>1 DEF PresenceConstants
  <2>3. QED
    BY <2>1, <2>2 DEF Ages, PresenceConstants
<1>10. QED
  BY <1>5, <1>6, <1>7, <1>8, <1>9 DEF PresenceInv

LEMMA PresenceStep ==
  ASSUME PresenceConstants, PresenceInv, [PresenceNext]_presenceVars
  PROVE  PresenceInv' /\ AnsweredStays
<1>1. CASE \E d \in Speakers : \/ RebuildsSession(d) \/ ReceiverHeard(d) \/ SenderComesOrGoes(d)
                               \/ \E now \in {"alive", "wedged", "gone"} : ReachChanges(d, now)
  <2>1. Apart
    BY <1>1 DEF RebuildsSession, ReceiverHeard, SenderComesOrGoes, ReachChanges, Apart, tables, round, history
  <2>2. QED
    BY <2>1, ApartKeeps
<1>2. CASE UNCHANGED presenceVars
  <2>1. Apart
    BY <1>2 DEF presenceVars, Apart, tables, round, history
  <2>2. QED
    BY <2>1, ApartKeeps
<1>3. QED
  BY <1>1, <1>2, BeginRoundKeeps, EndRoundKeeps, TargetsKeep, WithdrawnKeeps, ResolvedKeeps, AnsweredKeeps,
     FailedKeeps DEF PresenceNext

\* A speaker that has answered, or a host that was advertised, within the time a removal takes is not
\* forgotten, nor is a host with a session (ap2/liveness.rs, sendspin/discovery.rs, pwsink/target_liveness.rs).
THEOREM PresenceAnsweredIsKept ==
  ASSUME PresenceConstants
  PROVE  PresenceSpec => AnsweredIsKept
<1>1. PresenceInit => PresenceInv
  BY InitPresence
<1>2. PresenceInv /\ [PresenceNext]_presenceVars => PresenceInv'
  BY PresenceStep
<1>3. PresenceInv /\ [PresenceNext]_presenceVars => [AnsweredStays]_presenceVars
  BY PresenceStep
<1>4. QED
  BY <1>1, <1>2, <1>3, PTL DEF PresenceSpec, AnsweredIsKept

=============================================================================
