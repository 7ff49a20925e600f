----------------------------- MODULE AgentRegistry -----------------------------
(***************************************************************************)
(* outputs/pwsink/agent.rs: pairing, the live and pending tables, and the  *)
(* handler of each agent's WebSocket.  Every operation runs under the      *)
(* registry's lock; what interleaves is the sockets.  A host that was      *)
(* suspended or lost its network dials in again while the handler of its   *)
(* old socket still waits for TCP to give up.                              *)
(*                                                                         *)
(* All hosts here share hostname and user, the case in which node names    *)
(* could collide: a name is the base name or the base with the machine id. *)
(***************************************************************************)
EXTENDS Naturals, FiniteSets

CONSTANTS
  Identities,  \* machine id and user
  Sockets,     \* connections that may be open at once
  BaseName,    \* pwsink-dev-<host>_<user>
  None,        \* no socket, no token
  MaxTokens    \* bound: pairings approved in one behaviour

RegistryConstants ==
  /\ BaseName \notin Identities
  /\ None \notin Sockets
  /\ None \notin Nat
  /\ MaxTokens \in Nat

VARIABLES
  paired,     \* `agents.json`: [identity, name, token]
  pending,    \* pair requests waiting for a human: [identity, name, socket]
  live,       \* node name -> the socket of its entry, or None
  asleep,     \* node names that said they were going away
  sockets,    \* socket -> [phase, identity, name]
  lastToken   \* tokens are never minted twice

vars == <<paired, pending, live, asleep, sockets, lastToken>>

Names  == {BaseName} \cup Identities    \* a suffixed name stands as its identity
Closed == [phase |-> "closed", identity |-> None, name |-> None]

\* "superseded": a newer hello has taken this socket's place in its table.
Phases == {"closed", "pending", "live", "superseded_pending", "superseded_live", "revoked"}

PairedAs(i) == {a \in paired : a.identity = i}

-----------------------------------------------------------------------------
\* Faulty: a host that waits for its approval has no name yet.
TakenByPaired(i, name) == \E a \in paired : a.name = name

(* node_name_for_identity()                                                  *)
Taken(i, name) == \/ \E a \in paired : a.name = name
                  \/ \E p \in pending : p.identity # i /\ p.name = name

NodeName(i) == IF PairedAs(i) # {} THEN (CHOOSE a \in PairedAs(i) : TRUE).name
               ELSE IF ~Taken(i, BaseName) THEN BaseName
               ELSE i

Supersede(phase, sock) ==
  [t \in Sockets |-> IF t = sock /\ sockets[t].phase = phase
                     THEN [sockets[t] EXCEPT !.phase = IF phase = "live" THEN "superseded_live"
                                                                         ELSE "superseded_pending"]
                     ELSE sockets[t]]

\* hello() with the token of this identity: welcome, in place of any other.
HelloWelcome(s, i, token) ==
  /\ sockets[s].phase = "closed"
  /\ \E a \in PairedAs(i) :
       /\ a.token = token
       /\ live' = [live EXCEPT ![a.name] = s]
       /\ asleep' = asleep \ {a.name}
       /\ sockets' = [Supersede("live", live[a.name]) EXCEPT ![s] = [phase |-> "live", identity |-> i, name |-> a.name]]
  /\ UNCHANGED <<paired, pending, lastToken>>

\* hello() without a token: a pair request, replacing this identity's last one.
HelloPending(s, i) ==
  /\ sockets[s].phase = "closed"
  /\ LET mine == {p \in pending : p.identity = i}
         old  == IF mine = {} THEN None ELSE (CHOOSE p \in mine : TRUE).socket
     IN  /\ pending' = (pending \ mine) \cup {[identity |-> i, name |-> NodeName(i), socket |-> s]}
         /\ sockets' = [Supersede("pending", old) EXCEPT ![s] = [phase |-> "pending", identity |-> i, name |-> NodeName(i)]]
  /\ UNCHANGED <<paired, live, asleep, lastToken>>

-----------------------------------------------------------------------------

\* approve(): mint a token; the agent reconnects with it on another socket.
Approve(i) ==
  /\ lastToken < MaxTokens
  /\ \E p \in pending :
       /\ p.identity = i
       /\ pending' = pending \ {p}
       /\ paired' = {a \in paired : a.identity # i} \cup {[identity |-> i, name |-> p.name, token |-> lastToken + 1]}
       /\ sockets' = Supersede("pending", p.socket)
  /\ lastToken' = lastToken + 1
  /\ UNCHANGED <<live, asleep>>

\* Faulty: the live entry stays.
UnpairStored(i) ==
  /\ \E a \in PairedAs(i) :
       /\ paired' = paired \ {a}
       /\ sockets' = [t \in Sockets |-> IF t = live[a.name] THEN [sockets[t] EXCEPT !.phase = "revoked"] ELSE sockets[t]]
  /\ UNCHANGED <<pending, live, asleep, lastToken>>

\* unpair(): the live connection is told, and left to close by itself.
Unpair(i) ==
  /\ \E a \in PairedAs(i) :
       /\ paired' = paired \ {a}
       /\ live' = [live EXCEPT ![a.name] = None]
       /\ sockets' = [t \in Sockets |-> IF t = live[a.name] THEN [sockets[t] EXCEPT !.phase = "revoked"] ELSE sockets[t]]
  /\ UNCHANGED <<pending, asleep, lastToken>>

\* Suspending, from the host: a disconnect with a reason, before the socket goes.
\* Whatever socket it arrives on, the entry of the name goes.
Suspending(s) ==
  /\ sockets[s].phase \in {"live", "superseded_live", "revoked"}
  /\ asleep' = asleep \cup {sockets[s].name}
  /\ live' = [live EXCEPT ![sockets[s].name] = None]
  /\ sockets' = [sockets EXCEPT ![s].phase = IF @ = "live" THEN "superseded_live" ELSE @]
  /\ UNCHANGED <<paired, pending, lastToken>>

-----------------------------------------------------------------------------
(* The end of handle_socket(), whenever the socket is found to be closed.    *)
CloseLive(s) ==
  /\ sockets[s].phase \in {"live", "superseded_live", "revoked"}
  /\ live' = [live EXCEPT ![sockets[s].name] = None]
  /\ sockets' = [sockets EXCEPT ![s] = Closed]
  /\ UNCHANGED <<paired, pending, asleep, lastToken>>

ClosePending(s) ==
  /\ sockets[s].phase \in {"pending", "superseded_pending"}
  /\ pending' = {p \in pending : p.identity # sockets[s].identity}
  /\ sockets' = [sockets EXCEPT ![s] = Closed]
  /\ UNCHANGED <<paired, live, asleep, lastToken>>

\* The daemon restarts: agents.json is all that is left.
Restart ==
  /\ pending' = {} /\ asleep' = {}
  /\ live' = [n \in Names |-> None]
  /\ sockets' = [s \in Sockets |-> Closed]
  /\ UNCHANGED <<paired, lastToken>>

-----------------------------------------------------------------------------
Init ==
  /\ paired = {} /\ pending = {} /\ asleep = {} /\ lastToken = 0
  /\ live = [n \in Names |-> None]
  /\ sockets = [s \in Sockets |-> Closed]

Next ==
  \/ \E s \in Sockets, i \in Identities : HelloPending(s, i) \/ \E t \in 1..lastToken : HelloWelcome(s, i, t)
  \/ \E i \in Identities : Approve(i) \/ Unpair(i)
  \/ \E s \in Sockets : Suspending(s) \/ CloseLive(s) \/ ClosePending(s)
  \/ Restart

Spec == Init /\ [][Next]_vars

-----------------------------------------------------------------------------
TypeOK ==
  /\ paired \subseteq [identity : Identities, name : Names, token : 1..MaxTokens]
  /\ pending \subseteq [identity : Identities, name : Names, socket : Sockets]
  /\ live \in [Names -> Sockets \cup {None}]
  /\ asleep \subseteq Names
  /\ sockets \in [Sockets -> [phase : Phases, identity : Identities \cup {None}, name : Names \cup {None}]]
  /\ lastToken \in 0..MaxTokens

(* Two hosts never share an output: node names are settled at hello and kept *)
(* through approval, re-pairing and unpairing, and stay distinct throughout. *)
NodeNamesDistinct ==
  \A x, y \in paired \cup pending : x.name = y.name => x.identity = y.identity

(* "The gate for the audio path": only a paired host is ever a live target,  *)
(* and its entry goes with its socket; nor does a pair request outlive its.  *)
EntriesHaveSockets ==
  /\ \A n \in Names : live[n] # None =>
       /\ sockets[live[n]].phase = "live" /\ sockets[live[n]].name = n
       /\ \E a \in paired : a.name = n
  /\ \A p \in pending : sockets[p.socket].phase = "pending" /\ sockets[p.socket].identity = p.identity

(* "Connected paired hosts": a host whose newest socket was welcomed, and    *)
(* that neither unpaired nor said it was going away, is a live target.       *)
ConnectedIsListed ==
  \A s \in Sockets : sockets[s].phase = "live" => live[sockets[s].name] = s
=============================================================================
