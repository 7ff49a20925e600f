----------------------------- MODULE AirplayClients -----------------------------
(***************************************************************************)
(* sources/airplay_clients.rs and the callbacks of the AirPlay receiver in *)
(* sources/airplay.rs: the remembered senders of one receiver, with their  *)
(* bans and priorities, and who may hold its session.                      *)
(*                                                                         *)
(* A connection is known by its peer's address; the sender's name may      *)
(* follow when it sets the session up.  A sender's address changes (DHCP)  *)
(* and may pass to another.  The connections and the session's owner are   *)
(* the AirPlay server's (vendored), which knows them by address.           *)
(*                                                                         *)
(* The records are a set: where the code takes the first of several in the *)
(* list that match, the model takes any.                                   *)
(***************************************************************************)
EXTENDS Naturals

CONSTANTS Senders, Addrs, Conns, Priorities, MaxEdits, MaxMoves, MaxConnects, MaxReboots,
          HomeOf(_)   \* the address a sender has at first

Unnamed  == "unnamed"

\* A name is no address: a key of the API stands for one of the two.
ClientsConstants ==
  /\ Senders \cap Addrs = {} /\ Unnamed \notin Senders
  /\ \A s \in Senders : HomeOf(s) \in Addrs
NoOwner  == "no owner"
NoConn   == 0

VARIABLES
  clients,         \* the records
  conns,           \* connection -> stage, address, sender, whether it told its name
  owner,           \* the address that holds the session
  metadata,        \* the connection whose metadata is published (now_playing)
  prevent,         \* prevent_takeover
  address,         \* sender -> its address now
  edits, moves, connects, reboots,
  barred           \* history: names banned by request, and at no address another has used

clientVars   == <<clients, conns, owner, metadata, prevent, address, edits, moves, connects, reboots, barred>>
clientBounds == <<edits, moves, connects, reboots>>

Record(name, addr) == [name |-> name, addr |-> addr, banned |-> FALSE, priority |-> 0, connected |-> TRUE]
ClosedConn == [stage |-> "closed"]
Open(c) == conns[c].stage # "closed"

Key(rec) == IF rec.name # Unnamed THEN rec.name ELSE rec.addr
ByName(n) == {rec \in clients : rec.name = n}
ByAddr(a) == {rec \in clients : rec.addr = a}
ByKey(k)  == {rec \in clients : Key(rec) = k}

Replace(recs, fresh) == (clients \ recs) \cup fresh

ClientsInit ==
  /\ clients = {} /\ conns = [c \in Conns |-> ClosedConn] /\ owner = NoOwner /\ metadata = NoConn
  /\ prevent \in BOOLEAN
  /\ address = [s \in Senders |-> HomeOf(s)]
  /\ edits = 0 /\ moves = 0 /\ connects = 0 /\ reboots = 0 /\ barred = {}

-----------------------------------------------------------------------------
(* The receiver's callbacks *)

\* mark_connected: the record of that address, or a new one
MarkConnected(a) ==
  IF ByAddr(a) = {} THEN clients \cup {Record(Unnamed, a)}
  ELSE Replace(ByAddr(a), {[rec EXCEPT !.connected = TRUE] : rec \in ByAddr(a)})

\* of the barred, those whose record has not this address, that s uses
UsedBy(s, a) == {n \in barred : n = s \/ \A rec \in ByAddr(a) : rec.name # n}

Connect(c, s) ==
  LET a == address[s] IN
  /\ ~Open(c) /\ (\A d \in Conns : d < c => Open(d)) /\ connects < MaxConnects /\ connects' = connects + 1
  /\ conns' = [conns EXCEPT ![c] = [stage |-> "open", addr |-> a, sender |-> s, named |-> FALSE]]
  /\ clients' = MarkConnected(a)
  /\ barred' = UsedBy(s, a)
  /\ UNCHANGED <<owner, metadata, prevent, address, edits, moves, reboots>>

\* Faulty: the new record takes the name, and the old one goes
MergedIntoNew(cur, named) == [cur EXCEPT !.name = named.name]

Merged(cur, named) == [named EXCEPT !.addr = cur.addr, !.connected = TRUE]

\* set_name: the connected record of this address becomes the one of that name
SetName(a, n) ==
  LET live == {rec \in ByAddr(a) : rec.connected} IN
  IF live = {} THEN clients
  ELSE LET cur == CHOOSE rec \in live : TRUE
           others == ByName(n) \ {cur} IN
       IF others = {} THEN (clients \ {cur}) \cup {[cur EXCEPT !.name = n]}
       ELSE LET named == CHOOSE rec \in others : TRUE IN
            (clients \ {cur, named}) \cup {Merged(cur, named)}

\* a sender sets the session up, with or without its name
SetUp(c, named) ==
  /\ conns[c].stage = "open"
  /\ conns' = [conns EXCEPT ![c].stage = "set up", ![c].named = named]
  /\ clients' = IF named THEN SetName(conns[c].addr, conns[c].sender) ELSE clients
  /\ barred' = UsedBy(conns[c].sender, conns[c].addr)
  /\ UNCHANGED <<owner, metadata, prevent, address, clientBounds>>

Matching(a, n) == ByAddr(a) \cup (IF n = Unnamed THEN {} ELSE ByName(n))
IsBanned(a, n) == \E rec \in Matching(a, n) : rec.banned
PriorityOf(a, n) == IF Matching(a, n) = {} THEN {0} ELSE {rec.priority : rec \in Matching(a, n)}

NameOf(c) == IF conns[c].named THEN conns[c].sender ELSE Unnamed
OwnerName == IF \E c \in Conns : Open(c) /\ conns[c].addr = owner
             THEN NameOf(CHOOSE c \in Conns : Open(c) /\ conns[c].addr = owner) ELSE Unnamed

\* authorize_session, and what the server does with the answer
Authorize(c) ==
  LET a == conns[c].addr IN
  /\ conns[c].stage = "set up"
  /\ \E mine \in PriorityOf(a, NameOf(c)), theirs \in PriorityOf(owner, OwnerName) :
       LET allowed == /\ ~IsBanned(a, NameOf(c))
                      /\ owner \in {NoOwner, a} \/ mine > theirs \/ ~prevent
       IN /\ conns' = [conns EXCEPT ![c].stage = IF allowed THEN "session" ELSE "refused"]
          /\ owner' = IF allowed THEN a ELSE owner
  /\ UNCHANGED <<clients, metadata, prevent, address, clientBounds, barred>>

\* on_metadata, on_progress, on_coverart
Metadata(c) ==
  /\ conns[c].stage = "session" /\ metadata # c /\ metadata' = c
  /\ UNCHANGED <<clients, conns, owner, prevent, address, clientBounds, barred>>

\* on_client_disconnected: every record of the address, and whatever is published
MarkDisconnected(a) ==
  Replace({rec \in ByAddr(a) : rec.connected}, {[rec EXCEPT !.connected = FALSE] : rec \in ByAddr(a)})

Close(c) ==
  /\ Open(c)
  /\ conns' = [conns EXCEPT ![c] = ClosedConn]
  /\ owner' = IF owner = conns[c].addr THEN NoOwner ELSE owner
  /\ clients' = MarkDisconnected(conns[c].addr)
  /\ metadata' = NoConn
  /\ UNCHANGED <<prevent, address, clientBounds, barred>>

\* the receiver, or the daemon, is started again: all flags are cleared
ResetConnected == {[rec EXCEPT !.connected = FALSE] : rec \in clients}

Reboot ==
  /\ reboots < MaxReboots /\ reboots' = reboots + 1
  /\ conns' = [c \in Conns |-> ClosedConn] /\ owner' = NoOwner /\ metadata' = NoConn
  /\ clients' = ResetConnected
  /\ UNCHANGED <<prevent, address, edits, moves, connects, barred>>

-----------------------------------------------------------------------------
(* The requests, the world *)

Asks == edits < MaxEdits /\ edits' = edits + 1

SetBanned(k, banned) ==
  /\ Asks /\ ByKey(k) # {}
  /\ clients' = Replace(ByKey(k), {[rec EXCEPT !.banned = banned] : rec \in ByKey(k)})
  /\ barred' = IF banned THEN barred \cup ({k} \cap Senders) ELSE barred \ {k}
  /\ UNCHANGED <<conns, owner, metadata, prevent, address, moves, connects, reboots>>

SetPriority(k, p) ==
  /\ Asks /\ ByKey(k) # {}
  /\ clients' = Replace(ByKey(k), {[rec EXCEPT !.priority = p] : rec \in ByKey(k)})
  /\ UNCHANGED <<conns, owner, metadata, prevent, address, moves, connects, reboots, barred>>

\* a sender that is connected is not forgotten
Forget(k) ==
  /\ Asks /\ \E rec \in ByKey(k) : ~rec.connected
  /\ clients' = clients \ {rec \in ByKey(k) : ~rec.connected}
  /\ barred' = barred \ {k}
  /\ UNCHANGED <<conns, owner, metadata, prevent, address, moves, connects, reboots>>

SetPolicy ==
  /\ Asks /\ prevent' = ~prevent
  /\ UNCHANGED <<clients, conns, owner, metadata, address, moves, connects, reboots, barred>>

\* disconnect_client: a connection of the address the record has is told to close
Disconnect(k) ==
  /\ Asks
  /\ \E rec \in ByKey(k) : rec.connected /\ \E c \in Conns :
       /\ Open(c) /\ conns[c].addr = rec.addr
       /\ conns' = [conns EXCEPT ![c].stage = "refused"]
  /\ UNCHANGED <<clients, owner, metadata, prevent, address, moves, connects, reboots, barred>>

Move(s, a) ==
  /\ moves < MaxMoves /\ moves' = moves + 1 /\ \A t \in Senders : address[t] # a
  /\ address' = [address EXCEPT ![s] = a]
  /\ UNCHANGED <<clients, conns, owner, metadata, prevent, edits, connects, reboots, barred>>

ClientsNext ==
  \/ \E c \in Conns :
       \/ \E s \in Senders : Connect(c, s)
       \/ \E named \in BOOLEAN : SetUp(c, named)
       \/ Authorize(c) \/ Metadata(c) \/ Close(c)
  \/ Reboot
  \/ \E k \in Senders \cup Addrs :
       \/ \E b \in BOOLEAN : SetBanned(k, b)
       \/ \E p \in Priorities : SetPriority(k, p)
       \/ Forget(k) \/ Disconnect(k)
  \/ SetPolicy
  \/ \E s \in Senders, a \in Addrs : Move(s, a)

ClientsSpec == ClientsInit /\ [][ClientsNext]_clientVars

-----------------------------------------------------------------------------

\* A sender banned by its name gets no session when it tells its name, from
\* whatever address it comes, through merges with the records of its addresses
\* and restarts, as long as no other sender has used an address of its record.
BannedGetsNone ==
  \A c \in Conns :
    conns[c].stage = "set up" /\ conns'[c].stage = "session" /\ conns[c].named
      => conns[c].sender \notin barred
BannedStayOut == [][BannedGetsNone]_clientVars

=============================================================================
