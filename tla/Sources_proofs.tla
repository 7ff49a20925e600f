--------------------------- MODULE Sources_proofs ---------------------------
(***************************************************************************)
(* Proofs about the audio sources: what runs of those stored, the AirPlay  *)
(* senders and their bans, and the Spotify device.                         *)
(***************************************************************************)
EXTENDS SourceStack, AirplayClients, SpotifyDevice, FiniteSetTheorems,
        SequenceTheorems, TLAPS

-----------------------------------------------------------------------------
(* What runs is what is stored *)
(***************************************************************************)
(* Once a handler that was alone is done, what runs is what is stored.     *)
(*                                                                         *)
(* As long as no other handler crossed it, a handler is the only one, it   *)
(* works from the entries that are stored still, and what it has brought   *)
(* in line stays so: the modules, by the unloads and loads that are left   *)
(* to do; then the receivers; then the devices.                            *)
(***************************************************************************)

-----------------------------------------------------------------------------
(* The invariant *)

EntryOK(e) == e = Entry(e.kind, e.label, e.setting, e.prevent) /\ (e.kind # "airplay" => e.prevent = FALSE)
EntriesOK(entries) == DOMAIN entries \subseteq Ids /\ \A i \in DOMAIN entries : EntryOK(entries[i])

IsRun(h) == h = [label |-> h.label, setting |-> h.setting, prevent |-> h.prevent]
IsFunction(f) == f = [x \in DOMAIN f |-> f[x]]

Ops == {"unload", "load"} \X Ids

RequestOK(q) ==
  \/ q = NoRequest \/ q = [at |-> "list"]
  \/ /\ q = [at |-> "policy", id |-> q.id, entry |-> q.entry]
     /\ EntryOK(q.entry) /\ q.entry.kind = "airplay"
  \/ q = [at |-> "tell", id |-> q.id, prevent |-> q.prevent]
  \/ /\ q = [at |-> "modules", entries |-> q.entries, todo |-> q.todo]
     /\ EntriesOK(q.entries) /\ q.todo \in Seq(Ops)
  \/ \E at \in {"lookup", "receivers", "devices"} :
       q = [at |-> at, entries |-> q.entries] /\ EntriesOK(q.entries)

StackTypeOK ==
  /\ EntriesOK(stored) /\ EntriesOK(disk)
  /\ \A i \in DOMAIN receivers : IsRun(receivers[i])
  /\ \A i \in DOMAIN devices : IsRun(devices[i]) /\ devices[i].prevent = FALSE
  /\ IsFunction(modules) /\ DOMAIN modules \subseteq Ids
  /\ shown \in [Ids -> {"no", "yes", "old"}]
  /\ DOMAIN request = Requests /\ \A r \in Requests : RequestOK(request[r])
  /\ crossed \in BOOLEAN

ModulesRun == modules = [i \in OfKind(stored, "rtp") |-> stored[i].setting]
DevicesRun == devices = [i \in Desired(stored, "spotify") |-> Runs(stored[i])]
ReceiversRun ==
  /\ \A i \in DOMAIN receivers : i \in Desired(stored, "airplay") /\ receivers[i] = Runs(stored[i])
  /\ \A i \in Desired(stored, "airplay") \ DOMAIN receivers :
       \E k \in DOMAIN receivers : receivers[k].setting = stored[i].setting

\* What is left to do loads every module, each after an unload of its own, and
\* unloads what no entry has; a module that nothing is left to do for is loaded.
Leads(todo) ==
  LET wanted == OfKind(stored, "rtp")
  IN  /\ \A n \in 1..Len(todo) : todo[n][1] = "load" => todo[n][2] \in wanted
      /\ \A n, m \in 1..Len(todo) : n < m /\ todo[n][1] = "load" => todo[m][2] # todo[n][2]
      /\ \A n \in 1..Len(todo) : todo[n][1] = "load" =>
           IF n = 1 THEN todo[n][2] \notin DOMAIN modules ELSE todo[n - 1] = <<"unload", todo[n][2]>>
      /\ \A i \in (DOMAIN modules) \ wanted : \E n \in 1..Len(todo) : todo[n] = <<"unload", i>>
      /\ \A i \in wanted :
           \/ \E n \in 1..Len(todo) : todo[n] = <<"load", i>>
           \/ /\ i \in DOMAIN modules /\ modules[i] = stored[i].setting
              /\ \A n \in 1..Len(todo) : todo[n][2] # i

\* The receivers run what is stored but for what one of them is about to be told.
Untold(id, policy) ==
  /\ \A i \in DOMAIN receivers :
       /\ i \in Desired(stored, "airplay")
       /\ (IF i = id THEN [receivers[i] EXCEPT !.prevent = policy] ELSE receivers[i]) = Runs(stored[i])
  /\ \A i \in Desired(stored, "airplay") \ DOMAIN receivers :
       \E k \in DOMAIN receivers : receivers[k].setting = stored[i].setting

\* How far the handler is that is alone.
Reached(q) ==
  /\ q.at = "policy" => /\ RunsStored /\ q.id \in OfKind(stored, "airplay")
                        /\ q.entry = [stored[q.id] EXCEPT !.prevent = q.entry.prevent]
  /\ q.at = "tell" => ModulesRun /\ DevicesRun /\ Untold(q.id, q.prevent)
  /\ q.at \in {"lookup", "modules", "receivers", "devices"} => q.entries = stored
  /\ q.at = "modules" => Leads(q.todo)
  /\ q.at \in {"receivers", "devices"} => ModulesRun
  /\ q.at = "devices" => ReceiversRun

Alone(r) == request[r] # NoRequest /\ (\A q \in Requests \ {r} : request[q] = NoRequest) /\ Reached(request[r])

AllRuns == Quiet /\ (serving => RunsStored)

StackInv == StackTypeOK /\ (~crossed => AllRuns \/ \E r \in Requests : Alone(r))

-----------------------------------------------------------------------------
(* The modules *)

\* Everything of a set has its place in the order, and a place of its own.
LEMMA InOrderCovers ==
  ASSUME StackConstants, NEW S \in SUBSET Ids
  PROVE  /\ Cardinality(S) \in Nat
         /\ \A n \in 1..Cardinality(S) : InOrder(S)[n] \in S
         /\ \A i \in S : \E n \in 1..Cardinality(S) : InOrder(S)[n] = i
         /\ \A n, m \in 1..Cardinality(S) : InOrder(S)[n] = InOrder(S)[m] => n = m
<1>1. IsFiniteSet(S) /\ S \subseteq Nat
  BY FS_Subset DEF StackConstants
<1>2. PICK size : size = Cardinality(S)
  OBVIOUS
<1>3. size \in Nat
  BY <1>1, <1>2, FS_CardinalityType
<1> DEFINE upTo(i) == {j \in S : j <= i}
           rank == [i \in S |-> Cardinality(upTo(i))]
<1>4. ASSUME NEW i \in S PROVE IsFiniteSet(upTo(i)) /\ Cardinality(upTo(i)) \in 1..size
  <2>1. upTo(i) \in SUBSET S /\ i \in upTo(i)
    BY <1>1
  <2> HIDE DEF upTo
  <2>2. IsFiniteSet(upTo(i)) /\ Cardinality(upTo(i)) <= size
    BY <1>1, <1>2, <2>1, FS_Subset
  <2>3. Cardinality(upTo(i)) \in Nat /\ Cardinality(upTo(i)) # 0
    BY <2>1, <2>2, FS_CardinalityType, FS_EmptySet
  <2>4. QED
    BY <1>3, <2>2, <2>3
<1>5. ASSUME NEW i \in S, NEW k \in S, Cardinality(upTo(i)) = Cardinality(upTo(k)), i < k PROVE FALSE
  <2>0. i \in Nat /\ k \in Nat /\ \A j \in S : j \in Nat
    BY <1>1
  <2>1. upTo(i) \in SUBSET upTo(k) /\ k \in upTo(k) /\ k \notin upTo(i)
    <3>1. \A j \in S : j <= i => j <= k
      BY <1>5, <2>0
    <3>2. ~(k <= i) /\ k <= k
      BY <1>5, <2>0
    <3>3. QED
      BY <3>1, <3>2
  <2>2. IsFiniteSet(upTo(k))
    BY <1>4
  <2> HIDE DEF upTo
  <2>3. upTo(k) = upTo(i)
    BY <1>5, <2>1, <2>2, FS_Subset
  <2>4. QED
    BY <2>1, <2>3
<1>6. rank \in Injection(S, 1..size)
  <2>1. rank \in [S -> 1..size]
    BY <1>4
  <2>2. ASSUME NEW i \in S, NEW k \in S, rank[i] = rank[k] PROVE i = k
    <3>1. Cardinality(upTo(i)) = Cardinality(upTo(k))
      BY <2>2
    <3>2. i = k \/ i < k \/ k < i
      BY <1>1
    <3>3. QED
      BY <1>5, <3>1, <3>2
  <2> HIDE DEF rank
  <2>3. QED
    BY <2>1, <2>2 DEF Injection, IsInjective
<1>7. rank \in Surjection(S, 1..size)
  <2>1. IsFiniteSet(1..size) /\ Cardinality(1..size) = size
    BY <1>3, FS_Interval
  <2> HIDE DEF rank
  <2>2. QED
    BY <1>2, <1>6, <2>1, FS_Injection
<1>8. \A n \in 1..size : InOrder(S)[n] = CHOOSE i \in S : Cardinality({j \in S : j <= i}) = n
  BY <1>2 DEF InOrder
<1>9. /\ \A i \in S : rank[i] = Cardinality({j \in S : j <= i}) /\ rank[i] \in 1..size
      /\ \A i, k \in S : rank[i] = rank[k] => i = k
      /\ \A n \in 1..size : \E i \in S : rank[i] = n
  <2>1. \A i \in S : rank[i] = Cardinality({j \in S : j <= i}) /\ rank[i] \in 1..size
    BY <1>4
  <2> HIDE DEF rank
  <2>2. QED
    BY <1>6, <1>7, <2>1 DEF Injection, IsInjective, Surjection
<1> HIDE DEF rank, upTo
<1>10. ASSUME NEW n \in 1..size PROVE InOrder(S)[n] \in S /\ rank[InOrder(S)[n]] = n
  <2>1. \E i \in S : Cardinality({j \in S : j <= i}) = n
    BY <1>9
  <2>2. InOrder(S)[n] \in S /\ Cardinality({j \in S : j <= InOrder(S)[n]}) = n
    BY <1>8, <2>1
  <2>3. QED
    BY <1>9, <2>2
<1>11. ASSUME NEW i \in S PROVE \E n \in 1..size : InOrder(S)[n] = i
  <2>1. rank[i] \in 1..size /\ InOrder(S)[rank[i]] \in S /\ rank[InOrder(S)[rank[i]]] = rank[i]
    BY <1>9, <1>10
  <2>2. QED
    BY <1>9, <2>1
<1>12. QED
  BY <1>2, <1>3, <1>10, <1>11

\* With nothing left to do the modules are those stored.
LEMMA NothingLeft ==
  ASSUME IsFunction(modules), Leads(<<>>)
  PROVE  ModulesRun
<1>1. Len(<<>>) = 0
  OBVIOUS
<1>2. DOMAIN modules = OfKind(stored, "rtp") /\ \A i \in OfKind(stored, "rtp") : modules[i] = stored[i].setting
  BY <1>1 DEF Leads
<1>3. QED
  BY <1>2 DEF IsFunction, ModulesRun

LEMMA UnloadLeads ==
  ASSUME NEW todo \in Seq(Ops), todo # <<>>, Leads(todo), todo[1][1] = "unload",
         modules' = Without(modules, todo[1][2]), stored' = stored
  PROVE  Leads(Tail(todo))'
<1> DEFINE wanted == OfKind(stored, "rtp")
           i == todo[1][2]
<1>1. PICK t \in Seq(Ops) : t = Tail(todo)
  BY HeadTailProperties
<1>2. Len(t) = Len(todo) - 1 /\ Len(todo) \in Nat /\ \A n \in 1..Len(t) : n + 1 \in 1..Len(todo) /\ t[n] = todo[n + 1]
  BY <1>1
<1>3. \A m \in 1..Len(todo) : m = 1 \/ (m - 1 \in 1..Len(t) /\ t[m - 1] = todo[m])
  BY <1>1, <1>2
<1>4. /\ \A n \in 1..Len(todo) : todo[n][1] = "load" => todo[n][2] \in wanted
      /\ \A n, m \in 1..Len(todo) : n < m /\ todo[n][1] = "load" => todo[m][2] # todo[n][2]
      /\ \A n \in 1..Len(todo) : todo[n][1] = "load" =>
           IF n = 1 THEN todo[n][2] \notin DOMAIN modules ELSE todo[n - 1] = <<"unload", todo[n][2]>>
      /\ \A k \in (DOMAIN modules) \ wanted : \E n \in 1..Len(todo) : todo[n] = <<"unload", k>>
      /\ \A k \in wanted :
           \/ \E n \in 1..Len(todo) : todo[n] = <<"load", k>>
           \/ /\ k \in DOMAIN modules /\ modules[k] = stored[k].setting
              /\ \A n \in 1..Len(todo) : todo[n][2] # k
  BY DEF Leads
<1>5. DOMAIN modules' = DOMAIN modules \ {i} /\ \A k \in DOMAIN modules \ {i} : modules'[k] = modules[k]
  BY DEF Without
<1>6. 1 \in 1..Len(todo) /\ todo[1] = <<"unload", i>>
  <2>1. todo[1] \in Ops
    OBVIOUS
  <2>2. todo[1] = <<todo[1][1], todo[1][2]>>
    BY <2>1 DEF Ops
  <2>3. QED
    BY <2>2
<1> HIDE DEF i
<1>7. \A n \in 1..Len(t) : t[n][1] = "load" => t[n][2] \in wanted
  BY <1>2, <1>4
<1>8. \A n, m \in 1..Len(t) : n < m /\ t[n][1] = "load" => t[m][2] # t[n][2]
  <2> SUFFICES ASSUME NEW n \in 1..Len(t), NEW m \in 1..Len(t), n < m, t[n][1] = "load" PROVE t[m][2] # t[n][2]
    OBVIOUS
  <2>1. /\ n + 1 < m + 1 /\ n + 1 \in 1..Len(todo) /\ m + 1 \in 1..Len(todo)
        /\ t[n] = todo[n + 1] /\ t[m] = todo[m + 1]
    BY <1>2
  <2>2. QED
    BY <1>4, <2>1
<1>9. ASSUME NEW n \in 1..Len(t), t[n][1] = "load"
      PROVE  IF n = 1 THEN t[n][2] \notin DOMAIN modules' ELSE t[n - 1] = <<"unload", t[n][2]>>
  <2>1. n + 1 \in 1..Len(todo) /\ n + 1 # 1 /\ (n + 1) - 1 = n /\ todo[n + 1] = t[n]
    BY <1>2
  <2>2. todo[n] = <<"unload", t[n][2]>>
    BY <1>4, <1>9, <2>1
  <2>3. CASE n = 1
    BY <1>5, <1>6, <2>2, <2>3
  <2>4. CASE n # 1
    <3>1. n - 1 \in 1..Len(t) /\ (n - 1) + 1 = n
      BY <1>2, <2>4
    <3>2. QED
      BY <1>2, <2>2, <2>4, <3>1
  <2>5. QED
    BY <2>3, <2>4
<1>10. ASSUME NEW k \in (DOMAIN modules') \ wanted PROVE \E n \in 1..Len(t) : t[n] = <<"unload", k>>
  <2>1. k \in (DOMAIN modules) \ wanted /\ k # i
    BY <1>5
  <2>2. PICK n \in 1..Len(todo) : todo[n] = <<"unload", k>>
    BY <1>4, <2>1
  <2>3. n # 1
    BY <1>6, <2>1, <2>2
  <2>4. QED
    BY <1>3, <2>2, <2>3
<1>11. ASSUME NEW k \in wanted
       PROVE  \/ \E n \in 1..Len(t) : t[n] = <<"load", k>>
              \/ /\ k \in DOMAIN modules' /\ modules'[k] = stored[k].setting
                 /\ \A n \in 1..Len(t) : t[n][2] # k
  <2>1. CASE \E n \in 1..Len(todo) : todo[n] = <<"load", k>>
    <3>1. PICK n \in 1..Len(todo) : todo[n] = <<"load", k>>
      BY <2>1
    <3>2. n # 1
      BY <1>6, <3>1
    <3>3. QED
      BY <1>3, <3>1, <3>2
  <2>2. CASE ~\E n \in 1..Len(todo) : todo[n] = <<"load", k>>
    <3>1. k \in DOMAIN modules /\ modules[k] = stored[k].setting /\ \A n \in 1..Len(todo) : todo[n][2] # k
      BY <1>4, <2>2
    <3>2. k # i
      BY <1>6, <3>1 DEF i
    <3>3. QED
      BY <1>2, <1>5, <3>1, <3>2
  <2>3. QED
    BY <2>1, <2>2
<1>12. Leads(t)'
  BY <1>7, <1>8, <1>9, <1>10, <1>11 DEF Leads
<1>13. QED
  BY <1>1, <1>12

LEMMA LoadLeads ==
  ASSUME NEW todo \in Seq(Ops), todo # <<>>, Leads(todo), todo[1][1] = "load",
         modules' = With(modules, todo[1][2], stored[todo[1][2]].setting), stored' = stored
  PROVE  Leads(Tail(todo))'
<1> DEFINE wanted == OfKind(stored, "rtp")
           i == todo[1][2]
<1>1. PICK t \in Seq(Ops) : t = Tail(todo)
  BY HeadTailProperties
<1>2. Len(t) = Len(todo) - 1 /\ Len(todo) \in Nat /\ \A n \in 1..Len(t) : n + 1 \in 1..Len(todo) /\ t[n] = todo[n + 1]
  BY <1>1
<1>3. \A m \in 1..Len(todo) : m = 1 \/ (m - 1 \in 1..Len(t) /\ t[m - 1] = todo[m])
  BY <1>1, <1>2
<1>4. /\ \A n \in 1..Len(todo) : todo[n][1] = "load" => todo[n][2] \in wanted
      /\ \A n, m \in 1..Len(todo) : n < m /\ todo[n][1] = "load" => todo[m][2] # todo[n][2]
      /\ \A n \in 1..Len(todo) : todo[n][1] = "load" =>
           IF n = 1 THEN todo[n][2] \notin DOMAIN modules ELSE todo[n - 1] = <<"unload", todo[n][2]>>
      /\ \A k \in (DOMAIN modules) \ wanted : \E n \in 1..Len(todo) : todo[n] = <<"unload", k>>
      /\ \A k \in wanted :
           \/ \E n \in 1..Len(todo) : todo[n] = <<"load", k>>
           \/ /\ k \in DOMAIN modules /\ modules[k] = stored[k].setting
              /\ \A n \in 1..Len(todo) : todo[n][2] # k
  BY DEF Leads
<1>5. /\ DOMAIN modules' = DOMAIN modules \cup {i} /\ modules'[i] = stored[i].setting
      /\ \A k \in DOMAIN modules \ {i} : modules'[k] = modules[k]
  BY DEF With
<1>6. 1 \in 1..Len(todo) /\ todo[1] = <<"load", i>>
  <2>1. todo[1] \in Ops
    OBVIOUS
  <2>2. todo[1] = <<todo[1][1], todo[1][2]>>
    BY <2>1 DEF Ops
  <2>3. QED
    BY <2>2
<1> HIDE DEF i
<1>7. i \in wanted /\ \A n \in 1..Len(t) : t[n][2] # i
  <2>1. i \in wanted
    BY <1>4, <1>6
  <2>2. ASSUME NEW n \in 1..Len(t) PROVE t[n][2] # i
    <3>1. 1 < n + 1 /\ n + 1 \in 1..Len(todo) /\ t[n] = todo[n + 1]
      BY <1>2
    <3>2. QED
      BY <1>4, <1>6, <3>1 DEF i
  <2>3. QED
    BY <2>1, <2>2
<1>8. \A n \in 1..Len(t) : t[n][1] = "load" => t[n][2] \in wanted
  BY <1>2, <1>4
<1>9. \A n, m \in 1..Len(t) : n < m /\ t[n][1] = "load" => t[m][2] # t[n][2]
  <2> SUFFICES ASSUME NEW n \in 1..Len(t), NEW m \in 1..Len(t), n < m, t[n][1] = "load" PROVE t[m][2] # t[n][2]
    OBVIOUS
  <2>1. /\ n + 1 < m + 1 /\ n + 1 \in 1..Len(todo) /\ m + 1 \in 1..Len(todo)
        /\ t[n] = todo[n + 1] /\ t[m] = todo[m + 1]
    BY <1>2
  <2>2. QED
    BY <1>4, <2>1
<1>10. ASSUME NEW n \in 1..Len(t), t[n][1] = "load"
       PROVE  IF n = 1 THEN t[n][2] \notin DOMAIN modules' ELSE t[n - 1] = <<"unload", t[n][2]>>
  <2>1. n + 1 \in 1..Len(todo) /\ n + 1 # 1 /\ (n + 1) - 1 = n /\ todo[n + 1] = t[n]
    BY <1>2
  <2>2. todo[n] = <<"unload", t[n][2]>>
    BY <1>4, <1>10, <2>1
  <2>3. n # 1
    BY <1>6, <2>2
  <2>4. n - 1 \in 1..Len(t) /\ (n - 1) + 1 = n
    BY <1>2, <2>3
  <2>5. QED
    BY <1>2, <2>2, <2>3, <2>4
<1>11. ASSUME NEW k \in (DOMAIN modules') \ wanted PROVE \E n \in 1..Len(t) : t[n] = <<"unload", k>>
  <2>1. k \in (DOMAIN modules) \ wanted
    BY <1>5, <1>7
  <2>2. PICK n \in 1..Len(todo) : todo[n] = <<"unload", k>>
    BY <1>4, <2>1
  <2>3. n # 1
    BY <1>6, <2>2
  <2>4. QED
    BY <1>3, <2>2, <2>3
<1>12. ASSUME NEW k \in wanted
       PROVE  \/ \E n \in 1..Len(t) : t[n] = <<"load", k>>
              \/ /\ k \in DOMAIN modules' /\ modules'[k] = stored[k].setting
                 /\ \A n \in 1..Len(t) : t[n][2] # k
  <2>1. CASE k = i
    BY <1>5, <1>7, <2>1
  <2>2. CASE k # i /\ \E n \in 1..Len(todo) : todo[n] = <<"load", k>>
    <3>1. PICK n \in 1..Len(todo) : todo[n] = <<"load", k>>
      BY <2>2
    <3>2. n # 1
      BY <1>6, <2>2, <3>1
    <3>3. QED
      BY <1>3, <3>1, <3>2
  <2>3. CASE k # i /\ ~\E n \in 1..Len(todo) : todo[n] = <<"load", k>>
    <3>1. k \in DOMAIN modules /\ modules[k] = stored[k].setting /\ \A n \in 1..Len(todo) : todo[n][2] # k
      BY <1>4, <2>3
    <3>2. QED
      BY <1>2, <1>5, <2>3, <3>1
  <2>4. QED
    BY <2>1, <2>2, <2>3
<1>13. Leads(t)'
  BY <1>8, <1>9, <1>10, <1>11, <1>12 DEF Leads
<1>14. QED
  BY <1>1, <1>13

\* Two operations for each.
LEMMA HalfOf ==
  ASSUME NEW d \in Nat, NEW m \in 1..2 * d
  PROVE  (m + 1) \div 2 \in 1..d /\ (m = 2 * ((m + 1) \div 2) - 1 \/ m = 2 * ((m + 1) \div 2))
OBVIOUS

LEMMA SequenceOf ==
  ASSUME NEW S, NEW c \in Nat, NEW f \in [1..c -> S]
  PROVE  f \in Seq(S) /\ Len(f) = c
OBVIOUS

LEMMA ConcatPlaces ==
  ASSUME NEW S, NEW f \in Seq(S), NEW g \in Seq(S), NEW c \in Nat, NEW e \in Nat, Len(f) = c, Len(g) = e, NEW t, t = f \o g
  PROVE  /\ t \in Seq(S) /\ Len(t) = c + e
         /\ \A n \in 1..c : t[n] = f[n]
         /\ \A n \in 1..e : t[c + n] = g[n]
<1>1. /\ t \in Seq(S) /\ Len(t) = c + e
      /\ \A n \in 1..c + e : t[n] = IF n <= c THEN f[n] ELSE g[n - c]
  BY ConcatProperties
<1>2. ASSUME NEW n \in 1..c PROVE t[n] = f[n]
  <2>1. n \in 1..c + e /\ n <= c
    OBVIOUS
  <2>2. QED
    BY <1>1, <2>1
<1>3. ASSUME NEW n \in 1..e PROVE t[c + n] = g[n]
  <2>1. c + n \in 1..c + e /\ ~(c + n <= c) /\ (c + n) - c = n
    OBVIOUS
  <2>2. QED
    BY <1>1, <2>1
<1>4. QED
  BY <1>1, <1>2, <1>3

\* Unloads of what o lists, and then an unload and a load of each that w lists.
Listed(t, c, d, o, w) ==
  /\ Len(t) = c + 2 * d
  /\ \A n \in 1..c : t[n] = <<"unload", o[n]>>
  /\ \A n \in 1..2 * d : t[c + n] = <<IF n % 2 = 1 THEN "unload" ELSE "load", w[(n + 1) \div 2]>>

\* What is listed so leads to the modules that are stored.
LEMMA ListedLeads ==
  ASSUME NEW t, NEW c \in Nat, NEW d \in Nat, NEW o, NEW w, NEW wanted, wanted = OfKind(stored, "rtp"),
         Listed(t, c, d, o, w), \A n \in 1..d : w[n] \in wanted, \A i \in wanted : \E n \in 1..d : w[n] = i,
         \A n, m \in 1..d : w[n] = w[m] => n = m,
         \A i \in (DOMAIN modules) \ wanted : \E n \in 1..c : o[n] = i
  PROVE  Leads(t)
<1>0. /\ \A n \in 1..c : n \in 1..Len(t) /\ t[n] = <<"unload", o[n]>>
      /\ \A k \in 1..d : /\ c + 2 * k - 1 \in 1..Len(t) /\ t[c + 2 * k - 1] = <<"unload", w[k]>>
                         /\ c + 2 * k \in 1..Len(t) /\ t[c + 2 * k] = <<"load", w[k]>>
      /\ \A n \in 1..Len(t) :
           \/ n <= c /\ t[n][1] = "unload"
           \/ \E k \in 1..d : n = c + 2 * k - 1 /\ t[n][1] = "unload" /\ t[n][2] = w[k]
           \/ \E k \in 1..d : n = c + 2 * k /\ t[n] = <<"load", w[k]>> /\ t[n][2] = w[k]
  <2>1. Len(t) = c + 2 * d
    BY DEF Listed
  <2>2. ASSUME NEW n \in 1..c PROVE n \in 1..Len(t) /\ t[n] = <<"unload", o[n]>>
    BY <2>1 DEF Listed
  <2>3. ASSUME NEW k \in 1..d
        PROVE  /\ c + 2 * k - 1 \in 1..Len(t) /\ t[c + 2 * k - 1] = <<"unload", w[k]>>
               /\ c + 2 * k \in 1..Len(t) /\ t[c + 2 * k] = <<"load", w[k]>>
    <3>1. /\ 2 * k - 1 \in 1..2 * d /\ (2 * k - 1) % 2 = 1 /\ ((2 * k - 1) + 1) \div 2 = k
          /\ c + (2 * k - 1) = c + 2 * k - 1 /\ c + 2 * k - 1 \in 1..Len(t)
      BY <2>1
    <3>2. 2 * k \in 1..2 * d /\ (2 * k) % 2 # 1 /\ (2 * k + 1) \div 2 = k /\ c + 2 * k \in 1..Len(t)
      BY <2>1
    <3>3. t[c + (2 * k - 1)] = <<"unload", w[k]>>
      <4>1. t[c + (2 * k - 1)] = <<IF (2 * k - 1) % 2 = 1 THEN "unload" ELSE "load", w[((2 * k - 1) + 1) \div 2]>>
        BY <3>1 DEF Listed
      <4>2. QED
        BY <3>1, <4>1
    <3>4. t[c + 2 * k] = <<"load", w[k]>>
      <4>1. t[c + 2 * k] = <<IF (2 * k) % 2 = 1 THEN "unload" ELSE "load", w[(2 * k + 1) \div 2]>>
        BY <3>2 DEF Listed
      <4>2. QED
        BY <3>2, <4>1
    <3>5. QED
      BY <3>1, <3>2, <3>3, <3>4
  <2>4. ASSUME NEW n \in 1..Len(t)
        PROVE  \/ n <= c /\ t[n][1] = "unload"
               \/ \E k \in 1..d : n = c + 2 * k - 1 /\ t[n][1] = "unload" /\ t[n][2] = w[k]
               \/ \E k \in 1..d : n = c + 2 * k /\ t[n] = <<"load", w[k]>> /\ t[n][2] = w[k]
    <3>1. CASE n <= c
      <4>1. t[n] = <<"unload", o[n]>>
        BY <2>2, <3>1
      <4>2. QED
        BY <3>1, <4>1
    <3>2. CASE ~(n <= c)
      <4> DEFINE m == n - c
      <4>1. m \in 1..2 * d /\ n = c + m
        BY <2>1, <3>2
      <4> HIDE DEF m
      <4>2. PICK k \in 1..d : m = 2 * k - 1 \/ m = 2 * k
        BY <4>1, HalfOf
      <4>3. CASE m = 2 * k - 1
        <5>1. n = c + 2 * k - 1
          BY <4>1, <4>3
        <5>2. t[n] = <<"unload", w[k]>>
          BY <2>3, <5>1
        <5>3. t[n][1] = "unload" /\ t[n][2] = w[k]
          BY <5>2
        <5>4. QED
          BY <5>1, <5>3
      <4>4. CASE m = 2 * k
        <5>1. n = c + 2 * k
          BY <4>1, <4>4
        <5>2. t[n] = <<"load", w[k]>>
          BY <2>3, <5>1
        <5>3. t[n][2] = w[k]
          BY <5>2
        <5>4. QED
          BY <5>1, <5>2, <5>3
      <4>5. QED
        BY <4>2, <4>3, <4>4
    <3>3. QED
      BY <3>1, <3>2
  <2>5. QED
    BY <2>2, <2>3, <2>4
<1>1. /\ \A n \in 1..c : n \in 1..Len(t) /\ t[n] = <<"unload", o[n]>>
      /\ \A k \in 1..d : /\ c + 2 * k - 1 \in 1..Len(t) /\ t[c + 2 * k - 1] = <<"unload", w[k]>>
                         /\ c + 2 * k \in 1..Len(t) /\ t[c + 2 * k] = <<"load", w[k]>>
  BY <1>0
<1>2. \A n \in 1..Len(t) :
        \/ n <= c /\ t[n][1] = "unload"
        \/ \E k \in 1..d : n = c + 2 * k - 1 /\ t[n][1] = "unload" /\ t[n][2] = w[k]
        \/ \E k \in 1..d : n = c + 2 * k /\ t[n] = <<"load", w[k]>> /\ t[n][2] = w[k]
  BY <1>0
<1>3. ASSUME NEW n \in 1..Len(t), t[n][1] = "load"
      PROVE  \E k \in 1..d : n = c + 2 * k /\ t[n][2] = w[k]
  BY <1>2, <1>3
<1>4. ASSUME NEW n \in 1..Len(t), t[n][1] = "load" PROVE t[n][2] \in wanted
  BY <1>3, <1>4
<1>5. ASSUME NEW n \in 1..Len(t), NEW m \in 1..Len(t), n < m, t[n][1] = "load"
      PROVE  t[m][2] # t[n][2]
  <2>1. PICK k \in 1..d : n = c + 2 * k /\ t[n][2] = w[k]
    BY <1>3, <1>5
  <2>2. PICK j \in 1..d : (m = c + 2 * j - 1 \/ m = c + 2 * j) /\ t[m][2] = w[j]
    <3>1. ~(m <= c)
      BY <1>5, <2>1
    <3>2. \/ \E j \in 1..d : m = c + 2 * j - 1 /\ t[m][2] = w[j]
          \/ \E j \in 1..d : m = c + 2 * j /\ t[m] = <<"load", w[j]>> /\ t[m][2] = w[j]
      BY <1>2, <3>1
    <3>3. QED
      BY <3>2
  <2>3. k # j
    BY <1>5, <2>1, <2>2
  <2>4. w[k] # w[j]
    BY <2>3
  <2>5. QED
    BY <2>1, <2>2, <2>4
<1>6. ASSUME NEW n \in 1..Len(t), t[n][1] = "load"
      PROVE  IF n = 1 THEN t[n][2] \notin DOMAIN modules ELSE t[n - 1] = <<"unload", t[n][2]>>
  <2>1. PICK k \in 1..d : n = c + 2 * k /\ t[n][2] = w[k]
    BY <1>3, <1>6
  <2>2. n # 1 /\ n - 1 = c + 2 * k - 1
    BY <2>1
  <2>3. t[n - 1] = <<"unload", w[k]>>
    BY <1>1, <2>2
  <2>4. QED
    BY <2>1, <2>2, <2>3
<1>7. ASSUME NEW i \in (DOMAIN modules) \ wanted PROVE \E n \in 1..Len(t) : t[n] = <<"unload", i>>
  <2>1. PICK n \in 1..c : o[n] = i
    OBVIOUS
  <2>2. QED
    BY <1>1, <2>1
<1>8. ASSUME NEW i \in wanted PROVE \E n \in 1..Len(t) : t[n] = <<"load", i>>
  <2>1. PICK k \in 1..d : w[k] = i
    OBVIOUS
  <2>2. c + 2 * k \in 1..Len(t) /\ t[c + 2 * k] = <<"load", w[k]>>
    BY <1>1
  <2>3. QED
    BY <2>1, <2>2
<1>9. QED
  BY <1>4, <1>5, <1>6, <1>7, <1>8 DEF Leads

\* What is looked up leads to the modules that are stored: for whatever is loaded
\* that no entry has is shown.
LEMMA LookupLeads ==
  ASSUME StackConstants, NEW orphans \in SUBSET Ids, NEW wanted \in SUBSET Ids, NEW first, NEW rest, NEW todo,
         first = [n \in 1..Cardinality(orphans) |-> <<"unload", InOrder(orphans)[n]>>],
         rest = [n \in 1..2 * Cardinality(wanted) |->
                   <<IF n % 2 = 1 THEN "unload" ELSE "load", InOrder(wanted)[(n + 1) \div 2]>>],
         todo = first \o rest
  PROVE  /\ todo \in Seq(Ops)
         /\ wanted = OfKind(stored, "rtp") /\ (DOMAIN modules) \ wanted \subseteq orphans => Leads(todo)
<1>1. PICK c : c = Cardinality(orphans)
  OBVIOUS
<1>2. PICK d : d = Cardinality(wanted)
  OBVIOUS
<1>3. PICK o : o = InOrder(orphans)
  OBVIOUS
<1>4. PICK w : w = InOrder(wanted)
  OBVIOUS
<1>5. /\ c \in Nat /\ (\A n \in 1..c : o[n] \in orphans)
      /\ \A i \in orphans : \E n \in 1..c : o[n] = i
  BY <1>1, <1>3, InOrderCovers
<1>6. /\ d \in Nat /\ (\A n \in 1..d : w[n] \in wanted)
      /\ (\A i \in wanted : \E n \in 1..d : w[n] = i)
      /\ \A n, m \in 1..d : w[n] = w[m] => n = m
  BY <1>2, <1>4, InOrderCovers
<1>7. first = [n \in 1..c |-> <<"unload", o[n]>>] /\ first \in Seq(Ops) /\ Len(first) = c
  <2>1. first = [n \in 1..c |-> <<"unload", o[n]>>]
    BY <1>1, <1>3
  <2>2. \A n \in 1..c : <<"unload", o[n]>> \in Ops
    BY <1>5 DEF Ops
  <2>3. first \in [1..c -> Ops]
    BY <2>1, <2>2
  <2>4. QED
    BY <1>5, <2>1, <2>3, SequenceOf
<1>8. /\ rest = [n \in 1..2 * d |-> <<IF n % 2 = 1 THEN "unload" ELSE "load", w[(n + 1) \div 2]>>]
      /\ rest \in Seq(Ops) /\ Len(rest) = 2 * d /\ 2 * d \in Nat
  <2>1. rest = [n \in 1..2 * d |-> <<IF n % 2 = 1 THEN "unload" ELSE "load", w[(n + 1) \div 2]>>]
    BY <1>2, <1>4
  <2>2. ASSUME NEW n \in 1..2 * d PROVE <<IF n % 2 = 1 THEN "unload" ELSE "load", w[(n + 1) \div 2]>> \in Ops
    <3>1. (n + 1) \div 2 \in 1..d
      BY <1>6
    <3>2. w[(n + 1) \div 2] \in Ids
      BY <1>6, <3>1
    <3>3. QED
      BY <3>2 DEF Ops
  <2>3. 2 * d \in Nat
    BY <1>6
  <2>4. rest \in [1..2 * d -> Ops]
    BY <2>1, <2>2
  <2>5. QED
    BY <2>1, <2>3, <2>4, SequenceOf
<1>9. /\ todo \in Seq(Ops) /\ Len(todo) = c + 2 * d
      /\ \A n \in 1..c : todo[n] = first[n]
      /\ \A n \in 1..2 * d : todo[c + n] = rest[n]
  <2>1. todo = first \o rest
    OBVIOUS
  <2>2. PICK e \in Nat : e = 2 * d
    BY <1>8
  <2>3. Len(rest) = e /\ c \in Nat
    BY <1>5, <1>8, <2>2
  <2>4. /\ todo \in Seq(Ops) /\ Len(todo) = c + e
        /\ \A n \in 1..c : todo[n] = first[n]
        /\ \A n \in 1..e : todo[c + n] = rest[n]
    BY ONLY e \in Nat, <1>7, <1>8, <2>1, <2>3, ConcatPlaces
  <2>5. QED
    BY <2>2, <2>4
<1>10. Listed(todo, c, d, o, w)
  <2>1. \A n \in 1..c : first[n] = <<"unload", o[n]>>
    BY <1>7
  <2>2. \A n \in 1..2 * d : rest[n] = <<IF n % 2 = 1 THEN "unload" ELSE "load", w[(n + 1) \div 2]>>
    BY <1>8
  <2>3. QED
    BY <1>9, <2>1, <2>2 DEF Listed
<1>11. ASSUME wanted = OfKind(stored, "rtp"), (DOMAIN modules) \ wanted \subseteq orphans PROVE Leads(todo)
  <2>1. \A i \in (DOMAIN modules) \ wanted : \E n \in 1..c : o[n] = i
    BY <1>5, <1>11
  <2>2. \A n \in 1..d : w[n] \in wanted
    BY <1>6
  <2>3. (\A i \in wanted : \E n \in 1..d : w[n] = i) /\ \A n, m \in 1..d : w[n] = w[m] => n = m
    BY <1>6
  <2>4. c \in Nat /\ d \in Nat /\ Listed(todo, c, d, o, w) /\ wanted = OfKind(stored, "rtp")
    BY <1>5, <1>6, <1>10, <1>11
  <2>5. QED
    BY ONLY <2>1, <2>2, <2>3, <2>4, ListedLeads
<1>12. QED
  BY <1>9, <1>11

-----------------------------------------------------------------------------
(* The receivers *)

LEMMA LeastOfSome ==
  ASSUME NEW S \in SUBSET Nat, S # {}
  PROVE  \E x \in S : \A y \in S : x <= y
<1> DEFINE R == {x \in Nat \X Nat : x[1] < x[2]}
<1>1. IsWellFoundedOn(R, Nat)
  BY NatLessThanWellFounded DEF OpToRel
<1> HIDE DEF R
<1>2. PICK x \in S : \A y \in S : <<y, x>> \notin R
  BY <1>1, WFMin
<1>3. \A y \in S : x <= y
  <2> SUFFICES ASSUME NEW y \in S PROVE ~(y < x)
    OBVIOUS
  <2>1. <<y, x>> \in Nat \X Nat /\ <<y, x>>[1] = y /\ <<y, x>>[2] = x
    OBVIOUS
  <2>2. QED
    BY <1>2, <2>1 DEF R
<1>4. QED
  BY <1>3

\* What is not started finds its port taken.
LEMMA StartedCovers ==
  ASSUME StackConstants, NEW kept, NEW entries, NEW ids \in SUBSET Ids, NEW i \in ids,
         i \notin Started(kept, entries, ids), \A k \in DOMAIN kept : kept[k].setting # entries[i].setting
  PROVE  \E j \in Started(kept, entries, ids) : entries[j].setting = entries[i].setting
<1> DEFINE S == {j \in ids : entries[j].setting = entries[i].setting}
<1>1. S \in SUBSET Nat /\ S # {} /\ ids \subseteq Nat
  BY DEF StackConstants
<1>2. PICK j \in S : \A k \in S : j <= k
  <2> HIDE DEF S
  <2>1. QED
    BY <1>1, LeastOfSome
<1>3. ASSUME NEW k \in ids, k < j PROVE entries[k].setting # entries[j].setting
  <2>1. k \notin S
    <3>1. j \in Nat /\ k \in Nat
      BY <1>1
    <3>2. ~(j <= k)
      BY <1>3, <3>1
    <3>3. QED
      BY <1>2, <3>2
  <2>2. QED
    BY <1>2, <2>1
<1>4. j \in Started(kept, entries, ids)
  BY <1>2, <1>3 DEF Started
<1>5. QED
  BY <1>2, <1>4

\* The receivers that are kept, and what they are told; and all that run then.
Keeping(entries) ==
  {i \in DOMAIN receivers \cap Desired(entries, "airplay") : ~NeedsRestart(receivers[i], entries[i])}
Telling(entries) == [i \in Keeping(entries) |-> [receivers[i] EXCEPT !.prevent = entries[i].prevent]]
Running(kept, told, entries, starting) ==
  [i \in kept \cup Started(told, entries, starting) |-> IF i \in kept THEN told[i] ELSE Runs(entries[i])]

\* The receivers that are told, and those that start, run what is stored.
LEMMA ReceiversFollow ==
  ASSUME StackConstants, StackTypeOK, NEW wanted, wanted = Desired(stored, "airplay"),
         NEW kept, kept = Keeping(stored), NEW told, told = Telling(stored),
         receivers' = Running(kept, told, stored, wanted \ kept), stored' = stored
  PROVE  ReceiversRun'
<1>0. /\ kept = {i \in DOMAIN receivers \cap wanted : ~NeedsRestart(receivers[i], stored[i])}
      /\ told = [i \in kept |-> [receivers[i] EXCEPT !.prevent = stored[i].prevent]]
      /\ receivers' = [i \in kept \cup Started(told, stored, wanted \ kept) |->
                         IF i \in kept THEN told[i] ELSE Runs(stored[i])]
  BY DEF Keeping, Telling, Running
<1> DEFINE started == Started(told, stored, wanted \ kept)
<1>1. started \subseteq wanted \ kept /\ wanted \subseteq Ids /\ kept \subseteq wanted
  BY <1>0 DEF Started, Desired, OfKind, StackTypeOK, EntriesOK
<1>2. ASSUME NEW i \in kept PROVE told[i] = Runs(stored[i])
  <2>1. /\ receivers[i] = [label |-> receivers[i].label, setting |-> receivers[i].setting, prevent |-> receivers[i].prevent]
        /\ receivers[i].label = stored[i].label /\ receivers[i].setting = stored[i].setting
    BY <1>0 DEF StackTypeOK, IsRun, NeedsRestart
  <2>2. told[i] = [receivers[i] EXCEPT !.prevent = stored[i].prevent]
    BY <1>0
  <2>3. [receivers[i] EXCEPT !.prevent = stored[i].prevent] = Runs(stored[i])
    BY <2>1 DEF Runs
  <2>4. QED
    BY <2>2, <2>3
<1>3. DOMAIN told = kept
  BY <1>0
<1> HIDE DEF started
<1>4. DOMAIN receivers' = kept \cup started /\ \A i \in DOMAIN receivers' : receivers'[i] = Runs(stored[i])
  BY <1>0, <1>1, <1>2 DEF started
<1>5. ASSUME NEW i \in wanted, i \notin DOMAIN receivers'
      PROVE  \E k \in DOMAIN receivers' : receivers'[k].setting = stored[i].setting
  <2>1. i \in wanted \ kept /\ i \notin started
    BY <1>4, <1>5
  <2>2. CASE \E k \in DOMAIN told : told[k].setting = stored[i].setting
    <3>1. PICK k \in kept : told[k].setting = stored[i].setting
      BY <1>3, <2>2
    <3>2. receivers'[k] = told[k] /\ k \in DOMAIN receivers'
      BY <1>0, <1>2, <1>4
    <3>3. QED
      BY <3>1, <3>2
  <2>3. CASE ~\E k \in DOMAIN told : told[k].setting = stored[i].setting
    <3>1. PICK j \in started : stored[j].setting = stored[i].setting
      <4>1. PICK ids \in SUBSET Ids : ids = wanted \ kept
        BY <1>1
      <4>2. i \in ids /\ i \notin Started(told, stored, ids) /\ \A k \in DOMAIN told : told[k].setting # stored[i].setting
        BY <2>1, <2>3, <4>1 DEF started
      <4>3. \E j \in Started(told, stored, ids) : stored[j].setting = stored[i].setting
        BY ONLY StackConstants, ids \in SUBSET Ids, <4>2, StartedCovers, Zenon
      <4>4. QED
        BY <4>1, <4>3 DEF started
    <3>2. j \in DOMAIN receivers' /\ receivers'[j] = Runs(stored[j])
      BY <1>4
    <3>3. Runs(stored[j]).setting = stored[j].setting
      BY DEF Runs
    <3>4. receivers'[j].setting = stored[i].setting
      BY <3>1, <3>2, <3>3, Zenon
    <3>5. QED
      BY <3>2, <3>4
  <2>4. QED
    BY <2>2, <2>3
<1>6. wanted = Desired(stored', "airplay")
  OBVIOUS
<1>7. \A i \in DOMAIN receivers' : i \in wanted /\ receivers'[i] = Runs(stored'[i])
  BY ONLY <1>1, <1>4, stored' = stored, Zenon
<1>8. \A i \in wanted \ DOMAIN receivers' : \E k \in DOMAIN receivers' : receivers'[k].setting = stored'[i].setting
  BY ONLY <1>5, stored' = stored, Zenon
<1>9. QED
  BY ONLY <1>6, <1>7, <1>8, Zenon DEF ReceiversRun

-----------------------------------------------------------------------------
(* The handlers *)

LEMMA Stages ==
  ASSUME NEW q, RequestOK(q)
  PROVE  /\ q.at = "policy" => /\ q = [at |-> "policy", id |-> q.id, entry |-> q.entry]
                               /\ EntryOK(q.entry) /\ q.entry.kind = "airplay"
         /\ q.at = "tell" => q = [at |-> "tell", id |-> q.id, prevent |-> q.prevent]
         /\ q.at = "modules" => /\ q = [at |-> "modules", entries |-> q.entries, todo |-> q.todo]
                                /\ EntriesOK(q.entries) /\ q.todo \in Seq(Ops)
         /\ q.at \in {"lookup", "receivers", "devices"} =>
              q = [at |-> q.at, entries |-> q.entries] /\ EntriesOK(q.entries)
         /\ q # NoRequest => q.at # "idle"
<1>1. CASE q = NoRequest \/ q = [at |-> "list"]
  BY <1>1 DEF NoRequest
<1>2. CASE /\ q = [at |-> "policy", id |-> q.id, entry |-> q.entry]
           /\ EntryOK(q.entry) /\ q.entry.kind = "airplay"
  <2>1. q.at = "policy"
    BY <1>2
  <2>2. QED
    BY <1>2, <2>1
<1>3. CASE q = [at |-> "tell", id |-> q.id, prevent |-> q.prevent]
  <2>1. q.at = "tell"
    BY <1>3
  <2>2. QED
    BY <1>3, <2>1
<1>4. CASE /\ q = [at |-> "modules", entries |-> q.entries, todo |-> q.todo]
           /\ EntriesOK(q.entries) /\ q.todo \in Seq(Ops)
  <2>1. q.at = "modules"
    BY <1>4
  <2>2. QED
    BY <1>4, <2>1
<1>5. CASE \E at \in {"lookup", "receivers", "devices"} : q = [at |-> at, entries |-> q.entries] /\ EntriesOK(q.entries)
  <2>1. PICK at \in {"lookup", "receivers", "devices"} : q = [at |-> at, entries |-> q.entries] /\ EntriesOK(q.entries)
    BY <1>5
  <2>2. q.at = at
    BY <2>1
  <2>3. QED
    BY <2>1, <2>2
<1>6. QED
  BY <1>1, <1>2, <1>3, <1>4, <1>5 DEF RequestOK

\* A handler that nobody crossed is the only one.
LEMMA OnlyOne ==
  ASSUME StackInv, ~crossed, NEW r \in Requests, request[r] # NoRequest
  PROVE  (\A q \in Requests \ {r} : request[q] = NoRequest) /\ Reached(request[r])
<1>1. ~AllRuns
  BY DEF AllRuns, Quiet
<1>2. PICK a \in Requests : Alone(a)
  BY <1>1 DEF StackInv
<1>3. a = r
  BY <1>2 DEF Alone
<1>4. QED
  BY <1>2, <1>3 DEF Alone

\* What the step of a handler does to the handlers.
LEMMA HandlerSteps ==
  ASSUME StackTypeOK, NEW r \in Requests, NEW q, RequestOK(q), request' = [request EXCEPT ![r] = q]
  PROVE  /\ DOMAIN request' = Requests /\ \A s \in Requests : RequestOK(request'[s])
         /\ request'[r] = q /\ \A s \in Requests \ {r} : request'[s] = request[s]
BY DEF StackTypeOK

LEMMA HandlerGoesOn ==
  ASSUME StackTypeOK, NEW r \in Requests, NEW q, RequestOK(q), request' = [request EXCEPT ![r] = q],
         \A s \in Requests \ {r} : request[s] = NoRequest, q.at # "idle", Reached(q)'
  PROVE  Alone(r)'
<1>1. request'[r] = q /\ \A s \in Requests \ {r} : request'[s] = NoRequest
  BY HandlerSteps
<1>2. q # NoRequest
  BY DEF NoRequest
<1>3. Reached(request[r])'
  BY <1>1 DEF Reached
<1>4. QED
  BY <1>1, <1>2, <1>3 DEF Alone

LEMMA HandlerEnds ==
  ASSUME StackTypeOK, NEW r \in Requests, request' = [request EXCEPT ![r] = NoRequest],
         \A s \in Requests \ {r} : request[s] = NoRequest, RunsStored'
  PROVE  AllRuns'
<1>1. Quiet'
  BY DEF Quiet, StackTypeOK
<1>2. QED
  BY <1>1 DEF AllRuns

-----------------------------------------------------------------------------
(* The steps *)

LEMMA EntryFields ==
  ASSUME NEW e, EntryOK(e), NEW v
  PROVE  /\ EntryOK([e EXCEPT !.setting = v]) /\ [e EXCEPT !.setting = v].kind = e.kind
         /\ EntryOK([e EXCEPT !.label = v]) /\ [e EXCEPT !.label = v].kind = e.kind
         /\ e.kind = "airplay" => EntryOK([e EXCEPT !.prevent = v]) /\ [e EXCEPT !.prevent = v].kind = "airplay"
BY DEF EntryOK, Entry

LEMMA StatedEntries ==
  ASSUME NEW e \in Entries, Stated(e)
  PROVE  EntryOK(e)
BY DEF Entries, Stated, EntryOK, Entry

LEMMA WithEntry ==
  ASSUME NEW entries, EntriesOK(entries), NEW id \in Ids, NEW e, EntryOK(e)
  PROVE  EntriesOK(With(entries, id, e)) /\ EntriesOK(Without(entries, id))
BY DEF EntriesOK, With, Without

\* What a change of the store and the like leaves of the types.
LEMMA ChangeKeeps ==
  ASSUME StackInv, NEW r \in Requests, NEW entries, EntriesOK(entries), NEW next, RequestOK(next),
         Change(r, entries, next), UNCHANGED running
  PROVE  /\ StackTypeOK'
         /\ ~crossed' => /\ ~crossed /\ ~Others(r)
                         /\ request' = [request EXCEPT ![r] = next] /\ stored' = entries
<1>1. StackTypeOK
  BY DEF StackInv
<1>2. /\ receivers' = receivers /\ devices' = devices /\ modules' = modules /\ shown' = shown /\ stored' = entries
  BY DEF running, Change
<1>3. RequestOK(NoRequest)
  BY DEF RequestOK
<1>4. CASE /\ disk' = entries /\ request' = [request EXCEPT ![r] = next] /\ crossed' = (crossed \/ Others(r))
  <2>1. DOMAIN request' = Requests /\ \A s \in Requests : RequestOK(request'[s])
    BY <1>1, <1>4, HandlerSteps
  <2>2. crossed' \in BOOLEAN
    BY <1>4
  <2>3. StackTypeOK'
    BY <1>1, <1>2, <1>4, <2>1, <2>2 DEF StackTypeOK
  <2>4. QED
    BY <1>2, <1>4, <2>3
<1>5. CASE disk' = disk /\ request' = [request EXCEPT ![r] = NoRequest] /\ crossed' = TRUE
  <2>1. DOMAIN request' = Requests /\ \A s \in Requests : RequestOK(request'[s])
    BY <1>1, <1>3, <1>5, HandlerSteps
  <2>2. StackTypeOK'
    BY <1>1, <1>2, <1>5, <2>1 DEF StackTypeOK
  <2>3. QED
    BY <1>5, <2>2
<1>6. QED
  BY <1>4, <1>5 DEF Change

\* A change of the store, in a handler that begins.
LEMMA BeginningChanges ==
  ASSUME StackInv, NEW r \in Requests, request[r] = NoRequest, NEW entries, EntriesOK(entries),
         Change(r, entries, [at |-> "list"]), UNCHANGED running
  PROVE  StackInv'
<1>1. PICK next : next = [at |-> "list"]
  OBVIOUS
<1>2. RequestOK(next) /\ next.at = "list"
  BY <1>1 DEF RequestOK
<1>3. Change(r, entries, next)
  BY <1>1
<1>4. /\ StackTypeOK'
      /\ ~crossed' => ~crossed /\ ~Others(r) /\ request' = [request EXCEPT ![r] = next] /\ stored' = entries
  BY <1>2, <1>3, ChangeKeeps
<1>5. ASSUME ~crossed' PROVE Alone(r)'
  <2>1. Reached(next)'
    BY <1>2 DEF Reached
  <2>2. \A s \in Requests \ {r} : request[s] = NoRequest
    BY <1>4, <1>5 DEF Others
  <2>3. StackTypeOK /\ request' = [request EXCEPT ![r] = next] /\ next.at # "idle"
    BY <1>2, <1>4, <1>5 DEF StackInv
  <2>4. QED
    BY <1>2, <2>1, <2>2, <2>3, HandlerGoesOn
<1>6. QED
  BY <1>4, <1>5 DEF StackInv

LEMMA WithPortOK ==
  ASSUME NEW e, EntryOK(e), NEW id
  PROVE  EntryOK(WithPort(e, id))
<1>1. PICK port : port = FreePort(stored, id, 1)
  OBVIOUS
<1>2. EntryOK([e EXCEPT !.setting = port])
  BY EntryFields
<1>3. QED
  BY <1>1, <1>2 DEF WithPort

LEMMA BeginKeeps ==
  ASSUME StackInv, NEW r \in Requests, NEW id \in Ids,
         \/ \E e \in {x \in Entries : Stated(x)} : Create(r, id, e) \/ Update(r, id, e)
         \/ Delete(r, id)
  PROVE  StackInv'
<1>1. EntriesOK(stored)
  BY DEF StackInv, StackTypeOK
<1>2. CASE \E e \in {x \in Entries : Stated(x)} : Create(r, id, e) \/ Update(r, id, e)
  <2>1. PICK e \in {x \in Entries : Stated(x)} : Create(r, id, e) \/ Update(r, id, e)
    BY <1>2
  <2>2. EntryOK(WithPort(e, id))
    BY <2>1, StatedEntries, WithPortOK
  <2>3. PICK entry : entry = WithPort(e, id)
    OBVIOUS
  <2>4. PICK entries : entries = With(stored, id, entry)
    OBVIOUS
  <2>5. EntriesOK(entries)
    BY <1>1, <2>2, <2>3, <2>4, WithEntry
  <2>6. request[r] = NoRequest /\ Change(r, entries, [at |-> "list"]) /\ UNCHANGED running
    BY <2>1, <2>3, <2>4 DEF Create, Update, Begins
  <2>7. QED
    BY <2>5, <2>6, BeginningChanges
<1>3. CASE Delete(r, id)
  <2>1. PICK entries : entries = Without(stored, id)
    OBVIOUS
  <2>2. EntriesOK(entries)
    BY <1>1, <2>1 DEF EntriesOK, Without
  <2>3. request[r] = NoRequest /\ Change(r, entries, [at |-> "list"]) /\ UNCHANGED running
    BY <1>3, <2>1 DEF Delete, Begins
  <2>4. QED
    BY <2>2, <2>3, BeginningChanges
<1>4. QED
  BY <1>2, <1>3

LEMMA AskPolicyKeeps ==
  ASSUME StackInv, NEW r \in Requests, NEW id \in Ids, NEW policy \in BOOLEAN, AskPolicy(r, id, policy)
  PROVE  StackInv'
<1>1. PICK entry : entry = [stored[id] EXCEPT !.prevent = policy]
  OBVIOUS
<1>2. PICK q : q = [at |-> "policy", id |-> id, entry |-> entry]
  OBVIOUS
<1>3. /\ request[r] = NoRequest /\ serving /\ id \in OfKind(stored, "airplay")
      /\ request' = [request EXCEPT ![r] = q] /\ crossed' = (crossed \/ Others(r))
      /\ stored' = stored /\ disk' = disk /\ serving' = serving
      /\ receivers' = receivers /\ devices' = devices /\ modules' = modules /\ shown' = shown
  BY <1>1, <1>2 DEF AskPolicy, Begins, running
<1>4. q.at = "policy" /\ q.id = id /\ q.entry = entry
  BY <1>2
<1>5. EntryOK(stored[id]) /\ stored[id].kind = "airplay"
  BY <1>3 DEF OfKind, StackInv, StackTypeOK, EntriesOK
<1>6. EntryOK(entry) /\ entry.kind = "airplay" /\ entry = [stored[id] EXCEPT !.prevent = entry.prevent]
  <2>1. EntryOK(entry) /\ entry.kind = "airplay"
    BY <1>1, <1>5, EntryFields
  <2>2. entry.prevent = policy
    BY <1>1, <1>5 DEF EntryOK, Entry
  <2>3. QED
    BY <1>1, <2>1, <2>2
<1>7. RequestOK(q)
  BY <1>2, <1>4, <1>6 DEF RequestOK
<1>8. StackTypeOK
  BY DEF StackInv
<1>9. StackTypeOK'
  <2>1. DOMAIN request' = Requests /\ \A s \in Requests : RequestOK(request'[s])
    BY <1>3, <1>7, <1>8, HandlerSteps
  <2>2. crossed' \in BOOLEAN
    BY <1>3
  <2>3. QED
    BY <1>3, <1>8, <2>1, <2>2 DEF StackTypeOK
<1>10. ASSUME ~crossed' PROVE Alone(r)'
  <2>1. ~crossed /\ Quiet
    BY <1>3, <1>10 DEF Others, Quiet
  <2>2. AllRuns
    BY <2>1 DEF StackInv, Alone, Quiet
  <2>3. RunsStored
    BY <1>3, <2>2 DEF AllRuns
  <2>4. RunsStored'
    BY <1>3, <2>3 DEF RunsStored
  <2>5. Reached(q)'
    BY <1>3, <1>4, <1>6, <2>4 DEF Reached
  <2>6. \A s \in Requests \ {r} : request[s] = NoRequest
    BY <2>1 DEF Quiet
  <2>7. q.at # "idle"
    BY <1>4
  <2>8. QED
    BY <1>3, <1>7, <1>8, <2>5, <2>6, <2>7, HandlerGoesOn
<1>11. QED
  BY <1>9, <1>10 DEF StackInv

LEMMA StorePolicyKeeps ==
  ASSUME StackInv, NEW r \in Requests, StorePolicy(r)
  PROVE  StackInv'
<1>1. PICK q : q = request[r]
  OBVIOUS
<1>2. StackTypeOK /\ RequestOK(q) /\ q.at = "policy" /\ UNCHANGED running /\ serving' = serving
  BY <1>1 DEF StorePolicy, StackInv, StackTypeOK
<1>3. EntryOK(q.entry) /\ q.entry.kind = "airplay"
  BY <1>2, Stages
<1>4. CASE q.id \in OfKind(stored, "airplay")
  <2>1. PICK label : label = stored[q.id].label
    OBVIOUS
  <2>2. PICK entry : entry = [q.entry EXCEPT !.label = label]
    OBVIOUS
  <2>3. PICK entries : entries = [stored EXCEPT ![q.id] = entry]
    OBVIOUS
  <2>4. PICK next : next = [at |-> "tell", id |-> q.id, prevent |-> q.entry.prevent]
    OBVIOUS
  <2>5. Change(r, entries, next)
    BY <1>1, <1>4, <2>1, <2>2, <2>3, <2>4 DEF StorePolicy
  <2>6. EntryOK(entry) /\ entry.kind = "airplay"
    BY <1>3, <2>2, EntryFields
  <2>7. q.id \in DOMAIN stored /\ EntriesOK(stored) /\ stored[q.id].kind = "airplay" /\ EntryOK(stored[q.id])
    BY <1>2, <1>4 DEF OfKind, StackTypeOK, EntriesOK
  <2>8. /\ DOMAIN entries = DOMAIN stored /\ entries[q.id] = entry
        /\ \A i \in DOMAIN stored \ {q.id} : entries[i] = stored[i]
    BY <2>3, <2>7
  <2>9. EntriesOK(entries)
    BY <2>6, <2>7, <2>8 DEF EntriesOK
  <2>10. /\ RequestOK(next) /\ next.at = "tell" /\ next.id = q.id /\ next.prevent = q.entry.prevent
    BY <2>4 DEF RequestOK
  <2>11. /\ StackTypeOK'
         /\ ~crossed' => ~crossed /\ ~Others(r) /\ request' = [request EXCEPT ![r] = next] /\ stored' = entries
    BY <1>2, <2>5, <2>9, <2>10, ChangeKeeps
  <2>12. ASSUME ~crossed' PROVE Alone(r)'
    <3>1. ~crossed /\ request' = [request EXCEPT ![r] = next] /\ stored' = entries
      BY <2>11, <2>12
    <3>2. q # NoRequest
      BY <1>2 DEF NoRequest
    <3>3. (\A s \in Requests \ {r} : request[s] = NoRequest) /\ Reached(q)
      BY <1>1, <3>1, <3>2, OnlyOne
    <3>4. RunsStored /\ q.entry = [stored[q.id] EXCEPT !.prevent = q.entry.prevent]
      BY <1>2, <3>3 DEF Reached
    <3>5. /\ entry.label = stored[q.id].label /\ entry.setting = stored[q.id].setting
          /\ entry.prevent = q.entry.prevent
      BY <1>3, <2>1, <2>2, <2>7, <3>4 DEF EntryOK, Entry
    <3>6. /\ OfKind(entries, "rtp") = OfKind(stored, "rtp") /\ Desired(entries, "spotify") = Desired(stored, "spotify")
          /\ Desired(entries, "airplay") = Desired(stored, "airplay") /\ q.id \notin OfKind(stored, "rtp")
          /\ q.id \notin Desired(stored, "spotify")
      BY <2>6, <2>7, <2>8, <3>5 DEF OfKind, Desired
    <3>7. /\ modules' = modules /\ devices' = devices /\ receivers' = receivers
      BY <1>2 DEF running
    <3>8. ModulesRun'
      BY <2>8, <3>1, <3>4, <3>6, <3>7 DEF ModulesRun, RunsStored, OfKind
    <3>9. DevicesRun'
      BY <2>8, <3>1, <3>4, <3>6, <3>7 DEF DevicesRun, RunsStored, Desired, OfKind
    <3>10. Untold(next.id, next.prevent)'
      <4>1. \A i \in DOMAIN stored : entries[i].setting = stored[i].setting
        BY <2>8, <3>5
      <4>2. \A i \in Desired(stored, "airplay") : i \in DOMAIN stored
        BY DEF Desired, OfKind
      <4>3. ASSUME NEW i \in DOMAIN receivers
            PROVE  (IF i = q.id THEN [receivers[i] EXCEPT !.prevent = q.entry.prevent] ELSE receivers[i]) = Runs(entries[i])
        <5>1. receivers[i] = Runs(stored[i]) /\ i \in DOMAIN stored
          BY <3>4, <4>2 DEF RunsStored
        <5>2. CASE i = q.id
          BY <2>8, <3>5, <5>1, <5>2 DEF Runs
        <5>3. CASE i # q.id
          BY <2>8, <5>1, <5>3
        <5>4. QED
          BY <5>2, <5>3
      <4>4. /\ \A i \in DOMAIN receivers : i \in Desired(stored, "airplay")
            /\ \A i \in Desired(stored, "airplay") \ DOMAIN receivers :
                 \E k \in DOMAIN receivers : receivers[k].setting = entries[i].setting
        BY <3>4, <4>1, <4>2 DEF RunsStored
      <4>5. Untold(q.id, q.entry.prevent)'
        BY <3>1, <3>6, <3>7, <4>3, <4>4 DEF Untold
      <4>6. QED
        BY <2>10, <4>5
    <3>11. Reached(next)'
      BY <2>10, <3>8, <3>9, <3>10 DEF Reached
    <3>12. next.at # "idle"
      BY <2>10
    <3>13. QED
      BY <1>2, <2>10, <3>1, <3>3, <3>11, <3>12, HandlerGoesOn
  <2>13. QED
    BY <2>11, <2>12 DEF StackInv
<1>5. CASE q.id \notin OfKind(stored, "airplay")
  <2>1. /\ request' = [request EXCEPT ![r] = NoRequest] /\ stored' = stored /\ disk' = disk /\ crossed' = crossed
        /\ receivers' = receivers /\ devices' = devices /\ modules' = modules /\ shown' = shown
    BY <1>1, <1>2, <1>5 DEF StorePolicy, running
  <2>2. RequestOK(NoRequest)
    BY DEF RequestOK
  <2>3. DOMAIN request' = Requests /\ \A s \in Requests : RequestOK(request'[s])
    BY <1>2, <2>1, <2>2, HandlerSteps
  <2>4. StackTypeOK'
    BY <1>2, <2>1, <2>3 DEF StackTypeOK
  <2>5. crossed
    <3>1. q # NoRequest
      BY <1>2 DEF NoRequest
    <3>2. ASSUME ~crossed PROVE FALSE
      <4>1. Reached(q)
        BY <1>1, <3>1, <3>2, OnlyOne
      <4>2. QED
        BY <1>2, <1>5, <4>1 DEF Reached
    <3>3. QED
      BY <3>2
  <2>6. QED
    BY <2>1, <2>4, <2>5 DEF StackInv
<1>6. QED
  BY <1>4, <1>5

LEMMA TellPolicyKeeps ==
  ASSUME StackInv, NEW r \in Requests, TellPolicy(r)
  PROVE  StackInv'
<1>1. PICK q : q = request[r]
  OBVIOUS
<1>2. /\ StackTypeOK /\ q.at = "tell" /\ request' = [request EXCEPT ![r] = NoRequest] /\ crossed' = crossed
      /\ receivers' = IF q.id \in DOMAIN receivers THEN [receivers EXCEPT ![q.id].prevent = q.prevent] ELSE receivers
      /\ stored' = stored /\ disk' = disk /\ devices' = devices /\ modules' = modules /\ shown' = shown
  BY <1>1 DEF TellPolicy, StackInv
<1>3. RequestOK(NoRequest)
  BY DEF RequestOK
<1>4. /\ DOMAIN receivers' = DOMAIN receivers
      /\ \A i \in DOMAIN receivers :
           receivers'[i] = IF i = q.id THEN [receivers[i] EXCEPT !.prevent = q.prevent] ELSE receivers[i]
  BY <1>2
<1>5. StackTypeOK'
  <2>1. DOMAIN request' = Requests /\ \A s \in Requests : RequestOK(request'[s])
    BY <1>2, <1>3, HandlerSteps
  <2>2. \A i \in DOMAIN receivers' : IsRun(receivers'[i])
    <3>1. \A i \in DOMAIN receivers : IsRun(receivers[i])
      BY <1>2 DEF StackTypeOK
    <3>2. \A i \in DOMAIN receivers : IsRun([receivers[i] EXCEPT !.prevent = q.prevent])
      BY <3>1 DEF IsRun
    <3>3. QED
      BY <1>4, <3>1, <3>2
  <2>3. QED
    BY <1>2, <2>1, <2>2 DEF StackTypeOK
<1>6. ASSUME ~crossed' PROVE AllRuns'
  <2>1. q # NoRequest /\ ~crossed
    BY <1>2, <1>6 DEF NoRequest
  <2>2. (\A s \in Requests \ {r} : request[s] = NoRequest) /\ Reached(q)
    BY <1>1, <2>1, OnlyOne
  <2>3. ModulesRun /\ DevicesRun /\ Untold(q.id, q.prevent)
    BY <1>2, <2>2 DEF Reached
  <2>4. ModulesRun' /\ DevicesRun'
    BY <1>2, <2>3 DEF ModulesRun, DevicesRun
  <2>5. \A i \in DOMAIN receivers' : i \in Desired(stored, "airplay") /\ receivers'[i] = Runs(stored[i])
    BY <1>4, <2>3 DEF Untold
  <2>6. ASSUME NEW i \in Desired(stored, "airplay") \ DOMAIN receivers'
        PROVE  \E k \in DOMAIN receivers' : receivers'[k].setting = stored[i].setting
    <3>1. PICK k \in DOMAIN receivers : receivers[k].setting = stored[i].setting
      BY <1>4, <2>3 DEF Untold
    <3>2. IsRun(receivers[k])
      BY <1>2 DEF StackTypeOK
    <3>3. receivers'[k].setting = receivers[k].setting
      <4>1. [receivers[k] EXCEPT !.prevent = q.prevent].setting = receivers[k].setting
        BY <3>2 DEF IsRun
      <4>2. QED
        BY <1>4, <4>1
    <3>4. QED
      BY <1>4, <3>1, <3>3
  <2>7. RunsStored'
    BY <1>2, <2>4, <2>5, <2>6 DEF RunsStored, ModulesRun, DevicesRun
  <2>8. QED
    BY <1>2, <2>2, <2>7, HandlerEnds
<1>7. QED
  BY <1>5, <1>6 DEF StackInv

LEMMA ListKeeps ==
  ASSUME StackInv, NEW r \in Requests, List(r)
  PROVE  StackInv'
<1>1. PICK q : q = [at |-> "lookup", entries |-> stored]
  OBVIOUS
<1>2. /\ StackTypeOK /\ request' = [request EXCEPT ![r] = q] /\ crossed' = Others(r)
      /\ stored' = stored /\ disk' = disk
      /\ receivers' = receivers /\ devices' = devices /\ modules' = modules /\ shown' = shown
  BY <1>1 DEF List, StackInv, running
<1>3. q.at = "lookup" /\ q.entries = stored /\ RequestOK(q)
  BY <1>1, <1>2 DEF RequestOK, StackTypeOK
<1>4. StackTypeOK'
  <2>1. DOMAIN request' = Requests /\ \A s \in Requests : RequestOK(request'[s])
    BY <1>2, <1>3, HandlerSteps
  <2>2. crossed' \in BOOLEAN
    BY <1>2 DEF Others
  <2>3. QED
    BY <1>2, <2>1, <2>2 DEF StackTypeOK
<1>5. ASSUME ~crossed' PROVE Alone(r)'
  <2>1. \A s \in Requests \ {r} : request[s] = NoRequest
    BY <1>2, <1>5 DEF Others
  <2>2. Reached(q)'
    BY <1>2, <1>3 DEF Reached
  <2>3. QED
    BY <1>2, <1>3, <2>1, <2>2, HandlerGoesOn
<1>6. QED
  BY <1>4, <1>5 DEF StackInv

LEMMA LookupKeeps ==
  ASSUME StackConstants, StackInv, NEW r \in Requests, Lookup(r)
  PROVE  StackInv'
<1>1. PICK q : q = request[r]
  OBVIOUS
<1>2. PICK wanted : wanted = OfKind(q.entries, "rtp")
  OBVIOUS
<1>3. PICK orphans \in SUBSET Ids : orphans = {i \in Ids \ wanted : shown[i] # "no"}
  OBVIOUS
<1>4. PICK first : first = [n \in 1..Cardinality(orphans) |-> <<"unload", InOrder(orphans)[n]>>]
  OBVIOUS
<1>5. PICK rest : rest = [n \in 1..2 * Cardinality(wanted) |->
                            <<IF n % 2 = 1 THEN "unload" ELSE "load", InOrder(wanted)[(n + 1) \div 2]>>]
  OBVIOUS
<1>6. PICK todo : todo = first \o rest
  OBVIOUS
<1>7. PICK next : next = [at |-> "modules", entries |-> q.entries, todo |-> todo]
  OBVIOUS
<1>8. /\ StackTypeOK /\ RequestOK(q) /\ q.at = "lookup" /\ stored' = stored /\ disk' = disk
      /\ receivers' = receivers /\ devices' = devices /\ modules' = modules /\ shown' = shown
      /\ crossed' = (crossed \/ \E i \in (DOMAIN modules) \ wanted : shown[i] = "no")
  BY <1>1, <1>2 DEF Lookup, StackInv, StackTypeOK, running
<1>9. request' = [request EXCEPT ![r] = next]
  <2>1. r \in DOMAIN request
    BY <1>8 DEF StackTypeOK
  <2>2. QED
    BY <1>1, <1>2, <1>3, <1>4, <1>5, <1>6, <1>7, <2>1 DEF Lookup
<1>10. EntriesOK(q.entries) /\ wanted \in SUBSET Ids
  <2>1. EntriesOK(q.entries)
    BY <1>8, Stages
  <2>2. QED
    BY <1>2, <2>1 DEF EntriesOK, OfKind
<1>11. /\ todo \in Seq(Ops)
       /\ wanted = OfKind(stored, "rtp") /\ (DOMAIN modules) \ wanted \subseteq orphans => Leads(todo)
  BY ONLY StackConstants, orphans \in SUBSET Ids, <1>4, <1>5, <1>6, <1>10, LookupLeads
<1>12. /\ next.at = "modules" /\ next.entries = q.entries /\ next.todo = todo /\ RequestOK(next)
  BY <1>7, <1>10, <1>11 DEF RequestOK
<1>13. StackTypeOK'
  <2>1. DOMAIN request' = Requests /\ \A s \in Requests : RequestOK(request'[s])
    BY <1>8, <1>9, <1>12, HandlerSteps
  <2>2. crossed' \in BOOLEAN
    BY <1>8
  <2>3. QED
    BY <1>8, <2>1, <2>2 DEF StackTypeOK
<1>14. ASSUME ~crossed' PROVE Alone(r)'
  <2>1. q # NoRequest /\ ~crossed
    <3>1. q # NoRequest
      BY <1>8 DEF NoRequest
    <3>2. ~crossed
      BY <1>8, <1>14, Zenon
    <3>3. QED
      BY <3>1, <3>2
  <2>2. (\A s \in Requests \ {r} : request[s] = NoRequest) /\ Reached(q)
    BY <1>1, <2>1, OnlyOne
  <2>3. q.entries = stored
    BY <1>8, <2>2 DEF Reached
  <2>4. (DOMAIN modules) \ wanted \subseteq orphans
    BY <1>3, <1>8, <1>14 DEF StackTypeOK
  <2>5. Leads(todo)
    BY <1>2, <1>11, <2>3, <2>4
  <2>6. Leads(next.todo)'
    <3>1. Leads(todo)'
      BY <1>8, <2>5 DEF Leads
    <3>2. QED
      BY <1>12, <3>1
  <2>7. Reached(next)'
    BY <1>8, <1>12, <2>3, <2>6 DEF Reached
  <2>8. next.at # "idle"
    BY <1>12
  <2>9. QED
    BY <1>8, <1>9, <1>12, <2>2, <2>7, <2>8, HandlerGoesOn
<1>15. QED
  BY <1>13, <1>14 DEF StackInv

\* Where a module operation leaves its handler.
LEMMA AfterGoes ==
  ASSUME StackTypeOK, NEW r \in Requests, request[r].at = "modules", request[r].todo # <<>>, After(r), NEW q, q = request[r]
  PROVE  \E next :
           /\ request' = [request EXCEPT ![r] = next] /\ RequestOK(next) /\ next.at # "idle"
           /\ next.entries = q.entries
           /\ \/ next.at = "modules" /\ next.todo = Tail(q.todo)
              \/ next.at = "receivers" /\ Tail(q.todo) = <<>>
<1>1. /\ q = [at |-> "modules", entries |-> q.entries, todo |-> q.todo]
      /\ EntriesOK(q.entries) /\ q.todo \in Seq(Ops) /\ q.todo # <<>> /\ r \in DOMAIN request
  <2>1. RequestOK(q) /\ q.at = "modules" /\ q.todo # <<>> /\ r \in DOMAIN request
    BY DEF StackTypeOK
  <2>2. QED
    BY <2>1, Stages
<1>2. Tail(q.todo) \in Seq(Ops) /\ Len(q.todo) \in Nat /\ Len(Tail(q.todo)) = Len(q.todo) - 1
  BY <1>1
<1>3. CASE Len(q.todo) > 1
  <2>1. PICK next : next = [q EXCEPT !.todo = Tail(q.todo)]
    OBVIOUS
  <2>2. request' = [request EXCEPT ![r] = next]
    BY <1>1, <1>3, <2>1 DEF After
  <2>3. next.at = "modules" /\ next.entries = q.entries /\ next.todo = Tail(q.todo)
        /\ next = [at |-> "modules", entries |-> q.entries, todo |-> Tail(q.todo)]
    BY <1>1, <2>1
  <2>4. RequestOK(next)
    BY <1>1, <1>2, <2>3 DEF RequestOK
  <2>5. QED
    BY <2>2, <2>3, <2>4
<1>4. CASE ~(Len(q.todo) > 1)
  <2>1. PICK next : next = [at |-> "receivers", entries |-> q.entries]
    OBVIOUS
  <2>2. request' = [request EXCEPT ![r] = next]
    BY <1>1, <1>4, <2>1 DEF After
  <2>3. next.at = "receivers" /\ next.entries = q.entries
    BY <2>1
  <2>4. RequestOK(next)
    BY <1>1, <2>1, <2>3 DEF RequestOK
  <2>5. Tail(q.todo) = <<>>
    BY <1>1, <1>2, <1>4
  <2>6. QED
    BY <2>2, <2>3, <2>4, <2>5
<1>5. QED
  BY <1>3, <1>4

\* A module operation that is alone keeps the handler on its way.
LEMMA OperationKeeps ==
  ASSUME StackTypeOK, NEW r \in Requests, request[r].at = "modules", request[r].todo # <<>>, After(r),
         IsFunction(modules'), \A s \in Requests \ {r} : request[s] = NoRequest, request[r].entries = stored,
         NEW tail, tail = Tail(request[r].todo), Leads(tail)', stored' = stored
  PROVE  Alone(r)'
<1>1. PICK q : q = request[r]
  OBVIOUS
<1>2. PICK next :
           /\ request' = [request EXCEPT ![r] = next] /\ RequestOK(next) /\ next.at # "idle"
           /\ next.entries = q.entries
           /\ \/ next.at = "modules" /\ next.todo = Tail(q.todo)
              \/ next.at = "receivers" /\ Tail(q.todo) = <<>>
  BY <1>1, AfterGoes
<1>3. tail = Tail(q.todo)
  BY <1>1
<1>4. Leads(tail)'
  OBVIOUS
<1>5. CASE next.at = "modules" /\ next.todo = Tail(q.todo)
  <2>1. Reached(next)'
    BY <1>1, <1>2, <1>3, <1>4, <1>5 DEF Reached
  <2>2. QED
    BY <1>2, <2>1, HandlerGoesOn
<1>6. CASE next.at = "receivers" /\ Tail(q.todo) = <<>>
  <2>2. ModulesRun'
    <3>1. tail = <<>> /\ Len(tail) = 0
      <4>1. tail = <<>>
        BY <1>3, <1>6
      <4>2. QED
        BY <4>1
    <3>2. /\ \A i \in (DOMAIN modules') \ OfKind(stored, "rtp") : \E n \in 1..Len(tail) : tail[n] = <<"unload", i>>
          /\ \A i \in OfKind(stored, "rtp") :
               \/ \E n \in 1..Len(tail) : tail[n] = <<"load", i>>
               \/ i \in DOMAIN modules' /\ modules'[i] = stored[i].setting
      BY <1>4 DEF Leads
    <3>3. \A n : n \notin 1..Len(tail)
      BY <3>1
    <3>4. DOMAIN modules' = OfKind(stored, "rtp") /\ \A i \in OfKind(stored, "rtp") : modules'[i] = stored[i].setting
      BY <3>2, <3>3
    <3>5. QED
      BY <3>4 DEF IsFunction, ModulesRun
  <2>3. Reached(next)'
    BY <1>1, <1>2, <1>6, <2>2 DEF Reached
  <2>4. QED
    BY <1>2, <2>3, HandlerGoesOn
<1>7. QED
  BY <1>2, <1>5, <1>6

\* The first thing left to do is done by a handler that knows it by its types.
LEMMA FirstToDo ==
  ASSUME StackTypeOK, NEW r \in Requests, request[r].at = "modules", request[r].todo # <<>>, NEW todo, todo = request[r].todo
  PROVE  /\ todo \in Seq(Ops) /\ todo # <<>> /\ Head(todo) = todo[1] /\ todo[1][2] \in Ids
         /\ 1 \in 1..Len(todo)
<1>1. RequestOK(request[r])
  BY DEF StackTypeOK
<1>2. todo \in Seq(Ops) /\ todo # <<>>
  <2>1. PICK q : q = request[r]
    OBVIOUS
  <2>2. q.todo \in Seq(Ops)
    BY <1>1, <2>1, Stages
  <2>3. QED
    BY <2>1, <2>2
<1>3. Head(todo) = todo[1] /\ 1 \in 1..Len(todo) /\ todo[1] \in Ops
  BY <1>2
<1>4. QED
  BY <1>2, <1>3 DEF Ops

LEMMA OperationTypes ==
  ASSUME StackTypeOK, NEW r \in Requests, request[r].at = "modules", request[r].todo # <<>>, After(r),
         IsFunction(modules'), DOMAIN modules' \subseteq Ids, shown' \in [Ids -> {"no", "yes", "old"}],
         crossed' \in BOOLEAN, UNCHANGED <<stored, disk, receivers, devices>>
  PROVE  StackTypeOK'
<1>1. PICK next : request' = [request EXCEPT ![r] = next] /\ RequestOK(next)
  BY AfterGoes
<1>2. DOMAIN request' = Requests /\ \A s \in Requests : RequestOK(request'[s])
  BY <1>1, HandlerSteps
<1>3. QED
  BY <1>2 DEF StackTypeOK

LEMMA UnloadKeeps ==
  ASSUME StackInv, NEW r \in Requests, Unload(r)
  PROVE  StackInv'
<1>1. PICK todo : todo = request[r].todo
  OBVIOUS
<1>2. /\ StackTypeOK /\ request[r].at = "modules" /\ request[r].todo # <<>> /\ After(r) /\ Head(todo)[1] = "unload"
      /\ modules' = Without(modules, Head(todo)[2]) /\ crossed' = crossed
      /\ shown' = [shown EXCEPT ![Head(todo)[2]] = IF @ = "yes" /\ Head(todo)[2] \in DOMAIN modules THEN "old" ELSE @]
      /\ stored' = stored /\ disk' = disk /\ receivers' = receivers /\ devices' = devices
  BY <1>1 DEF Unload, StackInv
<1>3. todo \in Seq(Ops) /\ todo # <<>> /\ Head(todo) = todo[1] /\ todo[1][2] \in Ids
  BY <1>1, <1>2, FirstToDo
<1>4. IsFunction(modules') /\ DOMAIN modules' \subseteq Ids
  BY <1>2 DEF IsFunction, Without, StackTypeOK
<1>5. StackTypeOK'
  <2>1. shown' \in [Ids -> {"no", "yes", "old"}]
    BY <1>2 DEF StackTypeOK
  <2>2. crossed' \in BOOLEAN
    BY <1>2 DEF StackTypeOK
  <2>3. QED
    BY <1>2, <1>4, <2>1, <2>2, OperationTypes
<1>6. ASSUME ~crossed' PROVE Alone(r)'
  <2>1. request[r] # NoRequest /\ ~crossed
    BY <1>2, <1>6 DEF NoRequest
  <2>2. (\A s \in Requests \ {r} : request[s] = NoRequest) /\ Reached(request[r])
    BY <2>1, OnlyOne
  <2>3. request[r].entries = stored /\ Leads(todo)
    BY <1>1, <1>2, <2>2 DEF Reached
  <2>4. PICK tail : tail = Tail(todo)
    OBVIOUS
  <2>5. Leads(tail)'
    <3>1. todo[1][1] = "unload" /\ modules' = Without(modules, todo[1][2])
      BY <1>2, <1>3
    <3>2. Leads(Tail(todo))'
      BY <1>2, <1>3, <2>3, <3>1, UnloadLeads
    <3>3. QED
      BY <2>4, <3>2
  <2>6. QED
    BY <1>1, <1>2, <1>4, <2>2, <2>3, <2>4, <2>5, OperationKeeps
<1>7. QED
  BY <1>5, <1>6 DEF StackInv

LEMMA LoadModuleKeeps ==
  ASSUME StackInv, NEW r \in Requests, LoadModule(r)
  PROVE  StackInv'
<1>1. PICK todo : todo = request[r].todo
  OBVIOUS
<1>2. /\ StackTypeOK /\ request[r].at = "modules" /\ request[r].todo # <<>> /\ After(r) /\ Head(todo)[1] = "load"
      /\ stored' = stored /\ disk' = disk /\ receivers' = receivers /\ devices' = devices /\ shown' = shown
  BY <1>1 DEF LoadModule, StackInv
<1>3. PICK i : i = todo[1][2]
  OBVIOUS
<1>4. todo \in Seq(Ops) /\ todo # <<>> /\ Head(todo) = todo[1] /\ i \in Ids /\ 1 \in 1..Len(todo)
  BY <1>1, <1>2, <1>3, FirstToDo
<1>5. shown' \in [Ids -> {"no", "yes", "old"}]
  BY <1>2 DEF StackTypeOK
<1>6. CASE /\ modules' = IF i \in DOMAIN modules THEN modules ELSE With(modules, i, request[r].entries[i].setting)
           /\ crossed' = crossed
  <2>1. IsFunction(modules') /\ DOMAIN modules' \subseteq Ids
    <3>1. CASE i \in DOMAIN modules
      BY <1>2, <1>6, <3>1 DEF StackTypeOK
    <3>2. CASE i \notin DOMAIN modules
      <4>1. modules' = With(modules, i, request[r].entries[i].setting)
        BY <1>6, <3>2
      <4>2. QED
        BY <1>2, <1>4, <4>1 DEF IsFunction, With, StackTypeOK
    <3>3. QED
      BY <3>1, <3>2
  <2>2. crossed' \in BOOLEAN
    BY <1>2, <1>6 DEF StackTypeOK
  <2>3. StackTypeOK'
    BY <1>2, <1>5, <2>1, <2>2, OperationTypes
  <2>4. ASSUME ~crossed' PROVE Alone(r)'
    <3>1. request[r] # NoRequest /\ ~crossed
      BY <1>2, <1>6, <2>4 DEF NoRequest
    <3>2. (\A s \in Requests \ {r} : request[s] = NoRequest) /\ Reached(request[r])
      BY <3>1, OnlyOne
    <3>3. request[r].entries = stored /\ Leads(todo)
      BY <1>1, <1>2, <3>2 DEF Reached
    <3>4. i \notin DOMAIN modules
      BY <1>2, <1>3, <1>4, <3>3 DEF Leads
    <3>5. modules' = With(modules, i, stored[i].setting)
      BY <1>6, <3>3, <3>4
    <3>6. PICK tail : tail = Tail(todo)
      OBVIOUS
    <3>7. Leads(tail)'
      <4>1. todo[1][1] = "load" /\ modules' = With(modules, todo[1][2], stored[todo[1][2]].setting)
        BY <1>2, <1>3, <1>4, <3>5
      <4>2. Leads(Tail(todo))'
        BY <1>2, <1>4, <3>3, <4>1, LoadLeads
      <4>3. QED
        BY <3>6, <4>2
    <3>8. QED
      BY <1>1, <1>2, <2>1, <3>2, <3>3, <3>6, <3>7, OperationKeeps
  <2>5. QED
    BY <2>3, <2>4 DEF StackInv
<1>7. CASE crossed' = TRUE /\ modules' = modules
  <2>1. IsFunction(modules') /\ DOMAIN modules' \subseteq Ids /\ crossed' \in BOOLEAN
    BY <1>2, <1>7 DEF StackTypeOK
  <2>2. StackTypeOK'
    BY <1>2, <1>5, <2>1, OperationTypes
  <2>3. QED
    BY <1>7, <2>2 DEF StackInv
<1>8. QED
  <2>1. Head(request[r].todo)[2] = i
    BY <1>1, <1>3, <1>4
  <2>2. \/ /\ modules' = IF i \in DOMAIN modules THEN modules ELSE With(modules, i, request[r].entries[i].setting)
           /\ crossed' = crossed
        \/ crossed' = TRUE /\ modules' = modules
    BY <2>1 DEF LoadModule
  <2>3. QED
    BY <1>6, <1>7, <2>2

LEMMA NoModulesKeeps ==
  ASSUME StackInv, NEW r \in Requests, NoModules(r)
  PROVE  StackInv'
<1>1. PICK q : q = request[r]
  OBVIOUS
<1>2. PICK next : next = [at |-> "receivers", entries |-> q.entries]
  OBVIOUS
<1>3. /\ StackTypeOK /\ RequestOK(q) /\ q.at = "modules" /\ q.todo = <<>> /\ request' = [request EXCEPT ![r] = next]
      /\ stored' = stored /\ disk' = disk /\ crossed' = crossed
      /\ receivers' = receivers /\ devices' = devices /\ modules' = modules /\ shown' = shown
  BY <1>1, <1>2 DEF NoModules, StackInv, StackTypeOK, running
<1>4. EntriesOK(q.entries)
  BY <1>3, Stages
<1>5. next.at = "receivers" /\ next.entries = q.entries /\ RequestOK(next)
  BY <1>2, <1>4 DEF RequestOK
<1>6. StackTypeOK'
  <2>1. DOMAIN request' = Requests /\ \A s \in Requests : RequestOK(request'[s])
    BY <1>3, <1>5, HandlerSteps
  <2>2. QED
    BY <1>3, <2>1 DEF StackTypeOK
<1>7. ASSUME ~crossed' PROVE Alone(r)'
  <2>1. q # NoRequest /\ ~crossed
    BY <1>3, <1>7 DEF NoRequest
  <2>2. (\A s \in Requests \ {r} : request[s] = NoRequest) /\ Reached(q)
    BY <1>1, <2>1, OnlyOne
  <2>3. q.entries = stored /\ Leads(<<>>)
    BY <1>3, <2>2 DEF Reached
  <2>4. ModulesRun
    BY <1>3, <2>3, NothingLeft DEF StackTypeOK
  <2>5. ModulesRun'
    BY <1>3, <2>4 DEF ModulesRun
  <2>6. Reached(next)'
    BY <1>3, <1>5, <2>3, <2>5 DEF Reached
  <2>7. next.at # "idle"
    BY <1>5
  <2>8. QED
    BY <1>3, <1>5, <2>2, <2>6, <2>7, HandlerGoesOn
<1>8. QED
  BY <1>6, <1>7 DEF StackInv

LEMMA ReceiversKeeps ==
  ASSUME StackConstants, StackInv, NEW r \in Requests, Receivers(r)
  PROVE  StackInv'
<1>1. PICK q : q = request[r]
  OBVIOUS
<1>2. PICK wanted : wanted = Desired(q.entries, "airplay")
  OBVIOUS
<1>3. PICK kept : kept = Keeping(q.entries)
  OBVIOUS
<1>4. PICK told : told = Telling(q.entries)
  OBVIOUS
<1>5. PICK failed \in SUBSET (wanted \ kept) :
         /\ crossed' = (crossed \/ failed # {})
         /\ receivers' = Running(kept, told, q.entries, (wanted \ kept) \ failed)
  <2>1. \E failed \in SUBSET (Desired(request[r].entries, "airplay") \ Keeping(request[r].entries)) :
          /\ crossed' = (crossed \/ failed # {})
          /\ receivers' = Running(Keeping(request[r].entries), Telling(request[r].entries), request[r].entries,
                                  (Desired(request[r].entries, "airplay") \ Keeping(request[r].entries)) \ failed)
    BY Zenon DEF Receivers, Keeping, Telling, Running
  <2>2. QED
    BY <1>1, <1>2, <1>3, <1>4, <2>1
<1>13. /\ kept = {i \in DOMAIN receivers \cap wanted : ~NeedsRestart(receivers[i], q.entries[i])}
      /\ told = [i \in kept |-> [receivers[i] EXCEPT !.prevent = q.entries[i].prevent]]
      /\ receivers' = [i \in kept \cup Started(told, q.entries, (wanted \ kept) \ failed) |->
                         IF i \in kept THEN told[i] ELSE Runs(q.entries[i])]
  BY <1>2, <1>3, <1>4, <1>5 DEF Keeping, Telling, Running
<1>6. PICK next : next = [at |-> "devices", entries |-> q.entries]
  OBVIOUS
<1>7. /\ StackTypeOK /\ RequestOK(q) /\ q.at = "receivers" /\ request' = [request EXCEPT ![r] = next]
      /\ stored' = stored /\ disk' = disk /\ devices' = devices /\ modules' = modules /\ shown' = shown
  BY <1>1, <1>6 DEF Receivers, StackInv, StackTypeOK
<1>8. EntriesOK(q.entries)
  BY <1>7, Stages
<1>9. next.at = "devices" /\ next.entries = q.entries /\ RequestOK(next)
  BY <1>6, <1>8 DEF RequestOK
<1>10. StackTypeOK'
  <2>1. DOMAIN request' = Requests /\ \A s \in Requests : RequestOK(request'[s])
    BY <1>7, <1>9, HandlerSteps
  <2>2. crossed' \in BOOLEAN
    BY <1>5
  <2>3. \A i \in DOMAIN receivers' : IsRun(receivers'[i])
    <3>1. ASSUME NEW i \in kept PROVE IsRun(told[i])
      <4>1. IsRun(receivers[i])
        BY <1>13, <1>7 DEF StackTypeOK
      <4>2. IsRun([receivers[i] EXCEPT !.prevent = q.entries[i].prevent])
        BY <4>1 DEF IsRun
      <4>3. QED
        BY <1>13, <4>2
    <3>2. \A i : IsRun(Runs(q.entries[i]))
      BY DEF IsRun, Runs
    <3>3. QED
      BY <1>13, <3>1, <3>2
  <2>4. QED
    BY <1>7, <2>1, <2>2, <2>3 DEF StackTypeOK
<1>11. ASSUME ~crossed' PROVE Alone(r)'
  <2>1. failed = {} /\ ~crossed
    BY <1>5, <1>11, Zenon
  <2>2. q # NoRequest
    BY <1>7 DEF NoRequest
  <2>3. (\A s \in Requests \ {r} : request[s] = NoRequest) /\ Reached(q)
    BY <1>1, <2>1, <2>2, OnlyOne
  <2>4. q.entries = stored /\ ModulesRun
    BY <1>7, <2>3 DEF Reached
  <2>5. ModulesRun'
    BY <1>7, <2>4 DEF ModulesRun
  <2>6. ReceiversRun'
    <3>1. (wanted \ kept) \ failed = wanted \ kept
      BY <2>1
    <3>2. /\ wanted = Desired(stored, "airplay") /\ kept = Keeping(stored) /\ told = Telling(stored)
          /\ receivers' = Running(kept, told, stored, wanted \ kept)
          /\ StackTypeOK /\ stored' = stored
      BY <1>2, <1>3, <1>4, <1>5, <1>7, <2>4, <3>1
    <3>3. QED
      BY <3>2, ReceiversFollow
  <2>7. Reached(next)'
    BY <1>7, <1>9, <2>4, <2>5, <2>6 DEF Reached
  <2>8. next.at # "idle"
    BY <1>9
  <2>9. QED
    BY <1>7, <1>9, <2>3, <2>7, <2>8, HandlerGoesOn
<1>12. QED
  BY <1>10, <1>11 DEF StackInv

LEMMA DevicesKeeps ==
  ASSUME StackInv, NEW r \in Requests, Devices(r)
  PROVE  StackInv'
<1>1. PICK q : q = request[r]
  OBVIOUS
<1>2. PICK wanted : wanted = Desired(q.entries, "spotify")
  OBVIOUS
<1>3. PICK kept : kept = {i \in DOMAIN devices \cap wanted : ~NeedsRestart(devices[i], q.entries[i])}
  OBVIOUS
<1>4. PICK failed \in SUBSET (wanted \ kept) :
         /\ crossed' = (crossed \/ failed # {})
         /\ devices' = [i \in kept \cup (wanted \ failed) |-> IF i \in kept THEN devices[i] ELSE Runs(q.entries[i])]
  BY <1>1, <1>2, <1>3 DEF Devices
<1>5. /\ StackTypeOK /\ RequestOK(q) /\ q.at = "devices" /\ request' = [request EXCEPT ![r] = NoRequest]
      /\ stored' = stored /\ disk' = disk /\ receivers' = receivers /\ modules' = modules /\ shown' = shown
  BY <1>1 DEF Devices, StackInv, StackTypeOK
<1>6. \A i \in wanted : q.entries[i].prevent = FALSE
  <2>1. EntriesOK(q.entries)
    BY <1>5, Stages
  <2>2. QED
    BY <1>2, <2>1 DEF EntriesOK, EntryOK, Desired, OfKind
<1>7. \A i \in kept : i \in wanted /\ IsRun(devices[i]) /\ devices[i].prevent = FALSE
  BY <1>3, <1>5 DEF StackTypeOK
<1>8. StackTypeOK'
  <2>1. DOMAIN request' = Requests /\ \A s \in Requests : RequestOK(request'[s])
    BY <1>5, HandlerSteps DEF RequestOK
  <2>2. crossed' \in BOOLEAN
    BY <1>4
  <2>3. ASSUME NEW i \in DOMAIN devices' PROVE IsRun(devices'[i]) /\ devices'[i].prevent = FALSE
    <3>1. CASE i \in kept
      BY <1>4, <1>7, <3>1
    <3>2. CASE i \notin kept
      <4>1. i \in wanted /\ devices'[i] = Runs(q.entries[i])
        BY <1>4, <3>2
      <4>2. QED
        BY <1>6, <4>1 DEF Runs, IsRun
    <3>3. QED
      BY <3>1, <3>2
  <2>4. QED
    BY <1>5, <2>1, <2>2, <2>3 DEF StackTypeOK
<1>9. ASSUME ~crossed' PROVE AllRuns'
  <2>1. failed = {} /\ ~crossed
    BY <1>4, <1>9, Zenon
  <2>2. q # NoRequest
    BY <1>5 DEF NoRequest
  <2>3. (\A s \in Requests \ {r} : request[s] = NoRequest) /\ Reached(q)
    BY <1>1, <2>1, <2>2, OnlyOne
  <2>4. q.entries = stored /\ ModulesRun /\ ReceiversRun
    BY <1>5, <2>3 DEF Reached
  <2>5. ModulesRun' /\ ReceiversRun'
    BY <1>5, <2>4 DEF ModulesRun, ReceiversRun
  <2>6. DevicesRun'
    <3>1. ASSUME NEW i \in kept PROVE devices[i] = Runs(stored[i])
      <4>1. devices[i].label = stored[i].label /\ devices[i].setting = stored[i].setting
        BY <1>3, <2>4 DEF NeedsRestart
      <4>2. stored[i].prevent = FALSE /\ devices[i].prevent = FALSE /\ IsRun(devices[i])
        BY <1>6, <1>7, <2>4
      <4>3. QED
        BY <4>1, <4>2 DEF IsRun, Runs
    <3>2. devices' = [i \in wanted |-> Runs(stored[i])]
      BY <1>4, <1>7, <2>1, <2>4, <3>1
    <3>3. QED
      BY <1>2, <1>5, <2>4, <3>2 DEF DevicesRun
  <2>7. RunsStored'
    BY <2>5, <2>6 DEF RunsStored, ModulesRun, DevicesRun, ReceiversRun
  <2>8. QED
    BY <1>5, <2>3, <2>7, HandlerEnds
<1>10. QED
  BY <1>8, <1>9 DEF StackInv

\* Nothing that the invariant of a handler that is alone is about changes with the mirror.
LEMMA ElsewhereKeeps ==
  ASSUME StackInv, UNCHANGED <<stored, disk, receivers, devices, modules, request, crossed, serving>>,
         shown' \in [Ids -> {"no", "yes", "old"}]
  PROVE  StackInv'
<1>1. StackTypeOK'
  BY DEF StackInv, StackTypeOK
<1>2. AllRuns => AllRuns'
  BY DEF AllRuns, Quiet, RunsStored
<1>3. ASSUME NEW q PROVE Reached(q)' <=> Reached(q)
  BY DEF Reached, ModulesRun, DevicesRun, ReceiversRun, Untold, Leads, RunsStored
<1>4. ASSUME NEW r \in Requests, Alone(r) PROVE Alone(r)'
  <2>1. PICK q : q = request[r]
    OBVIOUS
  <2>2. Reached(q)'
    BY <1>3, <1>4, <2>1 DEF Alone
  <2>3. request'[r] = q
    BY <2>1
  <2>4. Reached(request[r])'
    BY <2>2, <2>3
  <2>5. QED
    BY <1>4, <2>4 DEF Alone
<1>5. QED
  BY <1>1, <1>2, <1>4 DEF StackInv

LEMMA NodeShownKeeps ==
  ASSUME StackInv, NEW i \in Ids, NodeShown(i)
  PROVE  StackInv'
<1>1. shown' \in [Ids -> {"no", "yes", "old"}]
  BY DEF NodeShown, StackInv, StackTypeOK
<1>2. QED
  BY <1>1, ElsewhereKeeps DEF NodeShown

\* The handler of the start-up is the only one.
LEMMA FirstHandler ==
  ASSUME StackConstants, NEW handlers,
         handlers = [r \in Requests |-> IF \A q \in Requests : r <= q THEN [at |-> "list"] ELSE NoRequest]
  PROVE  /\ DOMAIN handlers = Requests /\ \A r \in Requests : RequestOK(handlers[r])
         /\ \/ \A r \in Requests : handlers[r] = NoRequest
            \/ \E r \in Requests : /\ handlers[r] = [at |-> "list"]
                                   /\ \A q \in Requests \ {r} : handlers[q] = NoRequest
<1>1. \A r \in Requests : RequestOK(handlers[r])
  BY DEF RequestOK
<1>2. ASSUME NEW r \in Requests, handlers[r] # NoRequest
      PROVE  handlers[r] = [at |-> "list"] /\ \A q \in Requests \ {r} : handlers[q] = NoRequest
  <2>1. \A q \in Requests : r <= q
    BY <1>2
  <2>2. handlers[r] = [at |-> "list"]
    BY <2>1
  <2>3. ASSUME NEW q \in Requests \ {r} PROVE ~(q <= r)
    <3>1. q \in Nat /\ r \in Nat /\ r <= q /\ q # r
      BY <2>1 DEF StackConstants
    <3>2. QED
      BY <3>1
  <2>4. QED
    BY <2>2, <2>3
<1>3. QED
  BY <1>1, <1>2

LEMMA AllocatedOK ==
  ASSUME NEW file, EntriesOK(file)
  PROVE  EntriesOK(Allocated(file))
<1> DEFINE open == {i \in OfKind(file, "airplay") : file[i].setting = 0}
           port(i) == FreePort(file, i, Cardinality({j \in open : j <= i}))
<1>1. Allocated(file) = [i \in DOMAIN file |-> IF i \in open THEN [file[i] EXCEPT !.setting = port(i)] ELSE file[i]]
  BY DEF Allocated
<1> HIDE DEF open, port
<1>2. ASSUME NEW i \in DOMAIN file PROVE EntryOK([file[i] EXCEPT !.setting = port(i)]) /\ EntryOK(file[i]) /\ i \in Ids
  <2>1. EntryOK(file[i]) /\ i \in Ids
    BY DEF EntriesOK
  <2>2. PICK p : p = port(i)
    OBVIOUS
  <2>3. EntryOK([file[i] EXCEPT !.setting = p])
    BY <2>1, EntryFields
  <2>4. QED
    BY <2>1, <2>2, <2>3
<1>3. QED
  BY <1>1, <1>2 DEF EntriesOK

LEMMA RestartKeeps ==
  ASSUME StackConstants, StackInv, RestartDaemon
  PROVE  StackInv'
<1>1. PICK entries : entries = Allocated(disk)
  OBVIOUS
<1>2. PICK handlers : handlers = [r \in Requests |-> IF \A q \in Requests : r <= q THEN [at |-> "list"] ELSE NoRequest]
  OBVIOUS
<1>3. /\ stored' = entries /\ disk' = entries /\ receivers' = <<>> /\ devices' = <<>> /\ modules' = <<>>
      /\ shown' = [i \in Ids |-> "no"] /\ request' = handlers /\ serving' = FALSE /\ crossed' = FALSE
  BY <1>1, <1>2 DEF RestartDaemon, Boot
<1>4. EntriesOK(entries)
  BY <1>1, AllocatedOK DEF StackInv, StackTypeOK
<1>5. /\ DOMAIN handlers = Requests /\ \A r \in Requests : RequestOK(handlers[r])
      /\ \/ \A r \in Requests : handlers[r] = NoRequest
         \/ \E r \in Requests : /\ handlers[r] = [at |-> "list"]
                                /\ \A q \in Requests \ {r} : handlers[q] = NoRequest
  BY <1>2, FirstHandler
<1>6. DOMAIN (<<>>) = {} /\ IsFunction(<<>>)
  BY DEF IsFunction
<1>7. StackTypeOK'
  BY <1>3, <1>4, <1>5, <1>6 DEF StackTypeOK, IsFunction
<1>8. CASE \A r \in Requests : handlers[r] = NoRequest
  BY <1>3, <1>7, <1>8 DEF StackInv, AllRuns, Quiet
<1>9. CASE \E r \in Requests : handlers[r] = [at |-> "list"] /\ \A q \in Requests \ {r} : handlers[q] = NoRequest
  <2>1. PICK r \in Requests : handlers[r] = [at |-> "list"] /\ \A q \in Requests \ {r} : handlers[q] = NoRequest
    BY <1>9
  <2>2. PICK q : q = [at |-> "list"]
    OBVIOUS
  <2>3. q.at = "list" /\ q # NoRequest
    BY <2>2 DEF NoRequest
  <2>4. Reached(q)'
    BY <2>3 DEF Reached
  <2>5. request'[r] = q /\ \A s \in Requests \ {r} : request'[s] = NoRequest
    BY <1>3, <2>1, <2>2
  <2>6. Reached(request[r])'
    BY <2>4, <2>5
  <2>7. Alone(r)'
    BY <2>3, <2>5, <2>6 DEF Alone
  <2>8. QED
    BY <1>7, <2>7 DEF StackInv
<1>10. QED
  BY <1>5, <1>8, <1>9

LEMMA InitStack ==
  ASSUME StackConstants, SourceInit
  PROVE  StackInv
<1>1. PICK ids \in SUBSET Ids : \E file \in [ids -> {e \in Entries : Stated(e)}] :
         stored = Allocated(file) /\ disk = Allocated(file)
  BY DEF SourceInit
<1>2. PICK file \in [ids -> {e \in Entries : Stated(e)}] : stored = Allocated(file) /\ disk = Allocated(file)
  BY <1>1
<1>3. EntriesOK(file)
  BY <1>2, StatedEntries DEF EntriesOK
<1>4. EntriesOK(stored) /\ EntriesOK(disk)
  BY <1>2, <1>3, AllocatedOK
<1>5. /\ receivers = <<>> /\ devices = <<>> /\ modules = <<>> /\ shown = [i \in Ids |-> "no"]
      /\ serving = FALSE /\ crossed = FALSE
      /\ request = [r \in Requests |-> IF \A q \in Requests : r <= q THEN [at |-> "list"] ELSE NoRequest]
  BY DEF SourceInit
<1>6. PICK handlers : handlers = [r \in Requests |-> IF \A q \in Requests : r <= q THEN [at |-> "list"] ELSE NoRequest]
  OBVIOUS
<1>7. /\ DOMAIN handlers = Requests /\ \A r \in Requests : RequestOK(handlers[r])
      /\ \/ \A r \in Requests : handlers[r] = NoRequest
         \/ \E r \in Requests : /\ handlers[r] = [at |-> "list"]
                                /\ \A q \in Requests \ {r} : handlers[q] = NoRequest
  BY <1>6, FirstHandler
<1>8. request = handlers
  BY <1>5, <1>6
<1>9. DOMAIN (<<>>) = {} /\ IsFunction(<<>>)
  BY DEF IsFunction
<1>10. StackTypeOK
  BY <1>4, <1>5, <1>7, <1>8, <1>9 DEF StackTypeOK
<1>11. CASE \A r \in Requests : handlers[r] = NoRequest
  BY <1>5, <1>8, <1>10, <1>11 DEF StackInv, AllRuns, Quiet
<1>12. CASE \E r \in Requests : handlers[r] = [at |-> "list"] /\ \A q \in Requests \ {r} : handlers[q] = NoRequest
  <2>1. PICK r \in Requests : handlers[r] = [at |-> "list"] /\ \A q \in Requests \ {r} : handlers[q] = NoRequest
    BY <1>12
  <2>2. request[r].at = "list" /\ request[r] # NoRequest
    BY <1>8, <2>1 DEF NoRequest
  <2>3. Reached(request[r])
    BY <2>2 DEF Reached
  <2>4. Alone(r)
    BY <1>8, <2>1, <2>2, <2>3 DEF Alone
  <2>5. QED
    BY <1>10, <2>4 DEF StackInv
<1>13. QED
  BY <1>7, <1>11, <1>12

LEMMA NextStack ==
  ASSUME StackConstants, StackInv, [SourceNext]_sourceVars
  PROVE  StackInv'
<1>1. CASE \E r \in Requests : \E id \in Ids :
        \/ \E e \in {x \in Entries : Stated(x)} : Create(r, id, e) \/ Update(r, id, e)
        \/ Delete(r, id)
        \/ \E policy \in BOOLEAN : AskPolicy(r, id, policy)
  BY <1>1, BeginKeeps, AskPolicyKeeps
<1>2. ASSUME NEW r \in Requests, StorePolicy(r) \/ TellPolicy(r) PROVE StackInv'
  BY <1>2, StorePolicyKeeps, TellPolicyKeeps
<1>3. ASSUME NEW r \in Requests, List(r) \/ Lookup(r) PROVE StackInv'
  BY <1>3, ListKeeps, LookupKeeps
<1>4. ASSUME NEW r \in Requests, Unload(r) \/ LoadModule(r) \/ NoModules(r) PROVE StackInv'
  BY <1>4, UnloadKeeps, LoadModuleKeeps, NoModulesKeeps
<1>5. ASSUME NEW r \in Requests, Receivers(r) \/ Devices(r) PROVE StackInv'
  BY <1>5, ReceiversKeeps, DevicesKeeps
<1>6. CASE \E i \in Ids : NodeShown(i)
  BY <1>6, NodeShownKeeps
<1>7. CASE RestartDaemon
  BY <1>7, RestartKeeps
<1>8. CASE UNCHANGED sourceVars
  <2>1. /\ UNCHANGED <<stored, disk, receivers, devices, modules, request, crossed, serving>>
        /\ shown' = shown
    BY <1>8 DEF sourceVars
  <2>2. shown' \in [Ids -> {"no", "yes", "old"}]
    BY <2>1 DEF StackInv, StackTypeOK
  <2>3. QED
    BY <2>1, <2>2, ElsewhereKeeps
<1>9. QED
  BY <1>1, <1>2, <1>3, <1>4, <1>5, <1>6, <1>7, <1>8 DEF SourceNext

-----------------------------------------------------------------------------
\* Once the handlers are done, and the last reconcile ran alone, failed at
\* nothing and was shown every module it had to unload, the modules, devices and
\* receivers are those of the stored entries: for any set of sources, any number
\* of handlers, failures and restarts.
THEOREM SourcesRunWhatIsStored ==
  ASSUME StackConstants
  PROVE  SourceSpec => []RunsWhatIsStored
<1>1. SourceInit => StackInv
  BY InitStack
<1>2. StackInv /\ [SourceNext]_sourceVars => StackInv'
  BY NextStack
<1>3. StackInv => RunsWhatIsStored
  BY DEF StackInv, AllRuns, Alone, Quiet, RunsWhatIsStored
<1>4. QED
  BY <1>1, <1>2, <1>3, PTL DEF SourceSpec

-----------------------------------------------------------------------------
(* The AirPlay senders *)
(***************************************************************************)
(* A sender that was banned by its name stays banned: each of its records  *)
(* has the ban, and there is one, through what connects, tells its name,   *)
(* is merged, goes and is forgotten.                                       *)
(***************************************************************************)

Rec == [name : Senders \union {Unnamed}, addr : Addrs, banned : BOOLEAN, priority : Priorities \union {0},
        connected : BOOLEAN]
Sess == [stage : {"open", "set up", "session", "refused"}, addr : Addrs, sender : Senders, named : BOOLEAN]

ClientsTypeOK ==
  /\ clients \subseteq Rec
  /\ conns \in [Conns -> {ClosedConn} \union Sess]
  /\ address \in [Senders -> Addrs]
  /\ barred \subseteq Senders

Bars(n) == (\E rec \in clients : rec.name = n) /\ \A rec \in clients : rec.name = n => rec.banned

ClientsInv == ClientsTypeOK /\ \A n \in barred : Bars(n)

LEMMA InitClients == ClientsConstants /\ ClientsInit => ClientsInv
<1> SUFFICES ASSUME ClientsConstants, ClientsInit PROVE ClientsInv
  OBVIOUS
<1>1. address \in [Senders -> Addrs]
  BY DEF ClientsInit, ClientsConstants
<1>2. QED
  BY <1>1 DEF ClientsInit, ClientsInv, ClientsTypeOK

-----------------------------------------------------------------------------
(* A record changed in one field is a record, and the other fields stay. *)

LEMMA RecordEdits ==
  ASSUME NEW rec \in Rec
  PROVE  /\ \A b \in BOOLEAN : [rec EXCEPT !.connected = b] \in Rec
         /\ \A b \in BOOLEAN : [rec EXCEPT !.banned = b] \in Rec
         /\ \A n \in Senders : [rec EXCEPT !.name = n] \in Rec
         /\ \A p \in Priorities : [rec EXCEPT !.priority = p] \in Rec
         /\ \A a \in Addrs : [rec EXCEPT !.addr = a] \in Rec
BY DEF Rec

LEMMA RecordKeeps ==
  ASSUME NEW rec \in Rec
  PROVE  /\ \A b : [rec EXCEPT !.connected = b].name = rec.name /\ [rec EXCEPT !.connected = b].banned = rec.banned
         /\ \A b : [rec EXCEPT !.banned = b].name = rec.name /\ [rec EXCEPT !.banned = b].banned = b
         /\ \A n : [rec EXCEPT !.name = n].name = n /\ [rec EXCEPT !.name = n].banned = rec.banned
         /\ \A p : [rec EXCEPT !.priority = p].name = rec.name /\ [rec EXCEPT !.priority = p].banned = rec.banned
         /\ \A a : [rec EXCEPT !.addr = a].name = rec.name /\ [rec EXCEPT !.addr = a].banned = rec.banned
BY DEF Rec

LEMMA SessionEdits ==
  ASSUME NEW s \in Sess
  PROVE  /\ \A t \in {"set up", "session", "refused"} : [s EXCEPT !.stage = t] \in Sess /\ [s EXCEPT !.stage = t].stage = t
         /\ \A b \in BOOLEAN : [s EXCEPT !.named = b] \in Sess
         /\ \A b \in BOOLEAN : [s EXCEPT !.stage = "set up", !.named = b] \in Sess
                               /\ [s EXCEPT !.stage = "set up", !.named = b].stage = "set up"
<1>1. \A t \in {"set up", "session", "refused"} : [s EXCEPT !.stage = t] \in Sess /\ [s EXCEPT !.stage = t].stage = t
  BY DEF Sess
<1>2. \A b \in BOOLEAN : [s EXCEPT !.named = b] \in Sess
  BY DEF Sess
<1>3. ASSUME NEW b \in BOOLEAN PROVE [s EXCEPT !.stage = "set up", !.named = b] \in Sess
  <2>1. [s EXCEPT !.stage = "set up", !.named = b] = [[s EXCEPT !.stage = "set up"] EXCEPT !.named = b]
    BY DEF Sess
  <2>2. [s EXCEPT !.stage = "set up"] \in Sess
    BY <1>1
  <2>3. \A t \in Sess : [t EXCEPT !.named = b] \in Sess
    BY DEF Sess
  <2>4. QED
    BY <2>1, <2>2, <2>3
<1>4. ASSUME NEW b \in BOOLEAN PROVE [s EXCEPT !.stage = "set up", !.named = b].stage = "set up"
  BY DEF Sess
<1>5. QED
  BY <1>1, <1>2, <1>3, <1>4

\* Whoever has a connection that is not closed.
LEMMA OpenIsSess ==
  ASSUME ClientsTypeOK, NEW c \in Conns, conns[c].stage # "closed"
  PROVE  conns[c] \in Sess
BY DEF ClientsTypeOK, ClosedConn

\* A sender's records are, after the step, those it had, no less banned.
Holds(n) ==
  /\ \A now \in clients' : now.name = n => \E rec \in clients : rec.name = n /\ (rec.banned => now.banned)
  /\ \A rec \in clients : rec.name = n => \E now \in clients' : now.name = n

LEMMA HoldsBars == ASSUME NEW n, Bars(n), Holds(n) PROVE Bars(n)'
BY DEF Bars, Holds

LEMMA SameClients == clients' = clients => \A n : Holds(n)
BY DEF Holds

\* Each record there is now comes from one of the same name, and each has one.
LEMMA DerivedHolds ==
  ASSUME \A now \in clients' : \E rec \in clients : now.name = rec.name /\ (rec.banned => now.banned),
         \A rec \in clients : \E now \in clients' : now.name = rec.name
  PROVE  \A n : Holds(n)
BY DEF Holds

LEMMA KeptBars ==
  ASSUME ClientsInv, \A n \in barred' : n \in barred /\ Holds(n) PROVE \A n \in barred' : Bars(n)'
BY HoldsBars DEF ClientsInv

-----------------------------------------------------------------------------
(* The callbacks *)

LEMMA ConnectKeeps ==
  ASSUME ClientsConstants, ClientsInv, NEW c \in Conns, NEW s \in Senders, Connect(c, s)
  PROVE  ClientsInv'
<1> DEFINE a == address[s]
           up(rec) == [rec EXCEPT !.connected = TRUE]
<1>1. /\ conns' = [conns EXCEPT ![c] = [stage |-> "open", addr |-> a, sender |-> s, named |-> FALSE]]
      /\ clients' = MarkConnected(a) /\ barred' = UsedBy(s, a) /\ address' = address
  BY DEF Connect
<1>2. a \in Addrs /\ barred' \subseteq barred /\ clients \subseteq Rec /\ barred \subseteq Senders
  BY <1>1 DEF ClientsInv, ClientsTypeOK, UsedBy
<1>3. [stage |-> "open", addr |-> a, sender |-> s, named |-> FALSE] \in Sess
  BY <1>2 DEF Sess
<1>4. conns' \in [Conns -> {ClosedConn} \union Sess]
  BY <1>1, <1>3 DEF ClientsInv, ClientsTypeOK
<1>5. clients' \subseteq Rec /\ \A n \in Senders : Holds(n)
  <2>1. CASE ByAddr(a) = {}
    <3>1. clients' = clients \union {Record(Unnamed, a)}
      BY <1>1, <2>1 DEF MarkConnected
    <3>2. Record(Unnamed, a) \in Rec /\ Record(Unnamed, a).name = Unnamed
      BY <1>2 DEF Record, Rec
    <3>3. Unnamed \notin Senders
      BY DEF ClientsConstants
    <3>4. QED
      BY <1>2, <3>1, <3>2, <3>3 DEF Holds
  <2>2. CASE ByAddr(a) # {}
    <3>1. clients' = (clients \ ByAddr(a)) \union {up(rec) : rec \in ByAddr(a)}
      BY <1>1, <2>2 DEF MarkConnected, Replace
    <3>2. \A rec \in Rec : up(rec) \in Rec /\ up(rec).name = rec.name /\ up(rec).banned = rec.banned
      BY RecordEdits, RecordKeeps
    <3> HIDE DEF up
    <3>3. ByAddr(a) \subseteq clients
      BY DEF ByAddr
    <3>4. clients' \subseteq Rec
      BY <1>2, <3>1, <3>2, <3>3
    <3>5. \A n : Holds(n)
      BY <1>2, <3>1, <3>2, <3>3, DerivedHolds
    <3>6. QED
      BY <3>4, <3>5
  <2>3. QED
    BY <2>1, <2>2
<1>6. \A n \in barred' : Bars(n)'
  BY <1>2, <1>5, KeptBars
<1>7. QED
  BY <1>1, <1>2, <1>4, <1>5, <1>6 DEF ClientsInv, ClientsTypeOK

\* A merge leaves the ban of the name, and the name of whoever has the address
\* without being the sender was not barred any more.
LEMMA SetUpKeeps ==
  ASSUME ClientsConstants, ClientsInv, NEW c \in Conns, NEW named \in BOOLEAN, SetUp(c, named)
  PROVE  ClientsInv'
<1> DEFINE a == conns[c].addr
           s == conns[c].sender
<1>1. /\ conns' = [conns EXCEPT ![c].stage = "set up", ![c].named = named]
      /\ clients' = IF named THEN SetName(a, s) ELSE clients
      /\ barred' = UsedBy(s, a) /\ address' = address /\ conns[c].stage = "open"
  BY DEF SetUp
<1>2. conns[c] \in Sess
  BY <1>1, OpenIsSess DEF ClientsInv
<1>3. a \in Addrs /\ s \in Senders /\ barred' \subseteq barred /\ clients \subseteq Rec /\ barred \subseteq Senders
  BY <1>1, <1>2 DEF ClientsInv, ClientsTypeOK, UsedBy, Sess
<1>4. conns' \in [Conns -> {ClosedConn} \union Sess]
  <2>1. conns' = [conns EXCEPT ![c] = [conns[c] EXCEPT !.stage = "set up", !.named = named]]
    BY <1>1, <1>2 DEF ClientsInv, ClientsTypeOK, Sess
  <2>2. QED
    BY <1>2, <2>1, SessionEdits DEF ClientsInv, ClientsTypeOK
<1> HIDE DEF a, s
<1>5. CASE ~named \/ {rec \in ByAddr(a) : rec.connected} = {}
  <2>1. clients' = clients
    BY <1>1, <1>5 DEF SetName
  <2>2. \A n \in barred' : Bars(n)'
    BY <1>3, <2>1, SameClients, KeptBars
  <2>3. QED
    BY <1>1, <1>3, <1>4, <2>1, <2>2 DEF ClientsInv, ClientsTypeOK
<1>6. CASE named /\ {rec \in ByAddr(a) : rec.connected} # {}
  <2> DEFINE live == {rec \in ByAddr(a) : rec.connected}
             cur == CHOOSE rec \in live : TRUE
             others == ByName(s) \ {cur}
             told == CHOOSE rec \in others : TRUE
  <2>1. cur \in live
    BY <1>6
  <2>2. cur \in clients /\ cur \in ByAddr(a) /\ cur \in Rec
    BY <1>3, <2>1 DEF ByAddr
  <2>3. \A n \in barred' : n = s \/ cur.name # n
    BY <1>1, <2>2 DEF UsedBy
  <2>4. clients' = IF others = {} THEN (clients \ {cur}) \union {[cur EXCEPT !.name = s]}
                   ELSE (clients \ {cur, told}) \union {Merged(cur, told)}
    BY <1>1, <1>6 DEF SetName
  <2>5. CASE others = {}
    <3> DEFINE new == [cur EXCEPT !.name = s]
    <3>1. new \in Rec /\ new.name = s /\ new.banned = cur.banned
      BY <1>3, <2>2, RecordEdits, RecordKeeps
    <3> HIDE DEF cur, new
    <3>2. clients' = (clients \ {cur}) \union {new}
      BY <2>4, <2>5 DEF new
    <3>3. ASSUME NEW n \in barred' PROVE Bars(n)'
      <4>1. Bars(n)
        BY <1>3 DEF ClientsInv
      <4>2. CASE n = s
        <5>1. \A rec \in clients : rec.name = s => rec = cur
          BY <2>5 DEF ByName
        <5>2. cur.name = s /\ cur.banned
          BY <4>1, <4>2, <5>1 DEF Bars
        <5>3. QED
          BY <3>1, <3>2, <4>1, <4>2, <5>2 DEF Bars
      <4>3. CASE n # s
        BY <2>3, <3>1, <3>2, <4>1, <4>3 DEF Bars
      <4>4. QED
        BY <4>2, <4>3
    <3>4. clients' \subseteq Rec
      BY <1>3, <3>1, <3>2
    <3>5. QED
      BY <1>1, <1>3, <1>4, <3>3, <3>4 DEF ClientsInv, ClientsTypeOK
  <2>6. CASE others # {}
    <3>1. told \in others
      BY <2>6
    <3>2. told \in clients /\ told \in Rec /\ told.name = s /\ told # cur
      BY <1>3, <3>1 DEF ByName
    <3> DEFINE new == Merged(cur, told)
    <3>3. new \in Rec /\ new.name = s /\ new.banned = told.banned
      <4>1. new = [[told EXCEPT !.addr = cur.addr] EXCEPT !.connected = TRUE]
        BY <3>2 DEF Merged, Rec
      <4>2. cur.addr \in Addrs
        BY <2>2 DEF Rec
      <4> HIDE DEF told, cur, new
      <4>3. [told EXCEPT !.addr = cur.addr] \in Rec
        BY <3>2, <4>2, RecordEdits
      <4>4. [told EXCEPT !.addr = cur.addr].name = told.name /\ [told EXCEPT !.addr = cur.addr].banned = told.banned
        BY <3>2, RecordKeeps
      <4> DEFINE moved == [told EXCEPT !.addr = cur.addr]
      <4> HIDE DEF moved
      <4>5. moved \in Rec /\ moved.name = s /\ moved.banned = told.banned /\ new = [moved EXCEPT !.connected = TRUE]
        BY <3>2, <4>1, <4>3, <4>4 DEF moved
      <4>6. QED
        BY <4>5, RecordEdits, RecordKeeps
    <3> HIDE DEF cur, told, new
    <3>4. clients' = (clients \ {cur, told}) \union {new}
      BY <2>4, <2>6 DEF new
    <3>5. ASSUME NEW n \in barred' PROVE Bars(n)'
      <4>1. Bars(n)
        BY <1>3 DEF ClientsInv
      <4>2. QED
        BY <2>3, <3>2, <3>3, <3>4, <4>1 DEF Bars
    <3>6. clients' \subseteq Rec
      BY <1>3, <3>3, <3>4
    <3>7. QED
      BY <1>1, <1>3, <1>4, <3>5, <3>6 DEF ClientsInv, ClientsTypeOK
  <2>7. QED
    BY <2>5, <2>6
<1>7. QED
  BY <1>5, <1>6

LEMMA AuthorizeKeeps == ASSUME ClientsInv, NEW c \in Conns, Authorize(c) PROVE ClientsInv'
<1>1. PICK allowed \in BOOLEAN : conns' = [conns EXCEPT ![c].stage = IF allowed THEN "session" ELSE "refused"]
  BY DEF Authorize
<1>2. conns[c] \in Sess
  BY OpenIsSess DEF ClientsInv, Authorize
<1>3. conns' \in [Conns -> {ClosedConn} \union Sess]
  <2>1. conns' = [conns EXCEPT ![c] = [conns[c] EXCEPT !.stage = IF allowed THEN "session" ELSE "refused"]]
    BY <1>1, <1>2 DEF ClientsInv, ClientsTypeOK, Sess
  <2>2. QED
    BY <1>2, <2>1, SessionEdits DEF ClientsInv, ClientsTypeOK
<1>4. UNCHANGED <<clients, address, barred>>
  BY DEF Authorize
<1>5. QED
  BY <1>3, <1>4 DEF ClientsInv, ClientsTypeOK, Bars

LEMMA CloseKeeps == ASSUME ClientsInv, NEW c \in Conns, Close(c) PROVE ClientsInv'
<1> DEFINE a == conns[c].addr
           down(rec) == [rec EXCEPT !.connected = FALSE]
<1>1. conns' = [conns EXCEPT ![c] = ClosedConn] /\ clients' = MarkDisconnected(a) /\ UNCHANGED <<address, barred>>
  BY DEF Close
<1>2. conns' \in [Conns -> {ClosedConn} \union Sess] /\ clients \subseteq Rec
  BY <1>1 DEF ClientsInv, ClientsTypeOK
<1>3. clients' = (clients \ {rec \in ByAddr(a) : rec.connected}) \union {down(rec) : rec \in ByAddr(a)}
  BY <1>1 DEF MarkDisconnected, Replace
<1>4. \A rec \in Rec : down(rec) \in Rec /\ down(rec).name = rec.name /\ down(rec).banned = rec.banned
  BY RecordEdits, RecordKeeps
<1> HIDE DEF down, a
<1>5. ByAddr(a) \subseteq clients
  BY DEF ByAddr
<1>6. clients' \subseteq Rec
  BY <1>2, <1>3, <1>4, <1>5
<1>7. \A n : Holds(n)
  BY <1>2, <1>3, <1>4, <1>5, DerivedHolds
<1>8. \A n \in barred' : Bars(n)'
  BY <1>1, <1>7, KeptBars
<1>9. QED
  BY <1>1, <1>2, <1>6, <1>8 DEF ClientsInv, ClientsTypeOK

LEMMA RebootKeeps == ASSUME ClientsInv, Reboot PROVE ClientsInv'
<1> DEFINE down(rec) == [rec EXCEPT !.connected = FALSE]
<1>1. conns' = [c \in Conns |-> ClosedConn] /\ clients' = {down(rec) : rec \in clients} /\ UNCHANGED <<address, barred>>
  BY DEF Reboot, ResetConnected
<1>2. clients \subseteq Rec
  BY DEF ClientsInv, ClientsTypeOK
<1>3. \A rec \in Rec : down(rec) \in Rec /\ down(rec).name = rec.name /\ down(rec).banned = rec.banned
  BY RecordEdits, RecordKeeps
<1> HIDE DEF down
<1>4. clients' \subseteq Rec
  BY <1>1, <1>2, <1>3
<1>5. \A n : Holds(n)
  BY <1>1, <1>2, <1>3, DerivedHolds
<1>6. \A n \in barred' : Bars(n)'
  BY <1>1, <1>5, KeptBars
<1>7. QED
  BY <1>1, <1>4, <1>6 DEF ClientsInv, ClientsTypeOK

-----------------------------------------------------------------------------
(* The requests *)

LEMMA KeyOfName ==
  ASSUME ClientsConstants, ClientsTypeOK, NEW rec \in clients, NEW n \in Senders
  PROVE  Key(rec) = n <=> rec.name = n
BY DEF ClientsConstants, ClientsTypeOK, Rec, Key

LEMMA SetBannedKeeps ==
  ASSUME ClientsConstants, ClientsInv, NEW k, NEW b \in BOOLEAN, SetBanned(k, b)
  PROVE  ClientsInv'
<1> DEFINE ban(rec) == [rec EXCEPT !.banned = b]
<1>1. /\ clients' = (clients \ ByKey(k)) \union {ban(rec) : rec \in ByKey(k)} /\ ByKey(k) # {}
      /\ barred' = (IF b THEN barred \union ({k} \cap Senders) ELSE barred \ {k}) /\ UNCHANGED <<conns, address>>
  BY DEF SetBanned, Replace
<1>2. clients \subseteq Rec /\ ClientsTypeOK
  BY DEF ClientsInv, ClientsTypeOK
<1>3. \A rec \in Rec : ban(rec) \in Rec /\ ban(rec).name = rec.name /\ ban(rec).banned = b
  BY RecordEdits, RecordKeeps
<1> HIDE DEF ban
<1>4. ByKey(k) \subseteq clients
  BY DEF ByKey
<1>5. clients' \subseteq Rec /\ barred' \subseteq Senders
  BY <1>1, <1>2, <1>3, <1>4 DEF ClientsTypeOK
<1>6. ASSUME NEW n \in barred' PROVE Bars(n)'
  <2>1. n \in Senders
    BY <1>5
  <2>2. \A rec \in clients : rec \in ByKey(n) <=> rec.name = n
    BY <1>2, <2>1, KeyOfName DEF ByKey
  <2>3. CASE n = k
    <3>1. b
      BY <1>1, <2>3
    <3>2. \E rec \in ByKey(k) : ban(rec) \in clients' /\ ban(rec).name = n
      BY <1>1, <1>2, <1>3, <1>4, <2>2, <2>3
    <3>3. \A now \in clients' : now.name = n => now.banned
      BY <1>1, <1>2, <1>3, <1>4, <2>2, <2>3, <3>1
    <3>4. QED
      BY <3>2, <3>3 DEF Bars
  <2>4. CASE n # k
    <3>1. Bars(n)
      BY <1>1, <2>4 DEF ClientsInv
    <3>2. \A rec \in clients : rec.name = n => rec \notin ByKey(k)
      BY <2>2, <2>4 DEF ByKey
    <3>3. QED
      BY <1>1, <1>2, <1>3, <1>4, <3>1, <3>2 DEF Bars
  <2>5. QED
    BY <2>3, <2>4
<1>7. QED
  BY <1>1, <1>2, <1>5, <1>6 DEF ClientsInv, ClientsTypeOK

LEMMA SetPriorityKeeps ==
  ASSUME ClientsInv, NEW k, NEW p \in Priorities, SetPriority(k, p)
  PROVE  ClientsInv'
<1> DEFINE with(rec) == [rec EXCEPT !.priority = p]
<1>1. clients' = (clients \ ByKey(k)) \union {with(rec) : rec \in ByKey(k)} /\ UNCHANGED <<conns, address, barred>>
  BY DEF SetPriority, Replace
<1>2. clients \subseteq Rec
  BY DEF ClientsInv, ClientsTypeOK
<1>3. \A rec \in Rec : with(rec) \in Rec /\ with(rec).name = rec.name /\ with(rec).banned = rec.banned
  BY RecordEdits, RecordKeeps
<1> HIDE DEF with
<1>4. ByKey(k) \subseteq clients
  BY DEF ByKey
<1>5. clients' \subseteq Rec
  BY <1>1, <1>2, <1>3, <1>4
<1>6. \A n : Holds(n)
  BY <1>1, <1>2, <1>3, <1>4, DerivedHolds
<1>7. \A n \in barred' : Bars(n)'
  BY <1>1, <1>6, KeptBars
<1>8. QED
  BY <1>1, <1>5, <1>7 DEF ClientsInv, ClientsTypeOK

LEMMA ForgetKeeps ==
  ASSUME ClientsConstants, ClientsInv, NEW k, Forget(k)
  PROVE  ClientsInv'
<1>1. clients' = clients \ {rec \in ByKey(k) : ~rec.connected} /\ barred' = barred \ {k} /\ UNCHANGED <<conns, address>>
  BY DEF Forget
<1>2. ASSUME NEW n \in barred' PROVE Bars(n)'
  <2>1. n \in Senders /\ n # k /\ Bars(n)
    BY <1>1 DEF ClientsInv, ClientsTypeOK
  <2>2. \A rec \in clients : rec.name = n => rec \notin ByKey(k)
    BY <2>1, KeyOfName DEF ClientsInv, ByKey
  <2>3. QED
    BY <1>1, <2>1, <2>2 DEF Bars
<1>3. QED
  BY <1>1, <1>2 DEF ClientsInv, ClientsTypeOK

LEMMA DisconnectKeeps == ASSUME ClientsInv, NEW k, Disconnect(k) PROVE ClientsInv'
<1>1. PICK c \in Conns : Open(c) /\ conns' = [conns EXCEPT ![c].stage = "refused"]
  BY DEF Disconnect
<1>2. conns[c] \in Sess
  BY <1>1, OpenIsSess DEF ClientsInv, Open
<1>3. conns' \in [Conns -> {ClosedConn} \union Sess]
  <2>1. conns' = [conns EXCEPT ![c] = [conns[c] EXCEPT !.stage = "refused"]]
    BY <1>1, <1>2 DEF ClientsInv, ClientsTypeOK, Sess
  <2>2. QED
    BY <1>2, <2>1, SessionEdits DEF ClientsInv, ClientsTypeOK
<1>4. UNCHANGED <<clients, address, barred>>
  BY DEF Disconnect
<1>5. QED
  BY <1>3, <1>4 DEF ClientsInv, ClientsTypeOK, Bars

LEMMA MoveKeeps == ASSUME ClientsInv, NEW s \in Senders, NEW a \in Addrs, Move(s, a) PROVE ClientsInv'
BY DEF ClientsInv, ClientsTypeOK, Bars, Move

LEMMA OthersKeep ==
  ASSUME ClientsInv, SetPolicy \/ (\E c \in Conns : Metadata(c)) \/ UNCHANGED clientVars
  PROVE  ClientsInv'
BY DEF ClientsInv, ClientsTypeOK, Bars, SetPolicy, Metadata, clientVars

-----------------------------------------------------------------------------
(* Whoever gets a session was asked about. *)

LEMMA OnlyAuthorizeAdmits ==
  ASSUME ClientsTypeOK, [ClientsNext]_clientVars, NEW c \in Conns, conns[c].stage = "set up", conns'[c].stage = "session"
  PROVE  Authorize(c)
<1>1. conns[c] \in Sess
  BY OpenIsSess
<1>2. ASSUME NEW d \in Conns, NEW s \in Senders, Connect(d, s) PROVE FALSE
  <2>1. PICK open : open.stage = "open" /\ conns' = [conns EXCEPT ![d] = open]
    BY <1>2 DEF Connect
  <2>2. conns'[c] = IF c = d THEN open ELSE conns[c]
    BY <2>1 DEF ClientsTypeOK
  <2>3. QED
    BY <2>1, <2>2
<1>3. ASSUME NEW d \in Conns, NEW named \in BOOLEAN, SetUp(d, named) PROVE FALSE
  <2>1. conns[d] \in Sess
    BY <1>3, OpenIsSess DEF SetUp
  <2>2. conns' = [conns EXCEPT ![d] = [conns[d] EXCEPT !.stage = "set up", !.named = named]]
    BY <1>3, <2>1 DEF ClientsTypeOK, Sess, SetUp
  <2>3. QED
    BY <2>1, <2>2, SessionEdits DEF ClientsTypeOK
<1>4. ASSUME NEW d \in Conns, Authorize(d) PROVE Authorize(c)
  BY <1>4 DEF Authorize, ClientsTypeOK
<1>5. CASE (\E d \in Conns : Metadata(d) \/ Close(d)) \/ Reboot \/ SetPolicy \/ UNCHANGED clientVars
  <2>1. conns'[c] = conns[c] \/ conns'[c] = ClosedConn
    BY <1>5 DEF ClientsTypeOK, Metadata, Close, Reboot, SetPolicy, clientVars
  <2>2. ClosedConn.stage = "closed"
    BY DEF ClosedConn
  <2>3. QED
    BY <2>1, <2>2
<1>6. ASSUME NEW k, Disconnect(k) PROVE FALSE
  <2>1. PICK d \in Conns : Open(d) /\ conns' = [conns EXCEPT ![d].stage = "refused"]
    BY <1>6 DEF Disconnect
  <2>2. conns[d] \in Sess
    BY <2>1, OpenIsSess DEF Open
  <2>3. conns' = [conns EXCEPT ![d] = [conns[d] EXCEPT !.stage = "refused"]]
    BY <2>1, <2>2 DEF ClientsTypeOK, Sess
  <2>4. QED
    BY <2>2, <2>3, SessionEdits DEF ClientsTypeOK
<1>7. ASSUME NEW k, (\E b \in BOOLEAN : SetBanned(k, b)) \/ (\E p \in Priorities : SetPriority(k, p)) \/ Forget(k)
      PROVE FALSE
  BY <1>7 DEF SetBanned, SetPriority, Forget
<1>8. CASE \E s \in Senders, a \in Addrs : Move(s, a)
  BY <1>8 DEF Move
<1>9. QED
  BY <1>2, <1>3, <1>4, <1>5, <1>6, <1>7, <1>8 DEF ClientsNext

LEMMA AuthorizeTurnsAway ==
  ASSUME ClientsConstants, ClientsInv, NEW c \in Conns, Authorize(c), conns'[c].stage = "session", conns[c].named
  PROVE  conns[c].sender \notin barred
<1>1. conns[c] \in Sess
  BY OpenIsSess DEF ClientsInv, Authorize
<1>2. ~IsBanned(conns[c].addr, NameOf(c))
  <2>1. PICK allowed \in BOOLEAN : /\ conns' = [conns EXCEPT ![c].stage = IF allowed THEN "session" ELSE "refused"]
                                   /\ allowed => ~IsBanned(conns[c].addr, NameOf(c))
    BY DEF Authorize
  <2>2. allowed
    BY <1>1, <2>1 DEF ClientsInv, ClientsTypeOK, Sess
  <2>3. QED
    BY <2>1, <2>2
<1>3. NameOf(c) = conns[c].sender /\ conns[c].sender # Unnamed
  BY <1>1 DEF NameOf, Sess, ClientsConstants
<1>4. \A rec \in ByName(conns[c].sender) : ~rec.banned
  BY <1>2, <1>3 DEF IsBanned, Matching
<1>5. QED
  BY <1>4 DEF ClientsInv, Bars, ByName

LEMMA NextKeepsClients == ClientsConstants /\ ClientsInv /\ [ClientsNext]_clientVars => ClientsInv'
BY ConnectKeeps, SetUpKeeps, AuthorizeKeeps, CloseKeeps, RebootKeeps, SetBannedKeeps, SetPriorityKeeps, ForgetKeeps,
   DisconnectKeeps, MoveKeeps, OthersKeep DEF ClientsNext

\* A sender banned by its name gets no session when it tells its name, for any
\* senders, addresses and connections, and however often they connect, move,
\* are merged and the daemon restarts.
THEOREM ClientsBannedStayOut == ASSUME ClientsConstants PROVE ClientsSpec => BannedStayOut
<1>1. ClientsInit => ClientsInv
  BY InitClients
<1>2. ClientsInv /\ [ClientsNext]_clientVars => ClientsInv'
  BY NextKeepsClients
<1>3. ClientsInv /\ [ClientsNext]_clientVars => BannedGetsNone
  BY OnlyAuthorizeAdmits, AuthorizeTurnsAway DEF ClientsInv, BannedGetsNone
<1>4. ClientsInv /\ [ClientsNext]_clientVars => [BannedGetsNone]_clientVars
  BY <1>3
<1>5. QED
  BY <1>1, <1>2, <1>4, PTL DEF ClientsSpec, BannedStayOut

-----------------------------------------------------------------------------
(* The Spotify device *)
(***************************************************************************)
(* A device without a session shows neither user nor track: while nobody   *)
(* is active and every replaced session has said goodbye, either nothing   *)
(* is published and nothing queued, or the last event in the queue is a    *)
(* goodbye, which clears what the events before it bring back.             *)
(***************************************************************************)

Events == [kind : EventKinds, of : Nat]

DeviceTypeOK ==
  /\ stage \in {"running", "waiting", "shut"}
  /\ pendingLogin \in Nat /\ current \in Nat /\ session \in Nat /\ active \in BOOLEAN /\ replaced \subseteq Nat
  /\ events \in Seq(Events) /\ user \in Nat /\ error \in BOOLEAN
  /\ logins \in Nat /\ boots \in Nat

Goodbye == events # <<>> /\ events[Len(events)].kind = "disconnected"
Cleared == events = <<>> /\ user = Nobody /\ nowPlaying = NoRecord

\* Whatever the events bring back, a goodbye is still to come.
GoodbyeComes == stage # "shut" /\ ~active /\ replaced = {} => Cleared \/ Goodbye
Dialled ==
  /\ active => session # Nobody
  /\ pendingLogin # Nobody => session = Nobody /\ ~active
  /\ stage = "waiting" => boots > 0
Explained == session = Nobody /\ pendingLogin = Nobody /\ logins > 0 /\ boots = 0 /\ stage = "running" => error

DeviceInv == DeviceTypeOK /\ GoodbyeComes /\ Dialled /\ Explained

LEMMA NobodyIsNatural == Nobody \in Nat /\ Nobody = 0
BY DEF Nobody

LEMMA InitDevice == DeviceInit => DeviceInv
<1> SUFFICES ASSUME DeviceInit PROVE DeviceInv
  OBVIOUS
<1>1. DeviceTypeOK
  <2>1. active \in BOOLEAN /\ error \in BOOLEAN
    BY DEF DeviceInit
  <2>2. events \in Seq(Events) /\ replaced \subseteq Nat
    BY EmptySeq DEF DeviceInit
  <2>3. QED
    BY <2>1, <2>2, NobodyIsNatural DEF DeviceInit, DeviceTypeOK
<1>2. GoodbyeComes /\ Dialled /\ Explained
  BY DEF DeviceInit, GoodbyeComes, Dialled, Explained, Cleared
<1>3. QED
  BY <1>1, <1>2 DEF DeviceInv

LEMMA Appended ==
  ASSUME NEW s \in Seq(Events), NEW kind \in EventKinds, NEW l \in Nat
  PROVE  /\ Append(s, Event(kind, l)) \in Seq(Events) /\ Append(s, Event(kind, l)) # <<>>
         /\ Append(s, Event(kind, l))[Len(Append(s, Event(kind, l)))].kind = kind
<1>1. Event(kind, l) \in Events /\ Event(kind, l).kind = kind
  BY DEF Event, Events
<1>2. QED
  BY <1>1

LEMMA LoginKeeps ==
  ASSUME DeviceInv, Login
  PROVE  DeviceInv'
<1>1. /\ session' = Nobody /\ active' = FALSE /\ user' = Nobody /\ error' = FALSE /\ nowPlaying' = NoRecord
      /\ replaced' = (IF active THEN replaced \union {session} ELSE replaced)
      /\ logins' = logins + 1 /\ pendingLogin' = logins + 1
      /\ UNCHANGED <<stage, current, events, boots>>
  BY DEF Login, EndSession
<1>2. DeviceTypeOK'
  <2>1. replaced' \subseteq Nat /\ active' \in BOOLEAN /\ error' \in BOOLEAN
    BY <1>1 DEF DeviceInv, DeviceTypeOK
  <2>2. QED
    BY <1>1, <2>1, NobodyIsNatural DEF DeviceInv, DeviceTypeOK
<1>3. GoodbyeComes'
  BY <1>1 DEF DeviceInv, DeviceTypeOK, GoodbyeComes, Cleared, Goodbye
<1>4. Dialled' /\ Explained'
  BY <1>1 DEF DeviceInv, DeviceTypeOK, Dialled, Explained, Nobody
<1>5. QED
  BY <1>2, <1>3, <1>4 DEF DeviceInv

LEMMA DialKeeps ==
  ASSUME DeviceInv, Dial
  PROVE  DeviceInv'
<1>1. /\ pendingLogin # Nobody /\ pendingLogin' = Nobody
      /\ \/ session' = pendingLogin /\ current' = pendingLogin /\ error' = FALSE
         \/ session' = session /\ current' = Nobody /\ error' = TRUE
      /\ UNCHANGED <<stage, active, replaced, events, user, nowPlaying, logins, boots>>
  BY DEF Dial
<1>2. DeviceTypeOK'
  <2>1. error' \in BOOLEAN
    BY <1>1
  <2>2. QED
    BY <1>1, <2>1, NobodyIsNatural DEF DeviceInv, DeviceTypeOK
<1>3. GoodbyeComes'
  BY <1>1 DEF DeviceInv, DeviceTypeOK, GoodbyeComes, Cleared, Goodbye
<1>4. Dialled' /\ Explained'
  BY <1>1 DEF DeviceInv, DeviceTypeOK, Dialled, Explained, Nobody
<1>5. QED
  BY <1>2, <1>3, <1>4 DEF DeviceInv

LEMMA DropKeeps ==
  ASSUME DeviceInv, Drop
  PROVE  DeviceInv'
<1>1. /\ session # Nobody /\ session' = Nobody /\ active' = FALSE
      /\ events' = (IF active THEN Append(events, Event("disconnected", session)) ELSE events)
      /\ UNCHANGED <<stage, replaced, logins, boots>>
  BY DEF Drop
<1>2. \/ pendingLogin' = current /\ current # Nobody /\ UNCHANGED <<current, user, error, nowPlaying>>
      \/ pendingLogin' = Nobody /\ current' = Nobody /\ user' = Nobody /\ nowPlaying' = NoRecord /\ error' = TRUE
  BY DEF Drop, Redial, GiveUp, published
<1>3. "disconnected" \in EventKinds /\ events \in Seq(Events) /\ session \in Nat
  BY DEF EventKinds, DeviceInv, DeviceTypeOK
<1>4. events' \in Seq(Events) /\ (active => Goodbye')
  BY <1>1, <1>3, Appended DEF Goodbye
<1>5. DeviceTypeOK'
  <2>1. error' \in BOOLEAN /\ active' \in BOOLEAN
    BY <1>1, <1>2 DEF DeviceInv, DeviceTypeOK
  <2>2. pendingLogin' \in Nat /\ current' \in Nat /\ user' \in Nat /\ session' \in Nat
    BY <1>1, <1>2, NobodyIsNatural DEF DeviceInv, DeviceTypeOK
  <2>3. QED
    BY <1>1, <1>4, <2>1, <2>2 DEF DeviceInv, DeviceTypeOK
<1>6. GoodbyeComes'
  BY <1>1, <1>2, <1>4 DEF DeviceInv, DeviceTypeOK, GoodbyeComes, Cleared, Goodbye
<1>7. Dialled' /\ Explained'
  BY <1>1, <1>2 DEF DeviceInv, DeviceTypeOK, Dialled, Explained, Nobody
<1>8. QED
  BY <1>5, <1>6, <1>7 DEF DeviceInv

\* What is received is the first of the events; the last of several stays the last.
LEMMA LastIsLast ==
  ASSUME NEW S, NEW s \in Seq(S), Len(s) > 1
  PROVE  Tail(s) # <<>> /\ Len(Tail(s)) = Len(s) - 1 /\ Tail(s)[Len(Tail(s))] = s[Len(s)]
<1>1. Len(s) \in Nat /\ s # <<>>
  OBVIOUS
<1>2. /\ Len(Tail(s)) = Len(s) - 1 /\ Tail(s) \in Seq(S)
      /\ \A n \in 1..Len(Tail(s)) : Tail(s)[n] = s[n + 1]
  BY <1>1, HeadTailProperties
<1>3. PICK k \in Nat : k = Len(s)
  BY <1>1
<1>4. k > 1
  BY <1>3
<1>5. k - 1 \in 1..k - 1 /\ (k - 1) + 1 = k /\ k - 1 # 0
  BY ONLY <1>4, k \in Nat
<1>6. Tail(s)[k - 1] = s[k] /\ Tail(s) # <<>>
  BY <1>2, <1>3, <1>5
<1>7. QED
  BY <1>2, <1>3, <1>6

LEMMA ReceiveKeeps ==
  ASSUME DeviceInv, Receive
  PROVE  DeviceInv'
<1>1. /\ events # <<>> /\ events' = Tail(events) /\ OnEvent(Head(events))
      /\ UNCHANGED <<stage, pendingLogin, current, session, active, replaced, error, logins, boots>>
  BY DEF Receive, spirc, bounds
<1>2. events \in Seq(Events) /\ Head(events) \in Events /\ Head(events) = events[1]
  BY <1>1 DEF DeviceInv, DeviceTypeOK
<1>3. user' \in Nat
  BY <1>1, <1>2 DEF OnEvent, Events, DeviceInv, DeviceTypeOK, Nobody
<1>4. DeviceTypeOK'
  BY <1>1, <1>2, <1>3 DEF DeviceInv, DeviceTypeOK
<1>5. GoodbyeComes'
  <2> SUFFICES ASSUME stage # "shut", ~active, replaced = {} PROVE (Cleared \/ Goodbye)'
    BY <1>1 DEF GoodbyeComes
  <2>1. Goodbye
    BY <1>1 DEF DeviceInv, GoodbyeComes, Cleared
  <2>2. CASE Len(events) = 1
    <3>1. events' = <<>> /\ Head(events).kind = "disconnected"
      BY <1>1, <1>2, <2>1, <2>2 DEF Goodbye
    <3>2. user' = Nobody /\ nowPlaying' = NoRecord
      BY <1>1, <3>1 DEF OnEvent
    <3>3. QED
      BY <3>1, <3>2 DEF Cleared
  <2>3. CASE Len(events) > 1
    <3>1. events' # <<>> /\ Len(events') = Len(events) - 1 /\ events'[Len(events')] = events[Len(events)]
      BY ONLY <1>1, <1>2, <2>3, LastIsLast
    <3>2. QED
      BY <2>1, <3>1 DEF Goodbye
  <2>4. Len(events) = 1 \/ Len(events) > 1
    <3>1. Len(events) \in Nat \ {0}
      BY <1>1, <1>2, EmptySeq
    <3>2. \A n \in Nat \ {0} : n = 1 \/ n > 1
      OBVIOUS
    <3>3. QED
      BY <3>1, <3>2
  <2>5. QED
    BY <2>2, <2>3, <2>4
<1>6. Dialled' /\ Explained'
  BY <1>1 DEF DeviceInv, DeviceTypeOK, Dialled, Explained
<1>7. QED
  BY <1>4, <1>5, <1>6 DEF DeviceInv

LEMMA StopsKeep ==
  ASSUME DeviceInv, Fails \/ ComesBack \/ Shutdown \/ WindowPasses
  PROVE  DeviceInv'
<1>1. CASE Fails
  <2>1. DeviceTypeOK'
    <3>1. events' \in Seq(Events) /\ boots' \in Nat /\ logins' \in Nat
      BY <1>1 DEF Fails, DeviceInv, DeviceTypeOK
    <3>2. QED
      BY <1>1, <3>1, NobodyIsNatural DEF Fails, DeviceTypeOK
  <2>2. GoodbyeComes' /\ Dialled' /\ Explained'
    BY <1>1 DEF Fails, DeviceInv, DeviceTypeOK, GoodbyeComes, Cleared, Dialled, Explained, Nobody
  <2>3. QED
    BY <2>1, <2>2 DEF DeviceInv
<1>2. CASE ComesBack
  BY <1>2 DEF ComesBack, spirc, published, bounds, DeviceInv, DeviceTypeOK, GoodbyeComes, Cleared, Goodbye, Dialled, Explained
<1>3. CASE Shutdown
  <2>1. DeviceTypeOK'
    <3>1. events' \in Seq(Events) /\ boots' \in Nat /\ logins' \in Nat /\ user' \in Nat /\ error' \in BOOLEAN
      BY <1>3 DEF Shutdown, bounds, DeviceInv, DeviceTypeOK
    <3>2. QED
      BY <1>3, <3>1, NobodyIsNatural DEF Shutdown, DeviceTypeOK
  <2>2. GoodbyeComes' /\ Dialled' /\ Explained'
    BY <1>3 DEF Shutdown, bounds, DeviceInv, DeviceTypeOK, GoodbyeComes, Dialled, Explained, Nobody
  <2>3. QED
    BY <2>1, <2>2 DEF DeviceInv
<1>4. CASE WindowPasses
  BY <1>4 DEF WindowPasses, spirc, published, bounds, DeviceInv, DeviceTypeOK, GoodbyeComes, Cleared, Goodbye, Dialled, Explained
<1>5. QED
  BY <1>1, <1>2, <1>3, <1>4

LEMMA SessionKeeps ==
  ASSUME DeviceInv, Activate \/ Play \/ \E l \in Logins : SaysGoodbye(l)
  PROVE  DeviceInv'
<1>1. events \in Seq(Events) /\ session \in Nat /\ {"connected", "track", "position", "stopped", "disconnected"} \subseteq EventKinds
  BY DEF EventKinds, DeviceInv, DeviceTypeOK
<1>2. CASE Activate
  <2>1. events' \in Seq(Events)
    BY <1>1, <1>2, Appended DEF Activate
  <2>2. QED
    BY <1>2, <2>1 DEF Activate, published, bounds, DeviceInv, DeviceTypeOK, GoodbyeComes, Dialled, Explained
<1>3. CASE Play
  <2>1. events' \in Seq(Events)
    BY <1>1, <1>3, Appended DEF Play
  <2>2. QED
    BY <1>3, <2>1 DEF Play, spirc, published, DeviceInv, DeviceTypeOK, GoodbyeComes, Dialled, Explained
<1>4. CASE \E l \in Logins : SaysGoodbye(l)
  <2> PICK l \in Logins : SaysGoodbye(l)
    BY <1>4
  <2>1. l \in Nat
    BY DEF SaysGoodbye, DeviceInv, DeviceTypeOK
  <2>2. events' \in Seq(Events) /\ Goodbye'
    BY <1>1, <2>1, Appended DEF SaysGoodbye, Goodbye
  <2>3. QED
    BY <2>2 DEF SaysGoodbye, spirc, published, bounds, DeviceInv, DeviceTypeOK, GoodbyeComes, Dialled, Explained
<1>5. QED
  BY <1>2, <1>3, <1>4

LEMMA DeviceStep == DeviceInv /\ [DeviceNext]_deviceVars => DeviceInv'
<1> SUFFICES ASSUME DeviceInv, [DeviceNext]_deviceVars PROVE DeviceInv'
  OBVIOUS
<1>1. CASE UNCHANGED deviceVars
  BY <1>1 DEF deviceVars, DeviceInv, DeviceTypeOK, GoodbyeComes, Cleared, Goodbye, Dialled, Explained
<1>2. QED
  BY <1>1, LoginKeeps, DialKeeps, DropKeeps, ReceiveKeeps, StopsKeep, SessionKeeps DEF DeviceNext

\* A Spotify device without a session, and with none to dial, names no user and shows no track once its
\* events are read, and says why after a login (device_task, sources/spotify.rs).
THEOREM SpotifyIdleLeavesNothing == DeviceSpec => []IdleLeavesNothing
<1>1. DeviceInv => IdleLeavesNothing
  BY DEF DeviceInv, DeviceTypeOK, GoodbyeComes, Cleared, Goodbye, Dialled, Explained, IdleLeavesNothing, AtRest, Still
<1>2. QED
  BY <1>1, InitDevice, DeviceStep, PTL DEF DeviceSpec

=============================================================================
