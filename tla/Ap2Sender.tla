------------------------------- MODULE Ap2Sender -------------------------------
(***************************************************************************)
(* outputs/ap2/server.rs and volume.rs: the task that drives a group's     *)
(* AirPlay 2 receivers, and the registry through which the rest of the     *)
(* daemon reaches it.  The reconciler starts a task, and later drops its   *)
(* handle and starts the next one without waiting: for a while two of them *)
(* run, and both write to the registry by the receiver's name.             *)
(*                                                                         *)
(* A task is busy in one await at a time; what it does next is its stage.  *)
(***************************************************************************)
EXTENDS Naturals, Sequences, FiniteSets

CONSTANTS
  Receivers,
  Levels,       \* volumes a user or a receiver may choose
  NoLevel,      \* not known
  Depth,        \* AP2_CMD_DEPTH
  MaxTasks,     \* bound: tasks started in one behaviour
  MaxEvents     \* bound: connects that fail, sessions that break, commands of the user and
                \* turns of a receiver's own knob

Ap2SenderAssumption == Depth \in Nat \ {0} /\ MaxTasks \in Nat /\ 0 \notin Receivers

Tasks == 1..MaxTasks

VARIABLES
  \* a task
  stage,      \* "unused", "connect", "attach", "read", "stream", "close", "done"
  target,     \* the receiver its connect or attach is about; 0 between them
  todo,       \* receivers it has not tried yet
  conns,      \* receivers it holds a connection to
  dropped,    \* its handle is dropped: the shutdown signal is there
  ending,     \* it has seen the signal while connecting
  deferred,   \* reconnects asked for while it was connecting
  queue,      \* its command channel
  missed,     \* receivers whose last keepalive failed
  fast,       \* it runs at 48 kHz
  \* Ap2Control
  registered, \* receiver -> the task whose channel is registered, 0 for none
  desired, userSet, muted,
  capped,     \* receivers limited to 44.1 kHz
  \* receivers
  session,    \* the task whose session a receiver holds, 0 for none: it takes one
  level,      \* the volume it plays at
  chosen,     \* the last level the daemon was told of: by the user, or by the knob
  newest,     \* the last task started
  events

taskVars    == <<stage, target, todo, conns, dropped, ending, deferred, queue, missed, fast>>
controlVars == <<registered, desired, userSet, muted, capped>>
deviceVars  == <<session, level, chosen>>
ap2Vars == <<taskVars, controlVars, deviceVars, newest, events>>

-----------------------------------------------------------------------------
(* Ap2Control. *)

Effective(r) == IF r \in muted \/ desired[r] = NoLevel THEN 0 ELSE desired[r]

SetVolume(r, v) == [cmd |-> "volume", to |-> r, level |-> v]
Reconnect(r)    == [cmd |-> "reconnect", to |-> r]

\* try_queue(): never waits; a full channel or a gone task loses the command.
Accepts(g) == g # 0 /\ stage[g] # "done" /\ Len(queue[g]) < Depth
TryQueue(r, c) ==
  queue' = IF Accepts(registered[r]) THEN [queue EXCEPT ![registered[r]] = Append(@, c)] ELSE queue

\* register(): a level the user has set is applied again.
Register(g, r) ==
  /\ registered' = [registered EXCEPT ![r] = g]
  /\ queue' = IF r \in userSet /\ Len(queue[g]) < Depth
              THEN [queue EXCEPT ![g] = Append(@, SetVolume(r, Effective(r)))] ELSE queue

Event == events < MaxEvents /\ events' = events + 1

Unregistered(S) == [r \in Receivers |-> IF r \in S THEN 0 ELSE registered[r]]

\* note_reported_volume(): ignored while muted.
Reported(r, v) == IF r \in muted THEN desired ELSE [desired EXCEPT ![r] = v]

-----------------------------------------------------------------------------
Ap2Init ==
  /\ stage = [g \in Tasks |-> "unused"] /\ target = [g \in Tasks |-> 0]
  /\ todo = [g \in Tasks |-> {}] /\ conns = [g \in Tasks |-> {}]
  /\ dropped = [g \in Tasks |-> FALSE] /\ ending = [g \in Tasks |-> FALSE]
  /\ deferred = [g \in Tasks |-> {}] /\ queue = [g \in Tasks |-> <<>>]
  /\ missed = [g \in Tasks |-> {}] /\ fast = [g \in Tasks |-> FALSE]
  /\ registered = [r \in Receivers |-> 0] /\ desired = [r \in Receivers |-> NoLevel]
  /\ userSet = {} /\ muted = {} /\ capped = {}
  /\ session = [r \in Receivers |-> 0]
  /\ level \in [Receivers -> Levels] /\ chosen = [r \in Receivers |-> NoLevel]
  /\ newest = 0 /\ events = 0

\* The reconciler drops the old handle and starts the next task.
StartSenders(members) ==
  /\ newest < MaxTasks /\ newest' = newest + 1
  /\ stage' = [stage EXCEPT ![newest + 1] = "connect"]
  /\ todo' = [todo EXCEPT ![newest + 1] = members]
  /\ fast' = [fast EXCEPT ![newest + 1] = members \cap capped = {}]
  /\ dropped' = [g \in Tasks |-> dropped[g] \/ g <= newest]
  /\ UNCHANGED <<target, conns, ending, deferred, queue, missed, controlVars, deviceVars,
                 events>>

-----------------------------------------------------------------------------
(* Connecting: one receiver after the other, commands served meanwhile. *)

ConnectNext(g, r) ==
  /\ stage[g] = "connect" /\ target[g] = 0 /\ ~ending[g] /\ r \in todo[g]
  /\ target' = [target EXCEPT ![g] = r] /\ todo' = [todo EXCEPT ![g] = @ \ {r}]
  /\ UNCHANGED <<stage, conns, dropped, ending, deferred, queue, missed, fast, controlVars,
                 deviceVars, newest, events>>

\* A receiver takes one session; the connect is not abandoned when the task must end.
Connected(g, r) ==
  /\ stage[g] \in {"connect", "reconnect"} /\ target[g] = r /\ session[r] = 0
  /\ session' = [session EXCEPT ![r] = g]
  /\ stage' = [stage EXCEPT ![g] = IF @ = "connect" THEN "attach" ELSE "reattach"]
  /\ UNCHANGED <<target, todo, conns, dropped, ending, deferred, queue, missed, fast,
                 controlVars, level, chosen, newest, events>>

\* Both attempts fail; refused at SETUP, a 48 kHz stream caps the receiver's rate.
ConnectFails(g, r) ==
  /\ stage[g] \in {"connect", "reconnect"} /\ target[g] = r
  /\ \/ session[r] # 0 /\ UNCHANGED <<events, capped>>
     \/ /\ Event
        /\ \E atSetup \in BOOLEAN :
             capped' = IF stage[g] = "connect" /\ fast[g] /\ atSetup THEN capped \cup {r} ELSE capped
  /\ target' = [target EXCEPT ![g] = 0]
  /\ stage' = [stage EXCEPT ![g] = IF @ = "connect" THEN @ ELSE "stream"]
  /\ UNCHANGED <<todo, conns, dropped, ending, deferred, queue, missed, fast, registered,
                 desired, userSet, muted, deviceVars, newest>>

\* attach_member(): the channel is registered, then the receiver's volume is read.
AttachRegister(g, r) ==
  /\ stage[g] \in {"attach", "reattach"} /\ target[g] = r
  /\ Register(g, r)
  /\ stage' = [stage EXCEPT ![g] = IF @ = "attach" THEN "read" ELSE "reread"]
  /\ UNCHANGED <<target, todo, conns, dropped, ending, deferred, missed, fast, desired,
                 userSet, muted, capped, deviceVars, newest, events>>

AttachRead(g, r) ==
  /\ stage[g] \in {"read", "reread"} /\ target[g] = r
  /\ \E answers \in BOOLEAN : desired' = IF answers THEN Reported(r, level[r]) ELSE desired
  /\ stage' = [stage EXCEPT ![g] = IF @ = "read" THEN "connect" ELSE "stream"]
  /\ conns' = [conns EXCEPT ![g] = @ \cup {r}] /\ target' = [target EXCEPT ![g] = 0]
  /\ UNCHANGED <<todo, dropped, ending, deferred, queue, missed, fast, registered,
                 userSet, muted, capped, deviceVars, newest, events>>

SeeShutdown(g) ==
  /\ stage[g] = "connect" /\ target[g] # 0 /\ dropped[g] /\ ~ending[g]
  /\ ending' = [ending EXCEPT ![g] = TRUE]
  /\ UNCHANGED <<stage, target, todo, conns, dropped, deferred, queue, missed, fast,
                 controlVars, deviceVars, newest, events>>

\* Every receiver tried, or the signal seen: stream, or close at once.
EndConnecting(g) ==
  /\ stage[g] = "connect" /\ target[g] = 0 /\ (todo[g] = {} \/ ending[g])
  /\ stage' = [stage EXCEPT ![g] = IF ending[g] THEN "close" ELSE "stream"]
  /\ UNCHANGED <<target, todo, conns, dropped, ending, deferred, queue, missed, fast,
                 controlVars, deviceVars, newest, events>>

-----------------------------------------------------------------------------
(* Streaming: keepalives, commands, the shutdown signal. *)

\* detach_member(): the connection goes, and the registration with it.
Detach(g, r) ==
  /\ conns' = [conns EXCEPT ![g] = @ \ {r}]
  /\ session' = [session EXCEPT ![r] = IF @ = g THEN 0 ELSE @]
  /\ registered' = Unregistered({r})

BeginReconnect(g, r) ==
  /\ Detach(g, r)
  /\ stage' = [stage EXCEPT ![g] = "reconnect"] /\ target' = [target EXCEPT ![g] = r]
  /\ missed' = [missed EXCEPT ![g] = @ \ {r}]

RunDeferred(g, r) ==
  /\ stage[g] = "stream" /\ r \in deferred[g]
  /\ deferred' = [deferred EXCEPT ![g] = @ \ {r}]
  /\ BeginReconnect(g, r)
  /\ UNCHANGED <<todo, dropped, ending, queue, fast, desired, userSet, muted, capped,
                 level, chosen, newest, events>>

Streaming(g) == stage[g] = "stream" /\ deferred[g] = {}

\* Two keepalives in a row fail: a 48 kHz stream is capped, any other one rebuilt.  A
\* session that is there may miss one as well.
FeedbackRound(g, r) ==
  /\ Streaming(g) /\ r \in conns[g]
  /\ \/ /\ session[r] = g /\ r \in missed[g]
        /\ missed' = [missed EXCEPT ![g] = @ \ {r}]
        /\ UNCHANGED <<stage, target, conns, registered, session, capped, events>>
     \/ /\ IF session[r] = g THEN Event ELSE UNCHANGED events
        /\ IF r \notin missed[g]
           THEN /\ missed' = [missed EXCEPT ![g] = @ \cup {r}]
                /\ UNCHANGED <<stage, target, conns, registered, session, capped>>
           ELSE IF fast[g]
           THEN /\ capped' = capped \cup {r} /\ missed' = [missed EXCEPT ![g] = @ \ {r}]
                /\ UNCHANGED <<stage, target, conns, registered, session>>
           ELSE BeginReconnect(g, r) /\ UNCHANGED capped
  /\ UNCHANGED <<todo, dropped, ending, deferred, queue, fast, desired, userSet, muted,
                 level, chosen, newest>>

\* apply_command(): a command for a receiver it has no connection to is lost.
Command(g) ==
  LET c == Head(queue[g])
  IN /\ queue[g] # <<>> /\ (Streaming(g) \/ (stage[g] = "connect" /\ target[g] # 0))
     /\ queue' = [queue EXCEPT ![g] = Tail(@)]
     /\ CASE c.cmd = "volume" ->
               /\ level' = IF c.to \in conns[g] /\ session[c.to] = g
                           THEN [level EXCEPT ![c.to] = c.level] ELSE level
               /\ UNCHANGED <<stage, target, conns, missed, deferred, registered, session>>
          [] c.cmd = "reconnect" /\ stage[g] = "connect" ->
               /\ deferred' = [deferred EXCEPT ![g] = @ \cup {c.to}]
               /\ UNCHANGED <<stage, target, conns, missed, registered, session, level>>
          [] c.cmd = "reconnect" /\ stage[g] = "stream" ->
               BeginReconnect(g, c.to) /\ UNCHANGED <<deferred, level>>
     /\ UNCHANGED <<todo, dropped, ending, fast, desired, userSet, muted, capped, chosen,
                    newest, events>>

\* Faulty: a task that has no receiver left waits for one.
CloseConnected(g) ==
  /\ Streaming(g) /\ dropped[g] /\ conns[g] # {}
  /\ stage' = [stage EXCEPT ![g] = "close"]
  /\ UNCHANGED <<target, todo, conns, dropped, ending, deferred, queue, missed, fast,
                 controlVars, deviceVars, newest, events>>

Close(g) ==
  /\ Streaming(g) /\ dropped[g]
  /\ stage' = [stage EXCEPT ![g] = "close"]
  /\ UNCHANGED <<target, todo, conns, dropped, ending, deferred, queue, missed, fast,
                 controlVars, deviceVars, newest, events>>

Teardown(g, r) ==
  /\ stage[g] = "close" /\ r \in conns[g] /\ Detach(g, r)
  /\ UNCHANGED <<stage, target, todo, dropped, ending, deferred, queue, missed, fast,
                 desired, userSet, muted, capped, level, chosen, newest, events>>

Done(g) ==
  /\ stage[g] = "close" /\ conns[g] = {}
  /\ stage' = [stage EXCEPT ![g] = "done"] /\ queue' = [queue EXCEPT ![g] = <<>>]
  /\ UNCHANGED <<target, todo, conns, dropped, ending, deferred, missed, fast, controlVars,
                 deviceVars, newest, events>>

-----------------------------------------------------------------------------
(* The user, the watchdog and the receivers. *)

Touch == Event /\ UNCHANGED newest

UserSets(r, v) ==
  /\ Touch
  /\ userSet' = userSet \cup {r} /\ desired' = [desired EXCEPT ![r] = v]
  /\ chosen' = [chosen EXCEPT ![r] = v]
  /\ IF r \in muted THEN UNCHANGED queue ELSE TryQueue(r, SetVolume(r, v))
  /\ UNCHANGED <<stage, target, todo, conns, dropped, ending, deferred, missed, fast,
                 registered, muted, capped, session, level>>

UserMutes(r) ==
  /\ Touch
  /\ muted' = IF r \in muted THEN muted \ {r} ELSE muted \cup {r}
  /\ TryQueue(r, SetVolume(r, IF r \in muted' \/ desired[r] = NoLevel THEN 0 ELSE desired[r]))
  /\ UNCHANGED <<stage, target, todo, conns, dropped, ending, deferred, missed, fast,
                 registered, desired, userSet, capped, deviceVars>>

\* The receiver's own knob: while it streams, unmuted, the daemon hears of it.
KnobTurns(r, v) ==
  LET heard == r \notin muted /\ \E g \in Tasks : r \in conns[g] /\ session[r] = g
  IN /\ Touch /\ level' = [level EXCEPT ![r] = v]
     /\ chosen' = IF heard THEN [chosen EXCEPT ![r] = v] ELSE chosen
     /\ desired' = IF heard THEN [desired EXCEPT ![r] = v] ELSE desired
     /\ UNCHANGED <<taskVars, registered, userSet, muted, capped, session>>

\* The clock watchdog of liveness.rs.
AskReconnect(r) ==
  /\ Touch /\ TryQueue(r, Reconnect(r)) /\ registered[r] # 0
  /\ UNCHANGED <<stage, target, todo, conns, dropped, ending, deferred, missed, fast,
                 controlVars, deviceVars>>

SessionBreaks(r) ==
  /\ Event /\ session[r] # 0
  /\ session' = [session EXCEPT ![r] = 0]
  /\ UNCHANGED <<taskVars, controlVars, level, chosen, newest>>

-----------------------------------------------------------------------------
TaskStep(g) ==
  \/ SeeShutdown(g) \/ EndConnecting(g) \/ Command(g) \/ Close(g) \/ Done(g)
  \/ \E r \in Receivers :
       \/ ConnectNext(g, r) \/ Connected(g, r) \/ ConnectFails(g, r)
       \/ AttachRegister(g, r) \/ AttachRead(g, r)
       \/ RunDeferred(g, r) \/ FeedbackRound(g, r) \/ Teardown(g, r)

Ap2Around ==
  \/ \E members \in (SUBSET Receivers) \ {{}} : StartSenders(members)
  \/ \E r \in Receivers : \/ \E v \in Levels : UserSets(r, v) \/ KnobTurns(r, v)
                          \/ UserMutes(r) \/ AskReconnect(r) \/ SessionBreaks(r)

Ap2Next == Ap2Around \/ \E g \in Tasks : TaskStep(g)

\* Every await of a task is bounded by a timeout, and its select!, which draws among the
\* ready branches, takes each of them in the end: a command, a drop of its handle.
Ap2Fairness == \A g \in Tasks : /\ WF_ap2Vars(TaskStep(g))
                               /\ SF_ap2Vars(Close(g)) /\ SF_ap2Vars(Command(g))

Ap2Spec == Ap2Init /\ [][Ap2Next]_ap2Vars /\ Ap2Fairness

-----------------------------------------------------------------------------
(* Properties. *)

\* A task whose handle is dropped ends and gives its receivers back, whatever it was
\* waiting for: the one that replaces it is refused by every receiver until then.
GivenBack(g) == stage[g] = "done" /\ \A r \in Receivers : session[r] # g
TasksEnd == \A g \in Tasks : dropped[g] ~> GivenBack(g)

=============================================================================
