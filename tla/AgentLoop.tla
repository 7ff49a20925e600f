------------------------------- MODULE AgentLoop --------------------------------
(***************************************************************************)
(* pwrouter-agent/src/client.rs and sleep.rs: how an agent finds the       *)
(* daemon, pairs, keeps one session, and leaves before its host sleeps.    *)
(*                                                                         *)
(* A wait is counted in doublings of BACKOFF_START.  What a session does to*)
(* the host's audio is HostAudio's.                                        *)
(***************************************************************************)
EXTENDS Naturals, Sequences

CONSTANTS
  Places,       \* addresses the daemon may have
  Nowhere,      \* no address remembered
  EventDepth,   \* sleep.rs EVENT_DEPTH
  MaxBackoff,   \* doublings up to BACKOFF_MAX
  MaxEvents     \* bound on what daemon, user and machine do

VARIABLES
  phase,        \* "find", "connect", "session", "wait" or "asleep"
  addr, token,  \* config: the daemon's address; whether a pairing token is held
  welcomed,     \* the session was welcomed, or waits for the user's approval
  backoff,
  answer,       \* what the daemon has sent and the agent has not handled
  up,           \* the daemon's end of the session's socket is alive
  place, daemon, honours,      \* where the daemon is, whether it runs, takes the token
  machine,      \* "awake", "going" to sleep, "frozen"
  inhibitor,    \* the delay inhibitor is held
  signals,      \* logind's, not yet handled by the sleep task
  sent,         \* the sleep task has queued its event, and holds the inhibitor still
  sleepQ,       \* events on their way to the client
  happened

configVars == <<addr, token>>
loopVars   == <<phase, configVars, welcomed, backoff, answer>>
daemonVars == <<place, daemon, honours, up>>
sleepVars  == <<machine, inhibitor, signals, sent, sleepQ>>
agentLoopVars == <<loopVars, daemonVars, sleepVars, happened>>

Awake == machine # "frozen"
Happens == happened < MaxEvents /\ happened' = happened + 1
Doubled == IF backoff = MaxBackoff THEN backoff ELSE backoff + 1

AgentLoopInit ==
  /\ phase = "find" /\ token \in BOOLEAN /\ welcomed = FALSE /\ backoff = 0 /\ answer = "none"
  /\ addr \in Places \cup {Nowhere} /\ place \in Places /\ daemon \in BOOLEAN /\ honours = token
  /\ up = FALSE
  /\ machine = "awake" /\ inhibitor = TRUE /\ signals = <<>> /\ sent = FALSE /\ sleepQ = <<>>
  /\ happened = 0

-----------------------------------------------------------------------------
(* run(): find, connect, wait. *)

\* daemon_address(): the remembered address before mDNS.
FindDaemon ==
  /\ phase = "find" /\ Awake
  /\ IF addr = Nowhere /\ ~daemon
     THEN backoff' = Doubled /\ UNCHANGED <<phase, addr>>
     ELSE /\ addr' = (IF addr = Nowhere THEN place ELSE addr) /\ phase' = "connect"
          /\ UNCHANGED backoff
  /\ UNCHANGED <<token, welcomed, answer, daemonVars, sleepVars, happened>>

Reached == daemon /\ addr = place

\* The hello carries the token, if there is one; the daemon's first answer to it.
Connect ==
  /\ phase = "connect" /\ Awake /\ Reached
  /\ phase' = "session" /\ welcomed' = FALSE
  /\ answer' = CASE token /\ honours -> "welcome" [] token /\ ~honours -> "denied"
                 [] ~token -> "pending"
  /\ up' = TRUE
  /\ UNCHANGED <<configVars, backoff, place, daemon, honours, sleepVars, happened>>

EndSession(next) == phase' = next /\ welcomed' = FALSE /\ answer' = "none"

\* Faulty: the remembered address is kept.
AddressKept == addr
AddressForgotten == Nowhere

\* Err: the address may be stale.  Only a daemon that was not reached makes the wait longer.
Fails ==
  /\ addr' = AddressForgotten
  /\ backoff' = IF phase = "session" THEN 0 ELSE backoff
  /\ EndSession("wait")

ConnectFails ==
  /\ phase = "connect" /\ Awake /\ ~Reached /\ Fails
  /\ UNCHANGED <<token, daemonVars, sleepVars, happened>>

WaitOver ==
  /\ phase = "wait" /\ Awake /\ phase' = "find" /\ backoff' = Doubled
  /\ UNCHANGED <<configVars, welcomed, answer, daemonVars, sleepVars, happened>>

-----------------------------------------------------------------------------
(* session(). *)

\* handle_daemon_msg().
Handle ==
  /\ phase = "session" /\ Awake /\ answer # "none"
  /\ \/ /\ answer \in {"welcome", "pending"} /\ welcomed' = TRUE /\ answer' = "none"
        /\ UNCHANGED <<phase, token, backoff>>
     \/ /\ answer = "paired" /\ token' = TRUE /\ backoff' = 0 /\ EndSession("find")
     \/ /\ answer = "denied" /\ token' = FALSE /\ EndSession("wait") /\ UNCHANGED backoff
  /\ UNCHANGED <<addr, daemonVars, sleepVars, happened>>

Ping == phase = "session" /\ up /\ Awake /\ UNCHANGED agentLoopVars

\* The socket closes or the keepalive's deadline passes; or it breaks.
SessionLost ==
  /\ phase = "session" /\ Awake /\ ~up
  /\ \/ Fails
     \/ EndSession("wait") /\ backoff' = 0 /\ UNCHANGED addr
  /\ UNCHANGED <<token, daemonVars, sleepVars, happened>>

\* sleep.recv(), wherever the client is.
TakeSleepEvent ==
  /\ Awake /\ sleepQ # <<>> /\ phase \in {"session", "wait", "asleep"}
  /\ sleepQ' = Tail(sleepQ)
  /\ CASE phase = "session" /\ Head(sleepQ) = "suspending" ->
            EndSession("asleep") /\ backoff' = 0
       [] phase = "session" /\ Head(sleepQ) = "resumed" -> EndSession("wait") /\ backoff' = 0
       [] phase = "wait" /\ Head(sleepQ) = "resumed" -> EndSession("find") /\ backoff' = Doubled
       [] phase = "asleep" /\ Head(sleepQ) = "resumed" -> EndSession("find") /\ UNCHANGED backoff
       [] phase # "session" /\ Head(sleepQ) = "suspending" ->
            UNCHANGED <<phase, welcomed, answer, backoff>>
  /\ UNCHANGED <<configVars, daemonVars, machine, inhibitor, signals, sent, happened>>

-----------------------------------------------------------------------------
(* sleep.rs. *)

ResumeTold == Append(sleepQ, "resumed")

\* A send waits while the channel is full.
SleepTask ==
  /\ Awake
  /\ \/ /\ ~sent /\ signals # <<>> /\ Head(signals) = "suspend" /\ Len(sleepQ) < EventDepth
        /\ sleepQ' = Append(sleepQ, "suspending") /\ sent' = TRUE /\ UNCHANGED <<inhibitor, signals>>
     \/ /\ sent /\ sent' = FALSE /\ inhibitor' = FALSE /\ signals' = Tail(signals)
        /\ UNCHANGED sleepQ
     \/ /\ ~sent /\ signals # <<>> /\ Head(signals) = "resume" /\ Len(sleepQ) < EventDepth
        /\ sleepQ' = ResumeTold /\ inhibitor' = TRUE /\ signals' = Tail(signals)
        /\ UNCHANGED sent
  /\ UNCHANGED <<loopVars, daemonVars, machine, happened>>

PrepareForSleep ==
  /\ Happens /\ machine = "awake"
  /\ machine' = "going" /\ signals' = Append(signals, "suspend")
  /\ UNCHANGED <<loopVars, daemonVars, inhibitor, sent, sleepQ>>

\* Without inhibitors, or after InhibitDelayMaxUSec with them.
Freeze ==
  /\ machine = "going" /\ machine' = "frozen"
  /\ UNCHANGED <<loopVars, daemonVars, inhibitor, signals, sent, sleepQ, happened>>

\* Back, or never gone.
Resume ==
  /\ machine # "awake" /\ machine' = "awake" /\ signals' = Append(signals, "resume")
  /\ UNCHANGED <<loopVars, daemonVars, inhibitor, sent, sleepQ, happened>>

-----------------------------------------------------------------------------
(* The daemon and its user. *)

DaemonRestarts ==
  /\ Happens /\ daemon' = ~daemon /\ up' = FALSE
  /\ place' \in IF daemon THEN {place} ELSE Places
  /\ UNCHANGED <<loopVars, honours, sleepVars>>

Approves ==
  /\ phase = "session" /\ up /\ ~token /\ answer = "none" /\ Happens
  /\ honours' = TRUE /\ answer' = "paired"
  /\ UNCHANGED <<phase, configVars, welcomed, backoff, place, daemon, up, sleepVars>>

Unpairs ==
  /\ honours /\ Happens /\ honours' = FALSE
  /\ answer' = IF phase = "session" /\ up /\ token THEN "denied" ELSE answer
  /\ UNCHANGED <<phase, configVars, welcomed, backoff, place, daemon, up, sleepVars>>

ClientStep ==
  FindDaemon \/ Connect \/ ConnectFails \/ WaitOver \/ Handle \/ SessionLost \/ TakeSleepEvent

AgentLoopNext ==
  \/ ClientStep \/ Ping \/ SleepTask
  \/ PrepareForSleep \/ Freeze \/ Resume \/ DaemonRestarts \/ Approves \/ Unpairs

AgentLoopFairness ==
  /\ WF_agentLoopVars(ClientStep) /\ WF_agentLoopVars(SleepTask) /\ WF_agentLoopVars(Resume)

AgentLoopSpec == AgentLoopInit /\ [][AgentLoopNext]_agentLoopVars /\ AgentLoopFairness

-----------------------------------------------------------------------------
(* Properties. *)

(* Wherever the daemon went and however often the machine slept, an agent whose      *)
(* daemon is there in the end is in session with it, and has been answered.          *)
FindsDaemon == <>[](daemon => phase = "session" /\ welcomed)

=============================================================================
