-------------------------------- MODULE Presence --------------------------------
(***************************************************************************)
(* outputs/{ap2,sendspin,pwsink}/discovery.rs and their liveness tasks,    *)
(* outputs/ap2/ptp.rs: which network speakers exist.  mDNS only ever adds  *)
(* them; a task probes each of them in turn, takes them offline and in the *)
(* end forgets them.  For AirPlay 2 the same task watches for a receiver   *)
(* that lost the clock, and asks for its session to be rebuilt.  A PipeWire*)
(* host has nothing to probe: its advert and its session are judged.       *)
(*                                                                         *)
(* Time is counted in probe rounds; every age stops at the bound it is     *)
(* compared with.                                                          *)
(***************************************************************************)
EXTENDS Naturals, FiniteSets

CONSTANTS
  Speakers, Addresses,
  Unset,            \* no address yet; an age that does not run
  FailThreshold, RemoveAfter,
  LockLost,         \* PTP_LOCK_LOST_AFTER
  Cooldown,         \* PTP_RECOVER_COOLDOWN
  Grace             \* WITHDRAWN_GRACE

PresenceConstants == Unset \notin Nat /\ Unset \notin Addresses /\ RemoveAfter \in Nat /\ FailThreshold \in Nat \ {0}

VARIABLES
  kind,             \* "ap2", "sendspin" or "pwsink"
  listed, present, addr,
  fails, offline,   \* failed probes in a row; age of the offline mark, or of the
                    \* withdrawal of a host's advert
  recover,          \* age of the last rebuild asked for
  rebuilds,            \* rebuilds the sender task has yet to carry out
  inRound, probing, \* a round is under way; the speakers it has yet to probe
  seenAddr, online, \* the addresses and the presence it found when it began
  playing,          \* and the senders that were connected
  leaving,          \* those it will remove at its end
  peers, heard, twoWay, \* Ap2PtpService: heard is the age of a peer's last message
  reach,            \* what a probe would find: "alive", "wedged", "gone"
  streaming,        \* speakers with a connected sender
  sinceAnswer, sinceAsk, spoke  \* history: rounds since a probe was answered, since a
                    \* rebuild was asked for, and who has been heard since then

tables  == <<fails, offline, recover>>
round   == <<inRound, probing, seenAddr, online, playing, leaving>>
clock   == <<peers, heard, twoWay>>
history == <<sinceAnswer, sinceAsk, spoke>>
presenceVars == <<kind, listed, present, addr, tables, rebuilds, round, clock, reach, streaming, history>>

Older(age, most) == IF age = Unset \/ age = most THEN age ELSE age + 1

PresenceInit ==
  /\ kind \in {"ap2", "sendspin", "pwsink"}
  /\ listed = {} /\ present = {} /\ addr = [d \in Speakers |-> Unset]
  /\ fails = [d \in Speakers |-> 0] /\ offline = [d \in Speakers |-> Unset]
  /\ recover = [d \in Speakers |-> Unset] /\ rebuilds = {}
  /\ inRound = FALSE /\ probing = {} /\ seenAddr = [d \in Speakers |-> Unset]
  /\ online = {} /\ playing = {} /\ leaving = {}
  /\ peers = {} /\ heard = [a \in Addresses |-> Unset] /\ twoWay = {}
  /\ reach = [d \in Speakers |-> "alive"] /\ streaming = {}
  /\ sinceAnswer = [d \in Speakers |-> 0] /\ sinceAsk = [d \in Speakers |-> Cooldown]
  /\ spoke = {}

-----------------------------------------------------------------------------
(* mDNS.  A resolve may come without an IPv4 address; the removal of a speaker is   *)
(* ignored, that of a host only noted.                                              *)

AddPeer(a) ==
  /\ peers' = peers \cup {a}
  /\ heard' = IF a \in peers THEN heard ELSE [heard EXCEPT ![a] = Unset]
  /\ UNCHANGED twoWay

\* A resolve without an IPv4 address leaves the known one.
Readdressed(d, a) == IF d \in listed /\ a = Unset THEN addr ELSE [addr EXCEPT ![d] = a]

\* Faulty: the mark of an earlier absence stays.
MarkStays(d) == offline
MarkCleared(d) == [offline EXCEPT ![d] = Unset]

\* A speaker that comes back keeps its marks: discovery does not know of them.  A host's
\* withdrawal is discovery's own.
SpeakerResolved(d, a) ==
  /\ listed' = listed \cup {d} /\ present' = present \cup {d}
  /\ addr' = Readdressed(d, a)
  /\ IF kind = "ap2" /\ a # Unset THEN AddPeer(a) ELSE UNCHANGED clock
  /\ offline' = IF kind = "pwsink" THEN MarkCleared(d) ELSE offline
  /\ UNCHANGED <<kind, fails, recover, rebuilds, round, reach, streaming, sinceAsk, spoke>>
  /\ sinceAnswer' = IF d \in listed /\ kind # "pwsink" THEN sinceAnswer
                    ELSE [sinceAnswer EXCEPT ![d] = 0]

AdvertWithdrawn(d) ==
  /\ kind = "pwsink" /\ d \in listed /\ offline[d] = Unset
  /\ offline' = [offline EXCEPT ![d] = 0]
  /\ UNCHANGED <<kind, listed, present, addr, fails, recover, rebuilds, round, clock, reach,
                 streaming, history>>

-----------------------------------------------------------------------------
(* One round of liveness.rs. *)

\* The candidates are copied with address and presence; a round of time has passed.
BeginRound ==
  /\ kind # "pwsink" /\ ~inRound /\ inRound' = TRUE
  /\ probing' = listed /\ seenAddr' = addr /\ online' = present /\ playing' = streaming
  /\ offline' = [d \in Speakers |-> Older(offline[d], RemoveAfter)]
  /\ recover' = [d \in Speakers |-> Older(recover[d], Cooldown)]
  /\ heard' = [a \in Addresses |-> Older(heard[a], LockLost)]
  /\ sinceAnswer' = [d \in Speakers |-> Older(sinceAnswer[d], RemoveAfter)]
  /\ sinceAsk' = [d \in Speakers |-> Older(sinceAsk[d], Cooldown)]
  /\ UNCHANGED <<kind, listed, present, addr, fails, rebuilds, leaving, peers, twoWay, reach,
                 streaming, spoke>>

\* set_present(): nothing if the speaker is not listed any more.
SetPresent(d, is) == present' = IF is /\ d \in listed THEN present \cup {d} ELSE present \ {d}

\* probe(); for sendspin a connected player needs none.
Answers(d) ==
  \/ kind = "sendspin" /\ d \in streaming
  \/ seenAddr[d] # Unset /\ reach[d] = "alive"
  \/ kind = "sendspin" /\ seenAddr[d] # Unset /\ reach[d] = "wedged"

Probed(d) == inRound /\ d \in probing /\ probing' = probing \ {d}

\* ptp_recovery_due(): silence counts for a receiver that was heard once, while it is
\* streamed to, and not again before the cooldown is over.
LockFresh(a) == a \in peers /\ heard[a] = 0
LatchedTwoWay(a) == IF a \in peers /\ heard[a] # Unset THEN twoWay \cup {a} ELSE twoWay
RecoveryDue(d, a) ==
  /\ ~LockFresh(a) /\ a \in LatchedTwoWay(a) /\ d \in playing
  /\ a \notin peers \/ heard[a] \in {Unset, LockLost}
  /\ recover[d] \in {Unset, Cooldown}

AskNoted(d) == [recover EXCEPT ![d] = 0]

Watch(d) ==
  LET a == seenAddr[d]
  IN IF kind = "sendspin" \/ a = Unset THEN UNCHANGED <<recover, rebuilds, twoWay, sinceAsk, spoke>>
     ELSE /\ twoWay' = LatchedTwoWay(a)
          /\ IF RecoveryDue(d, a)
             THEN /\ recover' = AskNoted(d)
                  /\ rebuilds' = IF d \in streaming THEN rebuilds \cup {d} ELSE rebuilds
                  /\ sinceAsk' = [sinceAsk EXCEPT ![d] = 0] /\ spoke' = spoke \ {d}
             ELSE /\ recover' = IF LockFresh(a) THEN [recover EXCEPT ![d] = Unset] ELSE recover
                  /\ UNCHANGED <<rebuilds, sinceAsk, spoke>>

ProbeAnswered(d) ==
  /\ Probed(d) /\ Answers(d)
  /\ fails' = [fails EXCEPT ![d] = 0] /\ offline' = MarkCleared(d)
  /\ IF d \in online THEN UNCHANGED present ELSE SetPresent(d, TRUE)
  /\ Watch(d)
  /\ sinceAnswer' = [sinceAnswer EXCEPT ![d] = 0]
  /\ UNCHANGED <<kind, listed, addr, inRound, seenAddr, online, playing, leaving, peers, heard, reach, streaming>>

\* A wedged receiver is taken offline as well, and kept.
ProbeFailed(d) ==
  /\ Probed(d) /\ ~Answers(d)
  /\ fails' = [fails EXCEPT ![d] = Older(@, FailThreshold)]
  /\ IF fails'[d] < FailThreshold THEN UNCHANGED <<offline, present, leaving>>
     ELSE /\ offline' = [offline EXCEPT ![d] = IF @ = Unset THEN 0 ELSE @]
          /\ IF d \in online THEN SetPresent(d, FALSE) ELSE UNCHANGED present
          /\ leaving' = IF offline'[d] = RemoveAfter /\ (seenAddr[d] = Unset \/ reach[d] = "gone")
                        THEN leaving \cup {d} ELSE leaving
  /\ UNCHANGED <<kind, listed, addr, recover, rebuilds, inRound, seenAddr, online, playing, clock,
                 reach, streaming, history>>

\* The removals, and for AirPlay 2 the clock peering with the address they had.
EndRound ==
  LET freed == {seenAddr[d] : d \in leaving} \ {Unset}
  IN /\ inRound /\ probing = {} /\ inRound' = FALSE /\ leaving' = {}
     /\ seenAddr' = [d \in Speakers |-> Unset] /\ online' = {} /\ playing' = {}
     /\ listed' = listed \ leaving /\ present' = present \ leaving
     /\ addr' = [d \in Speakers |-> IF d \in leaving THEN Unset ELSE addr[d]]
     /\ fails' = [d \in Speakers |-> IF d \in leaving THEN 0 ELSE fails[d]]
     /\ offline' = [d \in Speakers |-> IF d \in leaving THEN Unset ELSE offline[d]]
     /\ recover' = [d \in Speakers |-> IF d \in leaving THEN Unset ELSE recover[d]]
     /\ peers' = peers \ freed /\ twoWay' = twoWay \ freed
     /\ UNCHANGED <<kind, rebuilds, probing, heard, reach, streaming, history>>

(* The pass over the hosts: a session outranks the advert. *)

CheckTargets ==
  LET age == [d \in Speakers |-> Older(offline[d], RemoveAfter)]
      gone == {d \in listed \ streaming : age[d] = RemoveAfter}
  IN /\ kind = "pwsink"
     /\ listed' = listed \ gone
     /\ present' = {d \in listed \ gone :
                     \/ d \in streaming \/ age[d] = Unset
                     \/ d \in present /\ age[d] < Grace}
     /\ addr' = [d \in Speakers |-> IF d \in gone THEN Unset ELSE addr[d]]
     /\ offline' = [d \in Speakers |-> IF d \in gone THEN Unset ELSE age[d]]
     /\ sinceAnswer' = [d \in Speakers |->
                         IF offline[d] = Unset THEN 0
                         ELSE Older(sinceAnswer[d], RemoveAfter)]
     /\ UNCHANGED <<kind, fails, recover, rebuilds, round, clock, reach, streaming, sinceAsk, spoke>>

-----------------------------------------------------------------------------
(* The world. *)

\* reconnect_member() in server.rs: the peer is removed and added again.
RebuildsSession(d) ==
  /\ d \in rebuilds /\ rebuilds' = rebuilds \ {d}
  /\ IF addr[d] = Unset THEN UNCHANGED clock
     ELSE /\ peers' = peers \cup {addr[d]} /\ heard' = [heard EXCEPT ![addr[d]] = Unset]
          /\ UNCHANGED twoWay
  /\ \E again \in BOOLEAN : streaming' = IF again THEN streaming ELSE streaming \ {d}
  /\ UNCHANGED <<kind, listed, present, addr, tables, round, reach, history>>

ReceiverHeard(d) ==
  /\ kind = "ap2" /\ addr[d] \in peers
  /\ heard' = [heard EXCEPT ![addr[d]] = 0] /\ spoke' = spoke \cup {d}
  /\ UNCHANGED <<kind, listed, present, addr, tables, rebuilds, round, peers, twoWay, reach,
                 streaming, sinceAnswer, sinceAsk>>

ReachChanges(d, now) ==
  /\ reach[d] # now /\ reach' = [reach EXCEPT ![d] = now]
  /\ UNCHANGED <<kind, listed, present, addr, tables, rebuilds, round, clock, streaming, history>>

SenderComesOrGoes(d) ==
  /\ d \in streaming \/ d \in present
  /\ streaming' = IF d \in streaming THEN streaming \ {d} ELSE streaming \cup {d}
  /\ UNCHANGED <<kind, listed, present, addr, tables, rebuilds, round, clock, reach, history>>

PresenceNext ==
  \/ BeginRound \/ EndRound \/ CheckTargets
  \/ \E d \in Speakers :
       \/ AdvertWithdrawn(d)
       \/ \E a \in Addresses \cup {Unset} : SpeakerResolved(d, a)
       \/ ProbeAnswered(d) \/ ProbeFailed(d) \/ RebuildsSession(d) \/ ReceiverHeard(d)
       \/ SenderComesOrGoes(d)
       \/ \E now \in {"alive", "wedged", "gone"} : ReachChanges(d, now)

PresenceSpec == PresenceInit /\ [][PresenceNext]_presenceVars

-----------------------------------------------------------------------------
(* Properties. *)

(* A speaker that has answered, or a host that was advertised, within the time a     *)
(* removal takes is not forgotten, however often it came and went before; nor is a   *)
(* host with a session.                                                              *)
AnsweredStays ==
  \A d \in listed \ listed' :
    sinceAnswer'[d] = RemoveAfter /\ (kind = "pwsink" => d \notin streaming)
AnsweredIsKept == [][AnsweredStays]_presenceVars

(* "A reconnect costs that one receiver a few seconds of audio, so it must never     *)
(* become a loop": two rebuilds of a receiver that has not been heard in between are *)
(* a cooldown apart, through re-peering, removal and a change of address.            *)
AsksRebuild(d) == sinceAsk'[d] = 0 /\ (sinceAsk[d] # 0 \/ (d \in spoke /\ d \notin spoke'))
=============================================================================
