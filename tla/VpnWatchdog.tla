---------------------------- MODULE VpnWatchdog -----------------------------
(***************************************************************************)
(* VpnWatchdog with the part of VpnWorker that drives it and the throttler: *)
(* work, which initializes the watchdog once and then throttles and        *)
(* connects again and again, and doOne, which polls with the time out of   *)
(* the watchdog and hands it the packets read from the tunnel and the time *)
(* outs of poll.                                                           *)
(***************************************************************************)
EXTENDS VpnConnectionThrottler

CONSTANTS
    POLL_TIMEOUT_START, POLL_TIMEOUT_END, POLL_TIMEOUT_WAITING, POLL_TIMEOUT_GROW,
    INIT_PENALTY_END, INIT_PENALTY_INC

ASSUME WatchdogAssumption ==
    /\ POLL_TIMEOUT_START \in Nat \ {0}
    /\ POLL_TIMEOUT_END \in Nat
    /\ POLL_TIMEOUT_START <= POLL_TIMEOUT_END
    /\ POLL_TIMEOUT_WAITING \in Nat \ {0}
    /\ POLL_TIMEOUT_GROW \in Nat \ {0}
    /\ INIT_PENALTY_END \in Nat
    /\ INIT_PENALTY_INC \in Nat

VARIABLES
    initPenalty,
    pollTimeout,
    lastPacketSent,
    lastPacketReceived,
    enabled,
    phase,               \* of work: initialize, penalty (asleep), connect, poll
    until,               \* when the penalty or the current poll ends
    lost                 \* when the watchdog last timed out

watchdogVars ==
    <<initPenalty, pollTimeout, lastPacketSent, lastPacketReceived, enabled, phase, until, lost>>

\* What changes with the connections only.
throttlerVars == <<timeout, time, pc, wake, established>>

workVars == <<vars, watchdogVars>>

WatchdogTypeOK ==
    /\ initPenalty \in 0 .. INIT_PENALTY_END
    /\ pollTimeout \in POLL_TIMEOUT_START .. POLL_TIMEOUT_END
    /\ lastPacketSent \in 0 .. now
    /\ lastPacketReceived \in 0 .. now
    /\ enabled \in BOOLEAN
    /\ phase \in {"initialize", "penalty", "connect", "poll"}
    /\ until \in Nat
    /\ lost \in 0 .. now

WorkInit ==
    /\ Init
    /\ initPenalty = 0
    /\ pollTimeout = POLL_TIMEOUT_START
    /\ lastPacketSent = 0
    /\ lastPacketReceived = 0
    /\ enabled = FALSE
    /\ phase = "initialize"
    /\ until = 0
    /\ lost = 0

Capped(value, limit) == IF value > limit THEN limit ELSE value

\* A check-alive packet was sent and no packet was read from the tunnel since.
Waiting == lastPacketReceived < lastPacketSent

GetPollTimeoutGrown == pollTimeout

\* getPollTimeout of an enabled watchdog; poll waits without limit otherwise.
GetPollTimeout == IF Waiting THEN POLL_TIMEOUT_WAITING ELSE pollTimeout

\* doOne polls (again), with what the watchdog is now.
Polls ==
    /\ phase' = "poll"
    /\ until' = now + GetPollTimeout'

-----------------------------------------------------------------------------
(* work.                                                                   *)

\* initialize, with the preference of the user.
Initialize ==
    /\ phase = "initialize"
    /\ enabled' \in BOOLEAN
    /\ pollTimeout' = POLL_TIMEOUT_START
    /\ lastPacketSent' = 0
    /\ IF enabled' /\ initPenalty > 0
       THEN phase' = "penalty" /\ until' = now + initPenalty
       ELSE phase' = "connect" /\ UNCHANGED until
    /\ UNCHANGED <<vars, initPenalty, lastPacketReceived, lost>>

EndOfPenalty ==
    /\ phase = "penalty"
    /\ now >= until
    /\ phase' = "connect"
    /\ UNCHANGED <<vars, initPenalty, pollTimeout, lastPacketSent, lastPacketReceived,
                   enabled, until, lost>>

\* throttle, called or waking up: the connection may be established.
Throttles ==
    /\ phase = "connect"
    /\ Throttle \/ Wakes
    /\ UNCHANGED watchdogVars

\* runVpn has established the tunnel and reaches its loop.
Connect ==
    /\ phase = "connect"
    /\ pc = "up"
    /\ UNCHANGED <<vars, initPenalty, pollTimeout, lastPacketSent, lastPacketReceived,
                   enabled, lost>>
    /\ Polls

\* runVpn ends with an exception; work throttles again.
Reconnects ==
    /\ ConnectionEnds
    /\ phase' = "connect"

\* It is no time out of the watchdog, and may be a tunnel that is not established.
NetworkFails ==
    /\ phase \in {"connect", "poll"}
    /\ Reconnects
    /\ UNCHANGED <<initPenalty, pollTimeout, lastPacketSent, lastPacketReceived,
                   enabled, until, lost>>

\* The worker is stopped, at any place, and started again: the same watchdog, the
\* same throttler.
Restart ==
    /\ phase # "initialize"
    /\ phase' = "initialize"
    /\ \/ Interrupted \/ ConnectionEnds
       \/ pc = "down" /\ UNCHANGED vars
    /\ UNCHANGED <<initPenalty, pollTimeout, lastPacketSent, lastPacketReceived,
                   enabled, until, lost>>

-----------------------------------------------------------------------------
(* doOne.                                                                  *)

\* A packet is read from the tunnel: handlePacket.
PacketRead ==
    /\ phase = "poll"
    /\ lastPacketReceived' = IF enabled THEN now ELSE lastPacketReceived
    /\ UNCHANGED <<vars, initPenalty, pollTimeout, lastPacketSent, enabled, lost>>
    /\ Polls

\* Another event: the answer of a server, room in the tunnel to write.
OtherEvent ==
    /\ phase = "poll"
    /\ UNCHANGED <<vars, initPenalty, pollTimeout, lastPacketSent, lastPacketReceived,
                   enabled, lost>>
    /\ Polls

\* poll returns no event.
PollTimesOut ==
    /\ phase = "poll"
    /\ enabled
    /\ now >= until

KeepsPollTimeout == UNCHANGED pollTimeout

\* handleTimeout: no packet since the last one sent, VpnNetworkException.
WatchdogTimesOut ==
    /\ PollTimesOut
    /\ Waiting /\ lastPacketSent # 0
    /\ initPenalty' = Capped(initPenalty + INIT_PENALTY_INC, INIT_PENALTY_END)
    /\ KeepsPollTimeout
    /\ Reconnects
    /\ lost' = now
    /\ UNCHANGED <<lastPacketSent, lastPacketReceived, enabled, until>>

Grows == pollTimeout' = Capped(pollTimeout * POLL_TIMEOUT_GROW, POLL_TIMEOUT_END)

\* The time sendPacket keeps.
SentAt == now

\* handleTimeout: the poll time out grows and a check-alive packet is sent.
SendPacket ==
    /\ PollTimesOut
    /\ ~(Waiting /\ lastPacketSent # 0)
    /\ Grows
    /\ lastPacketSent' = SentAt
    /\ UNCHANGED <<vars, initPenalty, lastPacketReceived, enabled, lost>>
    /\ Polls

\* Sending it fails: VpnNetworkException, with the poll time out grown.
SendPacketFails ==
    /\ PollTimesOut
    /\ ~(Waiting /\ lastPacketSent # 0)
    /\ Grows
    /\ Reconnects
    /\ UNCHANGED <<initPenalty, lastPacketSent, lastPacketReceived, enabled, until, lost>>

TimePasses == Tick /\ UNCHANGED watchdogVars

WorkNext ==
    \/ Initialize \/ EndOfPenalty \/ Throttles \/ Connect \/ NetworkFails \/ Restart
    \/ PacketRead \/ OtherEvent
    \/ WatchdogTimesOut \/ SendPacket \/ SendPacketFails
    \/ TimePasses

WorkSpec == WorkInit /\ [][WorkNext]_workVars

-----------------------------------------------------------------------------
\* A connection is given up only after the tunnel had the whole waiting time
\* to bring a packet since the last check-alive packet, however events that
\* come in between restart poll.
WaitsForPacket ==
    [][lost' # lost => now - lastPacketSent >= POLL_TIMEOUT_WAITING]_workVars

\* A poll that times out leads to a packet or to a reconnection: the
\* check-alive packet it sends never counts as already answered, so the next
\* time out without a packet in between ends the connection.
PacketSentArms == [][lastPacketSent' > lastPacketSent => Waiting']_workVars

\* "If poll() times out and we have seen a packet after we last sent a ping, we
\* increase the poll() time out": it grows in no other case.
GrowsWhenAlive == [][pollTimeout' > pollTimeout => ~Waiting]_workVars

\* However the worker reconnects or restarts, the watchdog does not give up again
\* before the waiting time: a packet sent before a reconnection does not end the
\* next connection at once.
GivesUpApart ==
    [][lost' # lost /\ lost # 0 => lost' - lost >= POLL_TIMEOUT_WAITING]_workVars
=============================================================================
