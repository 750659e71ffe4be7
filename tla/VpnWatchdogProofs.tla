------------------------- MODULE VpnWatchdogProofs --------------------------
(***************************************************************************)
(* Proofs about VpnConnectionThrottler, for every initial and maximum time *)
(* out: how often connections may follow each other; and about             *)
(* VpnWatchdog, for every value of its time outs: the worker uses the      *)
(* throttler as VpnConnectionThrottler says, and the watchdog gives up a   *)
(* connection after the waiting time only.                                 *)
(***************************************************************************)
EXTENDS VpnWatchdog, TLAPS

-----------------------------------------------------------------------------
(* The throttler.                                                          *)

\* The connections are in order and none is in the future.
Ordered ==
    /\ established[1] <= established[2]
    /\ established[2] <= established[3]
    /\ established[3] <= now
    /\ time <= now

\* The last call of throttle came after the last connection but one: the call
\* that allowed the last connection did.
CallAfterLastButOne == IF time = 0 THEN established[3] = LongAgo ELSE established[2] <= time

\* A sleeping worker called after the last connection, and wakes up no earlier
\* than the time out after the call before.
WakesInTime ==
    pc = "sleeping" =>
        /\ time # 0
        /\ established[3] <= time
        /\ wake >= established[2] + timeout

Inv ==
    /\ TypeOK
    /\ Ordered
    /\ CallAfterLastButOne
    /\ WakesInTime
    /\ Spaced

USE ThrottlerAssumption

\* Both limits hold of the time out when it is changed, and it never gets
\* longer when a connection is allowed at once.
LEMMA TimeoutChanges ==
    ASSUME timeout \in INITIAL_TIMEOUT_MS .. MAXIMUM_TIMEOUT_MS, NEW reset \in BOOLEAN
    PROVE  /\ Increased \in timeout .. MAXIMUM_TIMEOUT_MS
           /\ Decreased(reset) \in INITIAL_TIMEOUT_MS .. timeout
<1>1. timeout \in Nat /\ timeout \div 4 \in 0 .. timeout
  OBVIOUS
<1>2. QED
  BY <1>1 DEF Increased, Decreased

LEMMA InitInv == Init => Inv
<1>1. LongAgo \in Int /\ LongAgo <= 0
  BY DEF LongAgo
<1>2. QED
  BY <1>1 DEF Init, Inv, TypeOK, Ordered, CallAfterLastButOne, WakesInTime, Spaced

\* What the connections are once one more is allowed.
LEMMA AllowEffect ==
    ASSUME established \in [1 .. 3 -> Int], now \in Nat, Allow
    PROVE  /\ pc' = "up"
           /\ established' \in [1 .. 3 -> Int]
           /\ established'[1] = established[2]
           /\ established'[2] = established[3]
           /\ established'[3] = now
BY DEF Allow

LEMMA FirstCallInv == Inv /\ FirstCall => Inv'
<1> SUFFICES ASSUME Inv, FirstCall PROVE Inv'
  OBVIOUS
<1> USE DEF Inv, TypeOK
<1>1. /\ pc' = "up" /\ time = 0 /\ time' = now
      /\ UNCHANGED <<now, timeout, wake>>
      /\ established' \in [1 .. 3 -> Int]
      /\ established'[1] = established[2]
      /\ established'[2] = established[3]
      /\ established'[3] = now
  BY AllowEffect DEF FirstCall
<1>2. LongAgo = -MAXIMUM_TIMEOUT_MS
  BY DEF LongAgo
<1>3. QED
  BY <1>1, <1>2 DEF Ordered, CallAfterLastButOne, WakesInTime, Spaced

LEMMA EarlyCallInv == Inv /\ EarlyCall => Inv'
<1> SUFFICES ASSUME Inv, EarlyCall PROVE Inv'
  OBVIOUS
<1> USE DEF Inv, TypeOK
<1>1. /\ Increased \in timeout .. MAXIMUM_TIMEOUT_MS
      /\ now - time < timeout
      /\ time # 0 /\ time' = now /\ pc' = "sleeping"
      /\ timeout' = Increased
      /\ wake' = now + (Increased - (now - time))
      /\ UNCHANGED <<now, established>>
  BY TimeoutChanges DEF EarlyCall, elapsed, Early
<1>2. wake' = time + timeout' /\ wake' \in Nat
  BY <1>1
<1>3. timeout' \in INITIAL_TIMEOUT_MS .. MAXIMUM_TIMEOUT_MS
  BY <1>1
<1>4. QED
  BY <1>1, <1>2, <1>3 DEF Ordered, CallAfterLastButOne, WakesInTime, Spaced

LEMMA LateCallInv == Inv /\ LateCall => Inv'
<1> SUFFICES ASSUME Inv, LateCall PROVE Inv'
  OBVIOUS
<1> USE DEF Inv, TypeOK
<1>1. (elapsed > MAXIMUM_TIMEOUT_MS) \in BOOLEAN
  OBVIOUS
<1>2. Decreased(elapsed > MAXIMUM_TIMEOUT_MS) \in INITIAL_TIMEOUT_MS .. timeout
  BY <1>1, TimeoutChanges, Zenon
<1>3. /\ time # 0 /\ time' = now /\ pc' = "up"
      /\ now - time >= timeout
      /\ timeout' \in INITIAL_TIMEOUT_MS .. timeout
      /\ UNCHANGED <<now, wake>>
      /\ established' \in [1 .. 3 -> Int]
      /\ established'[1] = established[2]
      /\ established'[2] = established[3]
      /\ established'[3] = now
  BY <1>2, AllowEffect DEF LateCall, elapsed, Early
<1>4. QED
  BY <1>3 DEF Ordered, CallAfterLastButOne, WakesInTime, Spaced

LEMMA WakesInv == Inv /\ Wakes => Inv'
<1> SUFFICES ASSUME Inv, Wakes PROVE Inv'
  OBVIOUS
<1> USE DEF Inv, TypeOK
<1>1. /\ pc = "sleeping" /\ pc' = "up" /\ now >= wake
      /\ UNCHANGED <<now, timeout, time, wake>>
      /\ established' \in [1 .. 3 -> Int]
      /\ established'[1] = established[2]
      /\ established'[2] = established[3]
      /\ established'[3] = now
  BY AllowEffect DEF Wakes
<1>2. QED
  BY <1>1 DEF Ordered, CallAfterLastButOne, WakesInTime, Spaced

LEMMA NextInv == Inv /\ [Next]_vars => Inv'
<1> SUFFICES ASSUME Inv, [Next]_vars PROVE Inv'
  OBVIOUS
<1>1. CASE FirstCall
  BY <1>1, FirstCallInv
<1>2. CASE EarlyCall
  BY <1>2, EarlyCallInv
<1>3. CASE LateCall
  BY <1>3, LateCallInv
<1>4. CASE Wakes
  BY <1>4, WakesInv
<1>5. CASE Interrupted \/ ConnectionEnds
  BY <1>5 DEF Interrupted, ConnectionEnds, Inv, TypeOK, Ordered, CallAfterLastButOne,
              WakesInTime, Spaced
<1>6. CASE Tick
  BY <1>6 DEF Tick, Inv, TypeOK, Ordered, CallAfterLastButOne, WakesInTime, Spaced
<1>7. CASE UNCHANGED vars
  BY <1>7 DEF vars, Inv, TypeOK, Ordered, CallAfterLastButOne, WakesInTime, Spaced
<1>8. QED
  BY <1>1, <1>2, <1>3, <1>4, <1>5, <1>6, <1>7 DEF Next, Throttle

LEMMA SpecInv == Spec => []Inv
BY InitInv, NextInv, PTL DEF Spec

-----------------------------------------------------------------------------
\* The time out stays within its limits, for every pair of limits: doubling
\* and dividing it by four overshoots neither.
THEOREM Types == Spec => []TypeOK
<1>1. Inv => TypeOK
  BY DEF Inv
<1>2. QED
  BY SpecInv, <1>1, PTL

\* Whenever connections fail or are stopped, among three in a row the first
\* and the third are at least the current time out apart.
THEOREM SpacedTheorem == Spec => []Spaced
<1>1. Inv => Spaced
  BY DEF Inv
<1>2. QED
  BY SpecInv, <1>1, PTL

\* throttle never asks for a sleep that is negative or longer than the
\* maximum, as long as the clock does not go back.
THEOREM SleepsInLimitsTheorem == Spec => SleepsInLimits
<1> DEFINE A == pc' = "sleeping" /\ pc # "sleeping" => wake' - now \in 1 .. MAXIMUM_TIMEOUT_MS
<1>1. Inv /\ [Next]_vars => A
  <2>1. SUFFICES ASSUME Inv, [Next]_vars, pc' = "sleeping", pc # "sleeping"
                 PROVE  wake' - now \in 1 .. MAXIMUM_TIMEOUT_MS
    OBVIOUS
  <2>2. EarlyCall
    BY <2>1 DEF Next, Throttle, FirstCall, LateCall, Wakes, Interrupted, ConnectionEnds, Tick,
                Allow, vars
  <2>3. /\ now - time < timeout
        /\ wake' = now + (Increased - (now - time))
        /\ Increased \in timeout .. MAXIMUM_TIMEOUT_MS
    BY <2>1, <2>2, TimeoutChanges DEF EarlyCall, Early, elapsed, Inv, TypeOK
  <2>4. QED
    BY <2>1, <2>3 DEF Inv, TypeOK, Ordered
<1>2. QED
  BY SpecInv, <1>1, PTL DEF Spec, SleepsInLimits

-----------------------------------------------------------------------------
(* The watchdog.                                                           *)

USE WatchdogAssumption

\* The poll under way ends after the last packet was read and, with a check-alive
\* packet that is not answered, no earlier than the waiting time after it was sent and
\* after the watchdog last gave up.
PollLasts ==
    phase = "poll" =>
        /\ until > lastPacketReceived
        /\ Waiting => /\ until - lastPacketSent >= POLL_TIMEOUT_WAITING
                      /\ until - lost >= POLL_TIMEOUT_WAITING

WatchdogInv ==
    /\ now \in Nat \ {0}
    /\ WatchdogTypeOK
    /\ PollLasts

-----------------------------------------------------------------------------
\* The throttler does not see the watchdog: each step of work is a step of
\* throttle, of the connections it allows or of the clock, or none.
THEOREM ThrottlerImplemented == WorkSpec => Spec
<1>1. WorkInit => Init
  BY DEF WorkInit
<1>2. [WorkNext]_workVars => [Next]_vars
  <2> SUFFICES ASSUME [WorkNext]_workVars PROVE [Next]_vars
    OBVIOUS
  <2>1. CASE Initialize \/ EndOfPenalty \/ Connect \/ PacketRead \/ OtherEvent \/ SendPacket
    BY <2>1 DEF Initialize, EndOfPenalty, Connect, PacketRead, OtherEvent, SendPacket
  <2>2. CASE Throttles
    BY <2>2 DEF Throttles, Next
  <2>3. CASE NetworkFails \/ WatchdogTimesOut \/ SendPacketFails
    BY <2>3 DEF NetworkFails, WatchdogTimesOut, SendPacketFails, Reconnects, Next
  <2>4. CASE Restart
    BY <2>4 DEF Restart, Next
  <2>5. CASE TimePasses
    BY <2>5 DEF TimePasses, Next
  <2>6. CASE UNCHANGED workVars
    BY <2>6 DEF workVars
  <2>7. QED
    BY <2>1, <2>2, <2>3, <2>4, <2>5, <2>6 DEF WorkNext
<1>3. QED
  BY <1>1, <1>2, PTL DEF WorkSpec, Spec

\* Connections stay apart when the watchdog forces them too, or the worker is
\* stopped and started.
THEOREM WorkSpaced == WorkSpec => []Spaced
BY ThrottlerImplemented, SpacedTheorem, PTL

-----------------------------------------------------------------------------
\* The growing time outs keep their limits.
LEMMA GrowsInLimits ==
    ASSUME pollTimeout \in POLL_TIMEOUT_START .. POLL_TIMEOUT_END, Grows
    PROVE  pollTimeout' \in POLL_TIMEOUT_START .. POLL_TIMEOUT_END
<1>1. \A m, n \in Nat : n # 0 => m * n \in Nat /\ m * n >= m
  OBVIOUS
<1>2. QED
  BY <1>1 DEF Grows, Capped

LEMMA PenaltyInLimits ==
    ASSUME initPenalty \in 0 .. INIT_PENALTY_END
    PROVE  Capped(initPenalty + INIT_PENALTY_INC, INIT_PENALTY_END) \in 0 .. INIT_PENALTY_END
BY DEF Capped

LEMMA WorkInitInv == WorkInit => WatchdogInv
<1> SUFFICES ASSUME WorkInit PROVE WatchdogInv
  OBVIOUS
<1>1. now = 1
  BY DEF WorkInit, Init
<1>2. enabled \in BOOLEAN /\ phase = "initialize"
  BY Zenon DEF WorkInit
<1>3. QED
  BY <1>1, <1>2 DEF WorkInit, WatchdogInv, WatchdogTypeOK, PollLasts

\* When a poll that begins ends.
LEMMA PollEnds ==
    ASSUME Polls
    PROVE  until' = now + (IF lastPacketReceived' < lastPacketSent' THEN POLL_TIMEOUT_WAITING
                                                                    ELSE pollTimeout')
BY DEF Polls, GetPollTimeout, Waiting

LEMMA PollEndsInNat ==
    ASSUME Polls, now \in Nat, pollTimeout' \in Nat
    PROVE  until' \in Nat
BY PollEnds

\* A poll that begins lasts as long as the watchdog says.
LEMMA PollsLast ==
    ASSUME now \in Nat, now' = now, WatchdogTypeOK', Polls
    PROVE  PollLasts'
<1>1. pollTimeout' \in Nat \ {0} /\ lastPacketReceived' \in 0 .. now /\ lastPacketSent' \in 0 .. now
      /\ lost' \in 0 .. now
  BY DEF WatchdogTypeOK
<1>2. QED
  BY <1>1, PollEnds DEF PollLasts, Waiting

\* Outside of a poll nothing is to be shown but the types.
LEMMA NoPoll == ASSUME phase' # "poll" PROVE PollLasts'
BY DEF PollLasts

LEMMA WorkNextInv == WatchdogInv /\ [WorkNext]_workVars => WatchdogInv'
<1> SUFFICES ASSUME WatchdogInv, [WorkNext]_workVars PROVE WatchdogInv'
  OBVIOUS
<1>1. CASE Initialize
  <2>1. now' = now
    BY <1>1 DEF Initialize, vars
  <2>2. WatchdogTypeOK'
    BY <1>1, <2>1 DEF Initialize, WatchdogInv, WatchdogTypeOK
  <2>3. QED
    BY <1>1, <2>1, <2>2, NoPoll DEF Initialize, WatchdogInv
<1>2. CASE EndOfPenalty
  <2>1. now' = now /\ WatchdogTypeOK'
    BY <1>2 DEF EndOfPenalty, vars, WatchdogInv, WatchdogTypeOK
  <2>2. QED
    BY <1>2, <2>1, NoPoll DEF EndOfPenalty, WatchdogInv
<1>3. CASE Throttles
  <2>1. now' = now
    BY <1>3 DEF Throttles, Throttle, FirstCall, EarlyCall, LateCall, Wakes
  <2>2. WatchdogTypeOK' /\ phase' # "poll"
    BY <1>3, <2>1 DEF Throttles, watchdogVars, WatchdogInv, WatchdogTypeOK
  <2>3. QED
    BY <2>1, <2>2, NoPoll DEF WatchdogInv
<1>4. CASE Connect \/ OtherEvent
  <2>1. now' = now /\ Polls
    BY <1>4 DEF Connect, OtherEvent, vars
  <2>2. pollTimeout' \in Nat
    BY <1>4 DEF Connect, OtherEvent, WatchdogInv, WatchdogTypeOK
  <2>3. until' \in Nat
    BY <2>1, <2>2, PollEndsInNat DEF WatchdogInv
  <2>4. WatchdogTypeOK'
    BY <1>4, <2>1, <2>3 DEF Connect, OtherEvent, Polls, WatchdogInv, WatchdogTypeOK
  <2>5. QED
    BY <2>1, <2>4, PollsLast DEF WatchdogInv
<1>5. CASE PacketRead
  <2>1. now' = now /\ Polls
    BY <1>5 DEF PacketRead, vars
  <2>2. pollTimeout' \in Nat
    BY <1>5 DEF PacketRead, WatchdogInv, WatchdogTypeOK
  <2>3. until' \in Nat
    BY <2>1, <2>2, PollEndsInNat DEF WatchdogInv
  <2>4. WatchdogTypeOK'
    BY <1>5, <2>1, <2>3 DEF PacketRead, Polls, WatchdogInv, WatchdogTypeOK
  <2>5. QED
    BY <2>1, <2>4, PollsLast DEF WatchdogInv
<1>6. CASE SendPacket
  <2>1. now' = now /\ Polls
    BY <1>6 DEF SendPacket, vars
  <2>2. pollTimeout' \in POLL_TIMEOUT_START .. POLL_TIMEOUT_END
    BY <1>6, GrowsInLimits DEF SendPacket, WatchdogInv, WatchdogTypeOK
  <2>3. until' \in Nat
    BY <2>1, <2>2, PollEndsInNat DEF WatchdogInv
  <2>4. WatchdogTypeOK'
    BY <1>6, <2>1, <2>2, <2>3 DEF SendPacket, SentAt, Polls, WatchdogInv, WatchdogTypeOK
  <2>5. QED
    BY <2>1, <2>4, PollsLast DEF WatchdogInv
<1>7. CASE NetworkFails \/ Restart
  <2>1. now' = now
    BY <1>7 DEF NetworkFails, Reconnects, Restart, Interrupted, ConnectionEnds, vars
  <2>2. WatchdogTypeOK' /\ phase' # "poll"
    BY <1>7, <2>1 DEF NetworkFails, Reconnects, Restart, WatchdogInv, WatchdogTypeOK
  <2>3. QED
    BY <2>1, <2>2, NoPoll DEF WatchdogInv
<1>8. CASE WatchdogTimesOut
  <2>1. now' = now
    BY <1>8 DEF WatchdogTimesOut, Reconnects, ConnectionEnds
  <2>2. initPenalty' \in 0 .. INIT_PENALTY_END
    BY <1>8, PenaltyInLimits DEF WatchdogTimesOut, WatchdogInv, WatchdogTypeOK
  <2>3. WatchdogTypeOK' /\ phase' # "poll"
    BY <1>8, <2>1, <2>2 DEF WatchdogTimesOut, KeepsPollTimeout, Reconnects, WatchdogInv,
                            WatchdogTypeOK
  <2>4. QED
    BY <2>1, <2>3, NoPoll DEF WatchdogInv
<1>9. CASE SendPacketFails
  <2>1. now' = now
    BY <1>9 DEF SendPacketFails, Reconnects, ConnectionEnds
  <2>2. pollTimeout' \in POLL_TIMEOUT_START .. POLL_TIMEOUT_END
    BY <1>9, GrowsInLimits DEF SendPacketFails, WatchdogInv, WatchdogTypeOK
  <2>3. WatchdogTypeOK' /\ phase' # "poll"
    BY <1>9, <2>1, <2>2 DEF SendPacketFails, Reconnects, WatchdogInv, WatchdogTypeOK
  <2>4. QED
    BY <2>1, <2>3, NoPoll DEF WatchdogInv
<1>10. CASE TimePasses
  BY <1>10 DEF TimePasses, Tick, watchdogVars, WatchdogInv, WatchdogTypeOK, PollLasts, Waiting
<1>11. CASE UNCHANGED workVars
  BY <1>11 DEF workVars, vars, watchdogVars, WatchdogInv, WatchdogTypeOK, PollLasts, Waiting
<1>12. QED
  BY <1>1, <1>2, <1>3, <1>4, <1>5, <1>6, <1>7, <1>8, <1>9, <1>10, <1>11 DEF WorkNext

LEMMA WorkSpecInv == WorkSpec => []WatchdogInv
BY WorkInitInv, WorkNextInv, PTL DEF WorkSpec

-----------------------------------------------------------------------------
\* The time out of poll and the penalty keep their limits, and no time is in the
\* future, however the worker reconnects and restarts.
THEOREM WatchdogTypes == WorkSpec => []WatchdogTypeOK
<1>1. WatchdogInv => WatchdogTypeOK
  BY DEF WatchdogInv
<1>2. QED
  BY WorkSpecInv, <1>1, PTL

\* What a step does to the times: only the watchdog's time out gives up, and only
\* SendPacket sends.
LEMMA TimesChange ==
    ASSUME WatchdogInv, [WorkNext]_workVars
    PROVE  /\ lost' # lost => /\ phase = "poll" /\ now >= until /\ Waiting /\ lost' = now
           /\ lastPacketSent' > lastPacketSent =>
                 /\ phase = "poll" /\ now >= until /\ lastPacketSent' = now
                 /\ lastPacketReceived' = lastPacketReceived
<1>1. CASE WatchdogTimesOut \/ SendPacket
  BY <1>1 DEF WatchdogTimesOut, SendPacket, PollTimesOut, SentAt, WatchdogInv, WatchdogTypeOK
<1>2. CASE Initialize
  BY <1>2 DEF Initialize, WatchdogInv, WatchdogTypeOK
<1>3. CASE EndOfPenalty \/ Throttles \/ Connect \/ NetworkFails \/ Restart \/ PacketRead
           \/ OtherEvent \/ SendPacketFails \/ TimePasses \/ UNCHANGED workVars
  <2>1. UNCHANGED <<lost, lastPacketSent>>
    BY <1>3 DEF EndOfPenalty, Throttles, Connect, NetworkFails, Restart, PacketRead,
                OtherEvent, SendPacketFails, TimePasses, workVars, watchdogVars
  <2>2. QED
    BY <2>1 DEF WatchdogInv, WatchdogTypeOK
<1>4. QED
  BY <1>1, <1>2, <1>3 DEF WorkNext

\* The tunnel has the whole waiting time to bring a packet after the last check-alive
\* packet, for every waiting time and any events that restart poll.
THEOREM WaitsForPacketTheorem == WorkSpec => WaitsForPacket
<1> DEFINE A == lost' # lost => now - lastPacketSent >= POLL_TIMEOUT_WAITING
<1>1. WatchdogInv /\ [WorkNext]_workVars => A
  BY TimesChange DEF WatchdogInv, WatchdogTypeOK, PollLasts
<1>2. QED
  BY WorkSpecInv, <1>1, PTL DEF WorkSpec, WaitsForPacket

\* A check-alive packet never counts as already answered.
THEOREM PacketSentArmsTheorem == WorkSpec => PacketSentArms
<1> DEFINE A == lastPacketSent' > lastPacketSent => Waiting'
<1>1. WatchdogInv /\ [WorkNext]_workVars => A
  BY TimesChange DEF WatchdogInv, WatchdogTypeOK, PollLasts, Waiting
<1>2. QED
  BY WorkSpecInv, <1>1, PTL DEF WorkSpec, PacketSentArms

\* The watchdog gives up two connections in a row no faster than the waiting time:
\* the times of the first do not end the second at once.
THEOREM GivesUpApartTheorem == WorkSpec => GivesUpApart
<1> DEFINE A == lost' # lost /\ lost # 0 => lost' - lost >= POLL_TIMEOUT_WAITING
<1>1. WatchdogInv /\ [WorkNext]_workVars => A
  BY TimesChange DEF WatchdogInv, WatchdogTypeOK, PollLasts
<1>2. QED
  BY WorkSpecInv, <1>1, PTL DEF WorkSpec, GivesUpApart

\* The time out of poll grows only when a packet came since the last check-alive one.
THEOREM GrowsWhenAliveTheorem == WorkSpec => GrowsWhenAlive
<1> DEFINE A == pollTimeout' > pollTimeout => ~Waiting
<1>1. WatchdogInv /\ [WorkNext]_workVars => A
  <2> SUFFICES ASSUME WatchdogInv, [WorkNext]_workVars, pollTimeout' > pollTimeout
               PROVE  ~Waiting
    OBVIOUS
  <2>1. SendPacket \/ SendPacketFails
    BY DEF WorkNext, Initialize, EndOfPenalty, Throttles, Connect, NetworkFails, Restart,
           PacketRead, OtherEvent, WatchdogTimesOut, KeepsPollTimeout, TimePasses, workVars,
           watchdogVars, WatchdogInv, WatchdogTypeOK
  <2>2. QED
    BY <2>1 DEF SendPacket, SendPacketFails, Waiting, WatchdogInv, WatchdogTypeOK
<1>2. QED
  BY WorkSpecInv, <1>1, PTL DEF WorkSpec, GrowsWhenAlive
=============================================================================
