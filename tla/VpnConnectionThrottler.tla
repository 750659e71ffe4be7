----------------------- MODULE VpnConnectionThrottler -----------------------
(***************************************************************************)
(* VpnConnectionThrottler: the delay VpnWorker.work waits before each new  *)
(* connection.  One worker calls throttle, is connected, loses the         *)
(* connection after any time and calls throttle again; a worker that is    *)
(* interrupted while it sleeps ends, and the next one calls throttle.      *)
(***************************************************************************)
EXTENDS Integers

CONSTANTS
    INITIAL_TIMEOUT_MS,
    MAXIMUM_TIMEOUT_MS,
    MaxTime              \* bound of the clock, for model checking only

ASSUME ThrottlerAssumption ==
    /\ INITIAL_TIMEOUT_MS \in Nat \ {0}
    /\ MAXIMUM_TIMEOUT_MS \in Nat
    /\ INITIAL_TIMEOUT_MS <= MAXIMUM_TIMEOUT_MS
    /\ MaxTime \in Nat

VARIABLES
    now,          \* System.currentTimeMillis(): never 0
    timeout,
    time,         \* when throttle was last called, 0 before the first call
    pc,           \* the worker: connected, about to call throttle, or in Thread.sleep
    wake,         \* when the sleep ends
    established   \* when the last three connections were allowed, oldest first

vars == <<now, timeout, time, pc, wake, established>>

LongAgo == -MAXIMUM_TIMEOUT_MS

TypeOK ==
    /\ now \in Nat \ {0}
    /\ timeout \in INITIAL_TIMEOUT_MS .. MAXIMUM_TIMEOUT_MS
    /\ time \in Nat
    /\ pc \in {"down", "sleeping", "up"}
    /\ wake \in Nat
    /\ established \in [1 .. 3 -> Int]

Init ==
    /\ now = 1
    /\ timeout = INITIAL_TIMEOUT_MS
    /\ time = 0
    /\ pc = "down"
    /\ wake = 0
    /\ established = [i \in 1 .. 3 |-> LongAgo]

-----------------------------------------------------------------------------
\* The connection is allowed: runVpn starts.
Allow ==
    /\ pc' = "up"
    /\ established' = [i \in 1 .. 3 |-> IF i = 3 THEN now ELSE established[i + 1]]

elapsed == now - time

Uncapped == timeout * 2

Increased ==
    IF timeout * 2 < MAXIMUM_TIMEOUT_MS THEN timeout * 2 ELSE MAXIMUM_TIMEOUT_MS

Decreased(reset) ==
    IF reset \/ timeout \div 4 < INITIAL_TIMEOUT_MS
    THEN INITIAL_TIMEOUT_MS
    ELSE timeout \div 4

EarlyIfHalf == elapsed < timeout \div 2

\* The call happens before the time out.
Early == elapsed < timeout

FirstCall ==
    /\ pc = "down"
    /\ time = 0
    /\ time' = now
    /\ Allow
    /\ UNCHANGED <<now, timeout, wake>>

EarlyCall ==
    /\ pc = "down"
    /\ time # 0
    /\ Early
    /\ time' = now
    /\ timeout' = Increased
    /\ wake' = now + (Increased - elapsed)
    /\ pc' = "sleeping"
    /\ UNCHANGED <<now, established>>

LateCall ==
    /\ pc = "down"
    /\ time # 0
    /\ ~Early
    /\ time' = now
    /\ timeout' = Decreased(elapsed > MAXIMUM_TIMEOUT_MS)
    /\ Allow
    /\ UNCHANGED <<now, wake>>

\* Thread.sleep ends, in time or late.
Wakes ==
    /\ pc = "sleeping"
    /\ now >= wake
    /\ Allow
    /\ UNCHANGED <<now, timeout, time, wake>>

\* InterruptedException: the worker ends, what throttle wrote stays.
Interrupted ==
    /\ pc = "sleeping"
    /\ pc' = "down"
    /\ UNCHANGED <<now, timeout, time, wake, established>>

\* The connection ends: VpnNetworkException, IOException, or a stop.
ConnectionEnds ==
    /\ pc = "up"
    /\ pc' = "down"
    /\ UNCHANGED <<now, timeout, time, wake, established>>

Tick ==
    /\ now < MaxTime
    /\ now' = now + 1
    /\ UNCHANGED <<timeout, time, pc, wake, established>>

Throttle == FirstCall \/ EarlyCall \/ LateCall

Next == Throttle \/ Wakes \/ Interrupted \/ ConnectionEnds \/ Tick

Spec == Init /\ [][Next]_vars

-----------------------------------------------------------------------------
\* "Limit the VPN connection to be established to often": a connection may
\* follow another at once, but then not a third one. From one connection to the
\* second after it, at least the current time out elapses.
Spaced == pc = "up" => established[3] - established[1] >= timeout

\* Thread.sleep is given a delay in the limits of the time out: neither
\* negative (IllegalArgumentException would end the worker for good) nor longer
\* than the maximum.
SleepsInLimits ==
    [][pc' = "sleeping" /\ pc # "sleeping" =>
         wake' - now \in 1 .. MAXIMUM_TIMEOUT_MS]_vars
=============================================================================
