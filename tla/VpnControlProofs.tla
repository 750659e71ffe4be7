-------------------------- MODULE VpnControlProofs --------------------------
(***************************************************************************)
(* Proofs about VpnControl, for any threads, networks and bounds.          *)
(***************************************************************************)
EXTENDS VpnControl, FiniteSetTheorems, SequenceTheorems, TLAPS

USE ControlAssumption

-----------------------------------------------------------------------------
(* Types.                                                                  *)

LEMMA InitTypes == Init => TypeOK
<1> SUFFICES ASSUME Init PROVE TypeOK
  OBVIOUS
<1>1. intents \in Seq({"START", "STOP"}) /\ events \in Seq(Event)
  BY DEF Init
<1>2. /\ pc \in [Thread -> {"idle", "alive", "capability", "status", "send", "schedule",
                             "cancel", "stop"}]
      /\ goal \in [Thread -> {"none", "query", "start", "stop", "restart", "again"}]
  BY DEF Init
<1>3. kills \in 0 .. MaxKills
  BY DEF Init
<1>4. QED
  BY <1>1, <1>2, <1>3 DEF Init, TypeOK

LEMMA GoesTypes ==
    ASSUME TypeOK, NEW c \in Thread, NEW from, NEW to,
           to \in {"idle", "alive", "capability", "status", "send", "schedule", "cancel", "stop"},
           Goes(c, from, to)
    PROVE  /\ pc' \in [Thread -> {"idle", "alive", "capability", "status", "send", "schedule",
                                  "cancel", "stop"}]
           /\ goal' \in [Thread -> {"none", "query", "start", "stop", "restart", "again"}]
BY DEF Goes, TypeOK

LEMMA InCallTypes ==
    ASSUME TypeOK, NEW c \in Thread, InCall(c)
    PROVE  TypeOK'
<1> USE DEF android, network, process, calls
<1>1. CASE Alive(c)
  BY <1>1, GoesTypes DEF Alive, TypeOK
<1>2. CASE CheckCapability(c)
  BY <1>2, GoesTypes DEF CheckCapability, SeesTunnel, TypeOK
<1>3. CASE IsRunning(c)
  <2>1. AfterIsRunning(c, status = "RUNNING" /\ c \in capable) \in {"idle", "cancel", "send"}
    BY DEF AfterIsRunning
  <2>2. status' \in {"RUNNING", "STOPPED"}
    BY <1>3 DEF IsRunning, Corrected, TypeOK
  <2>3. lost' \subseteq {"killed", "dropped"}
    BY <1>3 DEF IsRunning, TypeOK
  <2>4. QED
    BY <1>3, <2>1, <2>2, <2>3, GoesTypes DEF IsRunning, TypeOK
<1>4. CASE SendStart(c)
  BY <1>4, GoesTypes DEF SendStart, AfterSend, TypeOK
<1>5. CASE StartRefused(c)
  BY <1>5, GoesTypes DEF StartRefused, TypeOK
<1>6. CASE Schedule(c)
  BY <1>6, GoesTypes DEF Schedule, TypeOK
<1>7. CASE Cancel(c)
  BY <1>7, GoesTypes DEF Cancel, TypeOK
<1>8. CASE SendStop(c)
  <2>1. intents' \in Seq({"START", "STOP"})
    BY <1>8 DEF SendStop, TypeOK
  <2>2. /\ pc' \in [Thread -> {"idle", "alive", "capability", "status", "send", "schedule",
                               "cancel", "stop"}]
        /\ goal' \in [Thread -> {"none", "query", "start", "stop", "restart", "again"}]
    <3>1. CASE goal[c] = "restart"
      BY <1>8, <3>1 DEF SendStop, TypeOK
    <3>2. CASE goal[c] # "restart"
      BY <1>8, <3>2, GoesTypes DEF SendStop
    <3>3. QED
      BY <3>1, <3>2
  <2>3. QED
    BY <1>8, <2>1, <2>2 DEF SendStop, TypeOK
<1>9. QED
  BY <1>1, <1>2, <1>3, <1>4, <1>5, <1>6, <1>7, <1>8 DEF InCall

LEMMA CallTypes ==
    ASSUME TypeOK, MainCall \/ \E c \in Background : BackgroundCall(c)
    PROVE  TypeOK'
<1> USE DEF Calls, SeesTunnel, android, network, process, Thread, TypeOK
<1>1. ASSUME NEW c \in Thread, Query(c) PROVE TypeOK'
  BY <1>1 DEF Query, AsksIsRunning
<1>2. ASSUME NEW c \in Thread, Start(c) PROVE TypeOK'
  BY <1>2 DEF Start, AsksIsRunning
<1>3. CASE Restart
  BY <1>3 DEF Restart, AsksIsRunning
<1>4. ASSUME NEW c \in Thread, Stop(c) PROVE TypeOK'
  BY <1>4 DEF Stop
<1>5. ASSUME NEW c \in Thread, Beat(c) PROVE TypeOK'
  BY <1>5 DEF Beat
<1>6. QED
  BY <1>1, <1>2, <1>3, <1>4, <1>5 DEF MainCall, BackgroundCall

LEMMA ServiceTypes ==
    ASSUME TypeOK, Service
    PROVE  TypeOK'
<1> USE DEF Looper, calls, android, TypeOK
<1>1. CASE OnCreate
  BY <1>1 DEF OnCreate
<1>2. CASE RegisterNetworkCallback
  <2>1. PICK networks \in SetToSeqs(up) :
           events' = [i \in DOMAIN networks |-> [available |-> TRUE, type |-> TypeOf[networks[i]]]]
    BY <1>2 DEF RegisterNetworkCallback
  <2>2. IsFiniteSet(up)
    BY FS_Subset
  <2>3. Cardinality(up) \in Nat
    BY <2>2, FS_CardinalityType
  <2>4. networks \in [1 .. Cardinality(up) -> up]
    BY <2>1 DEF SetToSeqs
  <2>5. events' \in [1 .. Cardinality(up) -> Event]
    BY <2>1, <2>4 DEF Event
  <2>6. events' \in Seq(Event)
    BY <2>3, <2>5
  <2>7. QED
    BY <1>2, <2>6 DEF RegisterNetworkCallback
<1> intents # <<>> => Tail(intents) \in Seq({"START", "STOP"})
  BY HeadTailProperties
<1> events # <<>> => Tail(events) \in Seq(Event) /\ Head(events).type \in NetworkType
  <2> SUFFICES ASSUME events # <<>>
               PROVE  Tail(events) \in Seq(Event) /\ Head(events).type \in NetworkType
    OBVIOUS
  <2>1. Tail(events) \in Seq(Event) /\ Head(events) \in Event
    BY HeadTailProperties
  <2>2. QED
    BY <2>1 DEF Event
<1>3. CASE StartVpn
  <2>1. intents' \in Seq({"START", "STOP"})
    BY <1>3 DEF StartVpn
  <2>2. QED
    BY <1>3, <2>1 DEF StartVpn
<1>4. CASE StopVpn
  BY <1>4 DEF StopVpn
<1>5. CASE OnAvailable
  <2>1. events' \in Seq(Event) /\ types' \subseteq NetworkType
    BY <1>5 DEF OnAvailable
  <2>2. QED
    BY <1>5, <2>1 DEF OnAvailable, Reconnect
<1>6. CASE OnLost
  <2>1. events' \in Seq(Event) /\ types' \subseteq NetworkType
    BY <1>6 DEF OnLost
  <2>2. QED
    BY <1>6, <2>1 DEF OnLost, Reconnect
<1>7. CASE OnDestroy
  BY <1>7 DEF OnDestroy
<1>8. QED
  BY <1>1, <1>2, <1>3, <1>4, <1>5, <1>6, <1>7 DEF Service

LEMMA WorldTypes ==
    ASSUME TypeOK,
           \/ \E n \in Network, available \in BOOLEAN : NetworkChanges(n, available)
           \/ TunnelUp \/ TunnelDown \/ Kill \/ Reboot
    PROVE  TypeOK'
<1> USE DEF android, network, process, calls, TypeOK
<1>1. ASSUME NEW n \in Network, NEW available \in BOOLEAN, NetworkChanges(n, available)
      PROVE  TypeOK'
  <2>1. [available |-> available, type |-> TypeOf[n]] \in Event
    BY DEF Event
  <2>2. events' \in Seq(Event)
    <3> DEFINE e == [available |-> available, type |-> TypeOf[n]]
    <3>1. Append(events, e) \in Seq(Event)
      BY <2>1, AppendProperties
    <3>2. events' \in {events, Append(events, e)}
      BY <1>1 DEF NetworkChanges
    <3>3. QED
      BY <3>1, <3>2
  <2>3. QED
    BY <1>1, <2>2 DEF NetworkChanges
<1>2. CASE TunnelUp
  BY <1>2 DEF TunnelUp
<1>3. CASE TunnelDown
  BY <1>3 DEF TunnelDown
<1>4. CASE Kill
  BY <1>4 DEF Kill, ProcessEnds
<1>5. CASE Reboot
  <2>1. lost' \subseteq {"killed", "dropped"} /\ kills' \in 0 .. MaxKills
    BY <1>5 DEF Reboot, ProcessEnds
  <2>2. intents' \in Seq({"START", "STOP"}) /\ events' \in Seq(Event)
    BY <1>5 DEF Reboot, ProcessEnds
  <2>3. QED
    BY <1>5, <2>1, <2>2 DEF Reboot, ProcessEnds
<1>6. QED
  BY <1>1, <1>2, <1>3, <1>4, <1>5

\* The service, its commands, callbacks and the calls that control it stay well
\* formed, for any threads and networks.
THEOREM Types == Spec => []TypeOK
<1>1. Init => TypeOK
  BY InitTypes
<1>2. TypeOK /\ [Next]_vars => TypeOK'
  <2>1. CASE UNCHANGED vars
    BY <2>1 DEF TypeOK, vars, android, network, process, calls
  <2>2. CASE Next
    BY <2>2, InCallTypes, CallTypes, ServiceTypes, WorldTypes DEF Next
  <2>3. QED
    BY <2>1, <2>2
<1>3. QED
  BY <1>1, <1>2, PTL DEF Spec
-----------------------------------------------------------------------------
(* The heartbeat.                                                          *)

\* Once the commands under way are handled, the VPN is meant to run: the last of
\* them is START, or there is none and nothing stopped the service.
WillRun ==
    IF intents = <<>> THEN status = "RUNNING" \/ sticky \/ restart
    ELSE intents[Len(intents)] = "START"

\* The heartbeat is scheduled or about to be, or a STOP is about to be sent.
Covered ==
    \/ heartbeat
    \/ "killed" \in lost
    \/ \E c \in Thread : pc[c] \in {"schedule", "stop"}

HeartbeatInv == WillRun => Covered

LEMMA CoveredKept ==
    ASSUME HeartbeatInv, WillRun' => WillRun,
           heartbeat => heartbeat', lost \subseteq lost',
           \A c \in Thread : pc[c] \in {"schedule", "stop"} => pc'[c] \in {"schedule", "stop"}
    PROVE  HeartbeatInv'
<1>1. WillRun' => Covered
  BY DEF HeartbeatInv
<1>2. Covered => Covered'
  <2>1. CASE heartbeat
    BY <2>1 DEF Covered
  <2>2. CASE "killed" \in lost
    BY <2>2 DEF Covered
  <2>3. CASE \E c \in Thread : pc[c] \in {"schedule", "stop"}
    BY <2>3 DEF Covered
  <2>4. QED
    BY <2>1, <2>2, <2>3 DEF Covered
<1>3. QED
  BY <1>1, <1>2 DEF HeartbeatInv

\* Only START makes the VPN one that will run, and it is sent before the heartbeat
\* is scheduled; the heartbeat is cancelled before STOP is sent.
LEMMA InCallHeartbeat ==
    ASSUME TypeOK, HeartbeatInv, NEW c \in Thread, InCall(c)
    PROVE  HeartbeatInv'
<1> USE DEF android
<1> DEFINE Kept == \A d \in Thread : pc[d] \in {"schedule", "stop"} => pc'[d] \in {"schedule", "stop"}
<1>1. CASE Alive(c)
  <2>1. (WillRun' => WillRun) /\ UNCHANGED <<heartbeat, lost>> /\ Kept
    BY <1>1 DEF Alive, Goes, WillRun, TypeOK
  <2>2. QED
    BY <2>1, CoveredKept
<1>2. CASE CheckCapability(c)
  <2>1. (WillRun' => WillRun) /\ UNCHANGED <<heartbeat, lost>> /\ Kept
    BY <1>2 DEF CheckCapability, Goes, WillRun, TypeOK
  <2>2. QED
    BY <2>1, CoveredKept
<1>3. CASE IsRunning(c)
  <2>1. UNCHANGED heartbeat /\ lost \subseteq lost' /\ Kept
    BY <1>3 DEF IsRunning, Goes, TypeOK
  <2>2. WillRun' => WillRun
    BY <1>3 DEF IsRunning, Corrected, WillRun
  <2>3. QED
    BY <2>1, <2>2, CoveredKept
<1>4. CASE SendStart(c)
  <2>1. pc'[c] = "schedule"
    BY <1>4 DEF SendStart, Goes, AfterSend, TypeOK
  <2>2. QED
    BY <2>1 DEF HeartbeatInv, Covered
<1>5. CASE StartRefused(c)
  <2>1. (WillRun' => WillRun) /\ UNCHANGED heartbeat /\ lost \subseteq lost' /\ Kept
    BY <1>5 DEF StartRefused, Goes, WillRun, TypeOK
  <2>2. QED
    BY <2>1, CoveredKept
<1>6. CASE Schedule(c)
  BY <1>6 DEF Schedule, HeartbeatInv, Covered
<1>7. CASE Cancel(c)
  <2>1. pc'[c] = "stop"
    BY <1>7 DEF Cancel, Goes, TypeOK
  <2>2. QED
    BY <2>1 DEF HeartbeatInv, Covered
<1>8. CASE SendStop(c)
  <2>1. intents' = Append(intents, "STOP")
    BY <1>8 DEF SendStop
  <2>2. intents' # <<>> /\ intents'[Len(intents')] = "STOP"
    <3>1. intents \in Seq({"START", "STOP"}) /\ "STOP" \in {"START", "STOP"}
      BY DEF TypeOK
    <3>2. Append(intents, "STOP") # <<>> /\ Len(Append(intents, "STOP")) = Len(intents) + 1
          /\ Append(intents, "STOP")[Len(intents) + 1] = "STOP"
      BY <3>1, AppendProperties
    <3>3. QED
      BY <2>1, <3>2
  <2>3. QED
    BY <2>2 DEF HeartbeatInv, WillRun
<1>9. QED
  BY <1>1, <1>2, <1>3, <1>4, <1>5, <1>6, <1>7, <1>8 DEF InCall

LEMMA CallHeartbeat ==
    ASSUME TypeOK, HeartbeatInv, MainCall \/ \E c \in Background : BackgroundCall(c)
    PROVE  HeartbeatInv'
<1> USE DEF android
<1>1. ASSUME NEW c \in Thread, NEW call, NEW first, Calls(c, call, first)
      PROVE  /\ WillRun' => WillRun
             /\ lost \subseteq lost'
             /\ \A d \in Thread :
                   pc[d] \in {"schedule", "stop"} => pc'[d] \in {"schedule", "stop"}
             /\ pc'[c] = first
  BY <1>1 DEF Calls, WillRun, TypeOK
<1>2. ASSUME NEW c \in Thread, NEW call, AsksIsRunning(c, call) PROVE HeartbeatInv'
  BY <1>1, <1>2, CoveredKept DEF AsksIsRunning
<1>3. ASSUME NEW c \in Thread, Stop(c) PROVE HeartbeatInv'
  BY <1>1, <1>3 DEF Stop, HeartbeatInv, Covered
<1>4. ASSUME NEW c \in Thread, Beat(c) PROVE HeartbeatInv'
  BY <1>1, <1>4, CoveredKept DEF Beat
<1>5. QED
  BY <1>2, <1>3, <1>4 DEF MainCall, BackgroundCall, Query, Start, Restart, Thread

LEMMA LastOfTail ==
    ASSUME NEW S, NEW s \in Seq(S), s # <<>>
    PROVE  /\ Tail(s) # <<>> => Tail(s)[Len(Tail(s))] = s[Len(s)]
           /\ Tail(s) = <<>> => Head(s) = s[Len(s)]
<1>1. /\ Len(s) \in Nat \ {0} /\ Tail(s) \in Seq(S) /\ Len(Tail(s)) = Len(s) - 1
      /\ \A i \in 1 .. Len(Tail(s)) : Tail(s)[i] = s[i + 1]
  BY HeadTailProperties, EmptySeq
<1>2. Len(Tail(s)) = 0 => Len(s) = 1
  <2>1. ASSUME NEW m \in Nat, NEW n, n = m - 1, n = 0 PROVE m = 1
    BY <2>1
  <2>2. Len(s) \in Nat /\ Len(Tail(s)) = Len(s) - 1
    BY <1>1, Zenon
  <2>3. QED
    BY <2>1, <2>2, Zenon
<1>3. CASE Tail(s) = <<>>
  <2>1. Len(<<>>) = 0
    BY EmptySeq
  <2>2. Len(Tail(s)) = 0
    BY <1>3, <2>1, Zenon
  <2>3. Len(s) = 1
    BY <1>2, <2>2, Zenon
  <2>4. Head(s) = s[1]
    OBVIOUS
  <2>5. QED
    BY <1>3, <2>3, <2>4, Zenon
<1>4. CASE Tail(s) # <<>>
  <2>1. Len(Tail(s)) \in 1 .. Len(Tail(s))
    BY <1>1, <1>4, EmptySeq
  <2>2. QED
    BY <1>1, <1>4, <2>1
<1>5. QED
  BY <1>3, <1>4

LEMMA ServiceHeartbeat ==
    ASSUME TypeOK, HeartbeatInv, Service
    PROVE  HeartbeatInv'
<1>1. UNCHANGED <<pc, heartbeat, lost>>
  BY DEF Service, OnCreate, RegisterNetworkCallback, StartVpn, StopVpn, OnAvailable, OnLost,
         OnDestroy, Looper, calls
<1>2. WillRun' => WillRun
  <2> USE DEF WillRun, android
  <2>1. CASE OnCreate
    BY <2>1 DEF OnCreate
  <2>2. CASE RegisterNetworkCallback
    BY <2>2 DEF RegisterNetworkCallback
  <2>3. CASE StartVpn
    <3>1. CASE restart /\ UNCHANGED intents
      BY <3>1
    <3>2. CASE intents # <<>> /\ Head(intents) = "START" /\ intents' = Tail(intents)
      BY <3>2, LastOfTail DEF TypeOK
    <3>3. QED
      BY <2>3, <3>1, <3>2 DEF StartVpn
  <2>4. CASE StopVpn
    <3>1. intents # <<>> /\ intents' = Tail(intents)
      BY <2>4 DEF StopVpn
    <3>2. CASE intents' = <<>>
      BY <2>4, <3>2 DEF StopVpn
    <3>3. CASE intents' # <<>>
      BY <3>1, <3>3, LastOfTail DEF TypeOK
    <3>4. QED
      BY <3>2, <3>3
  <2>5. CASE OnAvailable
    BY <2>5 DEF OnAvailable
  <2>6. CASE OnLost
    BY <2>6 DEF OnLost
  <2>7. CASE OnDestroy
    BY <2>7 DEF OnDestroy
  <2>8. QED
    BY <2>1, <2>2, <2>3, <2>4, <2>5, <2>6, <2>7 DEF Service
<1>3. QED
  BY <1>1, <1>2, CoveredKept

LEMMA WorldHeartbeat ==
    ASSUME TypeOK, HeartbeatInv,
           \/ \E n \in Network, available \in BOOLEAN : NetworkChanges(n, available)
           \/ TunnelUp \/ TunnelDown \/ Kill \/ Reboot
    PROVE  HeartbeatInv'
<1> USE DEF android, calls
<1>1. ASSUME NEW n \in Network, NEW available \in BOOLEAN, NetworkChanges(n, available)
      PROVE  HeartbeatInv'
  BY <1>1 DEF NetworkChanges, HeartbeatInv, WillRun, Covered
<1>2. CASE TunnelUp
  BY <1>2 DEF TunnelUp, HeartbeatInv, WillRun, Covered
<1>3. CASE TunnelDown
  BY <1>3 DEF TunnelDown, HeartbeatInv, WillRun, Covered
<1>4. CASE Busy # {} /\ (Kill \/ Reboot)
  BY <1>4 DEF Kill, Reboot, ProcessEnds, HeartbeatInv, Covered
<1>5. CASE Busy = {} /\ (Kill \/ Reboot)
  <2>1. \A c \in Thread : pc[c] = "idle"
    BY <1>5 DEF Busy
  <2>2. CASE Kill
    <3>1. (WillRun' => WillRun) /\ lost \subseteq lost' /\ UNCHANGED heartbeat
      BY <2>2 DEF Kill, ProcessEnds, WillRun
    <3>2. QED
      BY <2>1, <3>1, CoveredKept
  <2>3. CASE Reboot /\ intents # <<>>
    BY <2>3 DEF Reboot, ProcessEnds, HeartbeatInv, Covered
  <2>4. CASE Reboot /\ intents = <<>>
    <3>1. (WillRun' => WillRun) /\ lost \subseteq lost' /\ UNCHANGED heartbeat
      BY <2>4 DEF Reboot, ProcessEnds, WillRun
    <3>2. QED
      BY <2>1, <3>1, CoveredKept
  <2>5. QED
    BY <1>5, <2>2, <2>3, <2>4
<1>6. QED
  BY <1>1, <1>2, <1>3, <1>4, <1>5

\* However calls of any number of threads overlap, a VPN that is meant to run has
\* its heartbeat when they have ended (VpnServiceControls.start and stop).
THEOREM HeartbeatCoversTheorem == Spec => []HeartbeatCovers
<1>1. Init => HeartbeatInv
  BY DEF Init, HeartbeatInv, WillRun
<1>2. TypeOK /\ HeartbeatInv /\ [Next]_vars => HeartbeatInv'
  <2>1. CASE UNCHANGED vars
    BY <2>1 DEF HeartbeatInv, WillRun, Covered, vars, android, calls
  <2>2. CASE Next
    BY <2>2, InCallHeartbeat, CallHeartbeat, ServiceHeartbeat, WorldHeartbeat DEF Next
  <2>3. QED
    BY <2>1, <2>2
<1>3. TypeOK /\ HeartbeatInv => HeartbeatCovers
  <2> SUFFICES ASSUME TypeOK, HeartbeatInv, Busy = {}, "STOP" \notin Range(intents),
                      status = "RUNNING"
               PROVE  heartbeat \/ "killed" \in lost
    BY DEF HeartbeatCovers
  <2>1. ~ \E c \in Thread : pc[c] \in {"schedule", "stop"}
    BY DEF Busy
  <2>2. WillRun
    <3>1. CASE intents = <<>>
      BY <3>1 DEF WillRun
    <3>2. CASE intents # <<>>
      <4>1. Len(intents) \in DOMAIN intents /\ intents[Len(intents)] \in {"START", "STOP"}
        BY <3>2, EmptySeq, LenProperties DEF TypeOK
      <4>2. QED
        BY <3>2, <4>1 DEF WillRun, Range
    <3>3. QED
      BY <3>1, <3>2
  <2>3. QED
    BY <2>1, <2>2 DEF HeartbeatInv, Covered
<1>4. QED
  BY <1>1, <1>2, <1>3, Types, PTL DEF Spec

-----------------------------------------------------------------------------
(* The networks.                                                           *)

\* The last callback about the type under way tells of a network that came, or none is
\* under way and the service knows of the type.
Told(type) ==
    \/ \E i \in DOMAIN events :
          /\ events[i].available /\ events[i].type = type
          /\ \A j \in DOMAIN events : j > i /\ events[j].type = type => events[j].available
    \/ /\ type \in types
       /\ \A j \in DOMAIN events : events[j].type = type => events[j].available

NetworksTold == Registered => \A n \in up : TypeOf[n] \notin lastLost => Told(TypeOf[n])

\* A started service without worker has no network, or a command to handle.
WorkerOn ==
    /\ service = "creating" => restart \/ intents # <<>>
    /\ service = "created" /\ sticky =>
          restart \/ intents # <<>> \/ worker = "on" \/ types = {}

LEMMA CallsConnect ==
    ASSUME TypeOK, NetworksTold, WorkerOn,
           \/ MainCall \/ \E c \in Background : BackgroundCall(c)
           \/ \E c \in Thread : InCall(c)
    PROVE  NetworksTold' /\ WorkerOn'
<1> USE DEF android, network, process
<1>1. UNCHANGED <<sticky, restart, up, events, lastLost, service, types, worker>>
  BY DEF MainCall, BackgroundCall, Query, Start, Restart, Stop, Beat, AsksIsRunning, Calls, InCall,
         Alive, CheckCapability, IsRunning, SendStart, StartRefused, Schedule, Cancel, SendStop
<1>2. intents # <<>> => intents' # <<>>
  <2>1. \/ UNCHANGED intents
        \/ \E command \in {"START", "STOP"} : intents' = Append(intents, command)
    BY DEF MainCall, BackgroundCall, Query, Start, Restart, Stop, Beat, AsksIsRunning, Calls, InCall,
           Alive, CheckCapability, IsRunning, SendStart, StartRefused, Schedule, Cancel, SendStop
  <2>2. \A command \in {"START", "STOP"} : Append(intents, command) # <<>>
    BY AppendProperties DEF TypeOK
  <2>3. QED
    BY <2>1, <2>2, Zenon
<1>3. NetworksTold'
  BY <1>1 DEF NetworksTold, Told, Registered
<1>4. WorkerOn'
  BY <1>1, <1>2 DEF WorkerOn
<1>5. QED
  BY <1>3, <1>4

\* The callbacks of a new registration tell of every network there is.
LEMMA RegistrationTells ==
    ASSUME TypeOK, RegisterNetworkCallback, NEW n \in up
    PROVE  Told(TypeOf[n])'
<1> DEFINE N == Cardinality(up)
<1>1. IsFiniteSet(up) /\ N \in Nat
  BY FS_Subset, FS_CardinalityType DEF TypeOK
<1>2. PICK networks \in SetToSeqs(up) :
         events' = [i \in DOMAIN networks |-> [available |-> TRUE, type |-> TypeOf[networks[i]]]]
  BY DEF RegisterNetworkCallback
<1>3. /\ networks \in [1 .. N -> up]
      /\ \A i, j \in 1 .. N : i # j => networks[i] # networks[j]
  BY DEF SetToSeqs
<1>4. networks \in Surjection(1 .. N, up)
  <2>1. networks \in Injection(1 .. N, up)
    BY <1>3 DEF Injection, IsInjective
  <2>2. Cardinality(1 .. N) = N
    BY <1>1, FS_Interval
  <2>3. QED
    BY <1>1, <2>1, <2>2, FS_Injection
<1>5. PICK i \in 1 .. N : networks[i] = n
  BY <1>4 DEF Surjection
<1>6. \A j \in 1 .. N : events'[j].type = TypeOf[networks[j]] /\ events'[j].available
  BY <1>2, <1>3
<1>7. DOMAIN events' = 1 .. N
  BY <1>2, <1>3
<1>8. QED
  BY <1>5, <1>6, <1>7 DEF Told

\* A callback that is handled or overtaken leaves what the others tell.
LEMMA CallbackTells ==
    ASSUME TypeOK, Registered, events # <<>>, events' = Tail(events), NEW type, Told(type),
           IF Head(events).available THEN types' = types \cup {Head(events).type}
           ELSE types' = types \ {Head(events).type}
    PROVE  Told(type)'
<1>1. /\ events \in Seq(Event) /\ events' \in Seq(Event)
      /\ Len(events') = Len(events) - 1 /\ Head(events) = events[1]
      /\ \A j \in 1 .. Len(events') : events'[j] = events[j + 1]
  BY HeadTailProperties DEF TypeOK
<1>2. /\ Len(events) \in Nat \ {0} /\ DOMAIN events = 1 .. Len(events)
      /\ DOMAIN events' = 1 .. (Len(events) - 1)
  BY <1>1, LenProperties, EmptySeq
<1>3. CASE type \in types /\
           \A j \in DOMAIN events : events[j].type = type => events[j].available
  <2>1. type \in types'
    BY <1>1, <1>2, <1>3
  <2>2. \A j \in DOMAIN events' : events'[j].type = type => events'[j].available
    BY <1>1, <1>2, <1>3
  <2>3. QED
    BY <2>1, <2>2 DEF Told
<1>4. ASSUME NEW i \in DOMAIN events, events[i].available, events[i].type = type,
             \A j \in DOMAIN events : j > i /\ events[j].type = type => events[j].available
      PROVE  Told(type)'
  <2>1. CASE i = 1
    <3>1. type \in types'
      BY <1>1, <1>4, <2>1
    <3>2. \A j \in DOMAIN events' : events'[j].type = type => events'[j].available
      BY <1>1, <1>2, <1>4, <2>1
    <3>3. QED
      BY <3>1, <3>2 DEF Told
  <2>2. CASE i # 1
    <3>1. i - 1 \in DOMAIN events' /\ events'[i - 1] = events[i]
      BY <1>1, <1>2, <2>2
    <3>2. \A j \in DOMAIN events' :
             j > i - 1 /\ events'[j].type = type => events'[j].available
      BY <1>1, <1>2, <1>4
    <3>3. QED
      BY <1>4, <3>1, <3>2 DEF Told
  <2>3. QED
    BY <2>1, <2>2
<1>5. QED
  BY <1>3, <1>4 DEF Told

LEMMA ServiceConnects ==
    ASSUME TypeOK, NetworksTold, WorkerOn, Service
    PROVE  NetworksTold' /\ WorkerOn'
<1> USE DEF Looper, android
<1>1. CASE OnCreate
  BY <1>1 DEF OnCreate, NetworksTold, Registered, WorkerOn
<1>2. CASE RegisterNetworkCallback
  <2>1. up' = up /\ \A n \in up : Told(TypeOf[n])'
    BY <1>2, RegistrationTells DEF RegisterNetworkCallback
  <2>2. NetworksTold'
    BY <2>1 DEF NetworksTold
  <2>3. WorkerOn'
    BY <1>2 DEF RegisterNetworkCallback, WorkerOn
  <2>4. QED
    BY <2>2, <2>3
<1>3. CASE StartVpn
  <2>1. NetworksTold'
    BY <1>3 DEF StartVpn, NetworksTold, Registered, Told
  <2>2. WorkerOn'
    BY <1>3 DEF StartVpn, WorkerOn
  <2>3. QED
    BY <2>1, <2>2
<1>4. CASE StopVpn
  <2>1. NetworksTold'
    BY <1>4 DEF StopVpn, NetworksTold, Registered, Told
  <2>2. WorkerOn'
    BY <1>4 DEF StopVpn, WorkerOn
  <2>3. QED
    BY <2>1, <2>2
<1>5. CASE OnAvailable
  <2>1. \A type : Told(type) => Told(type)'
    BY <1>5, CallbackTells DEF OnAvailable
  <2>2. NetworksTold'
    BY <1>5, <2>1 DEF OnAvailable, NetworksTold, Registered
  <2>3. WorkerOn'
    BY <1>5 DEF OnAvailable, Reconnect, WorkerOn, Registered
  <2>4. QED
    BY <2>2, <2>3
<1>6. CASE OnLost
  <2>1. \A type : Told(type) => Told(type)'
    BY <1>6, CallbackTells DEF OnLost
  <2>2. NetworksTold'
    BY <1>6, <2>1 DEF OnLost, NetworksTold, Registered
  <2>3. WorkerOn'
    BY <1>6 DEF OnLost, Reconnect, WorkerOn, Registered
  <2>4. QED
    BY <2>2, <2>3
<1>7. CASE OnDestroy
  BY <1>7 DEF OnDestroy, NetworksTold, Registered, WorkerOn
<1>8. QED
  BY <1>1, <1>2, <1>3, <1>4, <1>5, <1>6, <1>7 DEF Service

LEMMA WorldConnects ==
    ASSUME TypeOK, NetworksTold, WorkerOn,
           \/ \E n \in Network, available \in BOOLEAN : NetworkChanges(n, available)
           \/ TunnelUp \/ TunnelDown \/ Kill \/ Reboot
    PROVE  NetworksTold' /\ WorkerOn'
<1> USE DEF android, network, process
<1>1. ASSUME NEW n \in Network, NEW available \in BOOLEAN, NetworkChanges(n, available)
      PROVE  NetworksTold' /\ WorkerOn'
  <2>1. WorkerOn'
    BY <1>1 DEF NetworkChanges, WorkerOn
  <2>2. CASE ~Registered
    <3>1. service' = service
      BY <1>1 DEF NetworkChanges
    <3>2. ~Registered'
      BY <2>2, <3>1 DEF Registered
    <3>3. NetworksTold'
      BY <3>2, Zenon DEF NetworksTold
    <3>4. QED
      BY <2>1, <3>3
  <2>3. CASE Registered
    <3> DEFINE e == [available |-> available, type |-> TypeOf[n]]
    <3>1. e \in Event /\ e.available = available /\ e.type = TypeOf[n]
      BY DEF Event
    <3>2. /\ events' = Append(events, e)
          /\ up' = IF available THEN up \cup {n} ELSE up \ {n}
          /\ types' = types
      BY <1>1, <2>3 DEF NetworkChanges
    <3> HIDE DEF e
    <3>3. /\ events \in Seq(Event) /\ events' \in Seq(Event) /\ Len(events) \in Nat
          /\ Len(events') = Len(events) + 1 /\ events'[Len(events) + 1] = e
          /\ \A i \in 1 .. Len(events) : events'[i] = events[i]
      BY <3>1, <3>2, AppendProperties, LenProperties DEF TypeOK
    <3>4. DOMAIN events = 1 .. Len(events) /\ DOMAIN events' = 1 .. (Len(events) + 1)
      BY <3>3, LenProperties
    <3>5. lastLost' = IF available THEN lastLost \ {TypeOf[n]} ELSE lastLost \cup {TypeOf[n]}
      BY <1>1, <2>3 DEF NetworkChanges
    <3>6. ASSUME NEW m \in up', TypeOf[m] \notin lastLost' PROVE Told(TypeOf[m])'
      <4>1. CASE TypeOf[m] = TypeOf[n]
        <5>1. available = TRUE
          BY <3>5, <3>6, <4>1
        <5>2. /\ Len(events) + 1 \in DOMAIN events'
              /\ \A j \in DOMAIN events' : ~(j > Len(events) + 1)
          BY <3>3, <3>4
        <5>3. events'[Len(events) + 1].available /\ events'[Len(events) + 1].type = TypeOf[m]
          BY <3>1, <3>3, <4>1, <5>1
        <5>4. QED
          BY <5>2, <5>3 DEF Told
      <4>2. CASE TypeOf[m] # TypeOf[n]
        <5>1. m # n /\ m \in up /\ TypeOf[m] \notin lastLost
          BY <3>2, <3>5, <3>6, <4>2
        <5>2. Told(TypeOf[m])
          BY <2>3, <5>1 DEF NetworksTold
        <5>3. events'[Len(events) + 1].type # TypeOf[m]
          BY <3>1, <3>3, <4>2
        <5>4. CASE TypeOf[m] \in types /\
                   \A j \in DOMAIN events : events[j].type = TypeOf[m] => events[j].available
          <6>1. \A j \in DOMAIN events' : events'[j].type = TypeOf[m] => events'[j].available
            BY <3>3, <3>4, <5>3, <5>4
          <6>2. QED
            BY <3>2, <5>4, <6>1 DEF Told
        <5>5. ASSUME NEW i \in DOMAIN events, events[i].available, events[i].type = TypeOf[m],
                     \A j \in DOMAIN events :
                        j > i /\ events[j].type = TypeOf[m] => events[j].available
              PROVE  Told(TypeOf[m])'
          <6>1. i \in DOMAIN events' /\ events'[i] = events[i]
            BY <3>3, <3>4
          <6>2. \A j \in DOMAIN events' :
                   j > i /\ events'[j].type = TypeOf[m] => events'[j].available
            BY <3>3, <3>4, <5>3, <5>5
          <6>3. QED
            BY <5>5, <6>1, <6>2 DEF Told
        <5>6. QED
          BY <5>2, <5>4, <5>5 DEF Told
      <4>3. QED
        BY <4>1, <4>2
    <3>7. QED
      BY <2>1, <3>6 DEF NetworksTold
  <2>4. QED
    BY <2>1, <2>2, <2>3
<1>2. CASE TunnelUp
  BY <1>2 DEF TunnelUp, NetworksTold, Registered, Told, WorkerOn
<1>3. CASE TunnelDown
  BY <1>3 DEF TunnelDown, NetworksTold, Registered, Told, WorkerOn
<1>4. CASE Kill \/ Reboot
  BY <1>4 DEF Kill, Reboot, ProcessEnds, NetworksTold, Registered, WorkerOn
<1>5. QED
  BY <1>1, <1>2, <1>3, <1>4

\* A started VPN has its worker when all commands and callbacks are handled and a network
\* is there of whose type none was lost last (VpnService.addNetworkType,
\* removeNetworkType), for any networks, several of a type included, and however late the
\* callbacks are handled.
THEOREM ConnectsToNetworkTheorem == Spec => []ConnectsToNetwork
<1>1. Init => NetworksTold /\ WorkerOn
  BY DEF Init, NetworksTold, Registered, WorkerOn
<1>2. TypeOK /\ NetworksTold /\ WorkerOn /\ [Next]_vars => (NetworksTold /\ WorkerOn)'
  <2>1. CASE UNCHANGED vars
    BY <2>1 DEF NetworksTold, Registered, Told, WorkerOn, vars, android, network, process
  <2>2. CASE Next
    BY <2>2, CallsConnect, ServiceConnects, WorldConnects DEF Next
  <2>3. QED
    BY <2>1, <2>2
<1>3. TypeOK /\ NetworksTold /\ WorkerOn => ConnectsToNetwork
  <2> SUFFICES ASSUME TypeOK, NetworksTold, WorkerOn, StartedAndTold,
                      NEW n \in up, TypeOf[n] \notin lastLost
               PROVE  worker = "on"
    BY DEF ConnectsToNetwork
  <2> USE DEF StartedAndTold
  <2>1. Told(TypeOf[n])
    BY DEF NetworksTold, Registered
  <2>2. TypeOf[n] \in types
    BY <2>1 DEF Told
  <2>3. QED
    BY <2>2 DEF WorkerOn
<1>4. QED
  BY <1>1, <1>2, <1>3, Types, PTL DEF Spec
=============================================================================
