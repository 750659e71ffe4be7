----------------------------- MODULE VpnControl -----------------------------
(***************************************************************************)
(* The control of the VPN: the threads that call VpnServiceControls, the   *)
(* VpnService they send commands to, its network callbacks, the heartbeat  *)
(* that starts a dead service again, and the preference all of them share. *)
(*                                                                         *)
(* The workers are in VpnWorker; here there is one or none, and a tunnel   *)
(* that the system shows for as long as it likes while there is one, and   *)
(* for a while after.  Of Android: commands are delivered in order, those  *)
(* a killed process left are delivered to the next one, a killed service   *)
(* is restarted without a command when its last one was START, a service   *)
(* that stopped itself is destroyed later unless another START comes, and  *)
(* the preference and the schedule of the heartbeat survive.               *)
(***************************************************************************)
EXTENDS Integers, Sequences, FiniteSets, SequencesExt

CONSTANTS
    Main,          \* the main thread, which also runs VpnService
    Background,    \* the other threads that control the VPN
    Network,       \* the networks of the device
    NetworkType,
    TypeOf,        \* the type of each network
    MaxIntents,    \* bound of the commands under way, for model checking only
    MaxEvents,     \* bound of the callbacks under way, for model checking only
    MaxKills       \* bound of the crashes, for model checking only

ASSUME ControlAssumption ==
    /\ Main \notin Background /\ IsFiniteSet(Network)
    /\ TypeOf \in [Network -> NetworkType]
    /\ MaxIntents \in Nat /\ MaxEvents \in Nat /\ MaxKills \in Nat

Thread == {Main} \cup Background
Event == [available : BOOLEAN, type : NetworkType]

VARIABLES
    status,      \* the preference: the VPN is meant to run
    heartbeat,   \* the heartbeat is scheduled
    intents,     \* the commands sent to the service
    sticky,      \* the service was started and not stopped since
    restart,     \* the system restarts the killed service
    up,          \* the networks there are
    lastLost,    \* the types of which the last network that came or went went
    tunnel,      \* some network has the VPN transport
    service,     \* the life of VpnService
    types,       \* availableNetworkTypes
    events,      \* the network callbacks posted to the handler of the service
    worker,      \* VpnWorker is started
    pc,          \* what each thread does next
    goal,        \* which call it is in
    capable,     \* the threads that saw the VPN transport
    kills,
    lost         \* why a VPN that should run may not: see Recovers

android == <<intents, sticky, restart>>
network == <<up, events, lastLost>>
process == <<service, types, worker>>
calls == <<pc, goal, capable>>
vars == <<status, heartbeat, android, network, tunnel, process, calls, kills, lost>>

TypeOK ==
    /\ status \in {"RUNNING", "STOPPED"}
    /\ heartbeat \in BOOLEAN
    /\ intents \in Seq({"START", "STOP"})
    /\ sticky \in BOOLEAN /\ restart \in BOOLEAN
    /\ up \subseteq Network
    /\ lastLost \subseteq NetworkType
    /\ tunnel \in BOOLEAN
    /\ service \in {"none", "creating", "created", "stopping"}
    /\ types \subseteq NetworkType
    /\ events \in Seq(Event)
    /\ worker \in {"on", "off"}
    /\ pc \in [Thread -> {"idle", "alive", "capability", "status", "send", "schedule",
                          "cancel", "stop"}]
    /\ goal \in [Thread -> {"none", "query", "start", "stop", "restart", "again"}]
    /\ capable \subseteq Thread
    /\ kills \in 0 .. MaxKills
    /\ lost \subseteq {"killed", "dropped"}

Init ==
    /\ status = "STOPPED"
    /\ heartbeat = FALSE
    /\ intents = <<>>
    /\ sticky = FALSE /\ restart = FALSE
    /\ up \in SUBSET Network
    /\ lastLost = {}
    /\ tunnel = FALSE
    /\ service = "none"
    /\ types = {}
    /\ events = <<>>
    /\ worker = "off"
    /\ pc = [c \in Thread |-> "idle"]
    /\ goal = [c \in Thread |-> "none"]
    /\ capable = {}
    /\ kills = 0
    /\ lost = {}

-----------------------------------------------------------------------------
(* VpnServiceControls and VpnServiceHeartbeat, on thread c.                *)

Busy == {c \in Thread : pc[c] # "idle"}

\* A call sends two commands at most.
Room == Len(intents) + 2 * Cardinality(Busy) + 2 <= MaxIntents

\* A thread forgets its call when it returns.
Goes(c, from, to) ==
    /\ pc[c] = from
    /\ pc' = [pc EXCEPT ![c] = to]
    /\ goal' = IF to = "idle" THEN [goal EXCEPT ![c] = "none"] ELSE goal

Calls(c, call, first) ==
    /\ Room
    /\ c = Main => service # "creating"
    /\ pc[c] = "idle"
    /\ pc' = [pc EXCEPT ![c] = first]
    /\ goal' = [goal EXCEPT ![c] = call]
    /\ UNCHANGED <<status, android, network, tunnel, process, kills, lost>>

\* isRunning reads the networks first.
SeesTunnel(c) == capable' = IF tunnel THEN capable \cup {c} ELSE capable

AsksIsRunning(c, call) ==
    /\ Calls(c, call, "status")
    /\ SeesTunnel(c)
    /\ UNCHANGED heartbeat

\* VpnModel asks isRunning when it is created.
Query(c) == AsksIsRunning(c, "query")

\* VpnModel.apply, VpnConnectionMonitor.monitor, BootReceiver.
Start(c) == AsksIsRunning(c, "start")

\* VpnModel.revert: the heartbeat is cancelled first.
Stop(c) ==
    /\ Calls(c, "stop", "stop")
    /\ heartbeat' = FALSE
    /\ UNCHANGED capable

\* The VPN preferences, when a setting changes: isRunning, stop, start.
Restart == AsksIsRunning(Main, "restart")

\* VpnServiceHeartbeat.doWork, once the VPN is meant to run.
Beat(c) ==
    /\ heartbeat /\ up # {} /\ status = "RUNNING"
    /\ Calls(c, "start", "alive")
    /\ UNCHANGED <<heartbeat, capable>>

AlreadyStarted == status = "RUNNING"

\* isVpnServiceRunning: a service about to be restarted counts.
ServiceListed == service # "none" \/ restart \/ intents # <<>>

Alive(c) ==
    /\ Goes(c, "alive", IF ServiceListed THEN "idle" ELSE "capability")
    /\ UNCHANGED <<status, heartbeat, android, network, tunnel, process, capable,
                   kills, lost>>

CheckCapability(c) ==
    /\ Goes(c, "capability", "status")
    /\ SeesTunnel(c)
    /\ UNCHANGED <<status, heartbeat, android, network, tunnel, process, kills, lost>>

\* What the caller of isRunning does with its result.
AfterIsRunning(c, running) ==
    CASE goal[c] = "restart" /\ running -> "cancel"
      [] goal[c] \in {"start", "again"} /\ ~running -> "send"
      [] OTHER -> "idle"

Corrected(c) == IF c \in capable THEN status ELSE "STOPPED"

\* isRunning then reads the preference, and corrects it.
IsRunning(c) ==
    /\ Goes(c, "status", AfterIsRunning(c, status = "RUNNING" /\ c \in capable))
    /\ status' = Corrected(c)
    /\ lost' = IF status # status' /\ goal[c] \in {"query", "restart"}
               THEN lost \cup {"dropped"} ELSE lost
    /\ capable' = capable \ {c}
    /\ UNCHANGED <<heartbeat, android, network, tunnel, process, kills>>

SendsOnly == "idle"

AfterSend == "schedule"

SendStart(c) ==
    /\ Goes(c, "send", AfterSend)
    /\ intents' = Append(intents, "START")
    /\ UNCHANGED <<status, heartbeat, sticky, restart, network, tunnel, process,
                   capable, kills, lost>>

\* startForegroundService returns null, or throws in the background.
StartRefused(c) ==
    /\ Goes(c, "send", "idle")
    /\ lost' = lost \cup {"dropped"}
    /\ UNCHANGED <<status, heartbeat, android, network, tunnel, process, capable, kills>>

\* VpnServiceHeartbeat.start: one that is scheduled is kept.
Schedule(c) ==
    /\ Goes(c, "schedule", "idle")
    /\ heartbeat' = TRUE
    /\ UNCHANGED <<status, android, network, tunnel, process, capable, kills, lost>>

\* stop of a restart.
Cancel(c) ==
    /\ Goes(c, "cancel", "stop")
    /\ heartbeat' = FALSE
    /\ UNCHANGED <<status, android, network, tunnel, process, capable, kills, lost>>

SendStop(c) ==
    /\ pc[c] = "stop"
    /\ IF goal[c] = "restart"
       THEN pc' = [pc EXCEPT ![c] = "capability"] /\ goal' = [goal EXCEPT ![c] = "again"]
       ELSE Goes(c, "stop", "idle")
    /\ intents' = Append(intents, "STOP")
    /\ UNCHANGED <<status, heartbeat, sticky, restart, network, tunnel, process, capable,
                   kills, lost>>

InCall(c) ==
    \/ Alive(c) \/ CheckCapability(c) \/ IsRunning(c) \/ SendStart(c) \/ StartRefused(c)
    \/ Schedule(c) \/ Cancel(c) \/ SendStop(c)

\* Of the main thread: VpnModel, BootReceiver, the preferences.
MainCall == Query(Main) \/ Start(Main) \/ Restart

BackgroundCall(c) == Query(c) \/ Start(c) \/ Stop(c) \/ Beat(c)

-----------------------------------------------------------------------------
(* VpnService, on the main thread.                                         *)

Looper == pc[Main] = "idle" /\ UNCHANGED <<calls, kills, lost, heartbeat, tunnel, up>>

Registered == service \in {"created", "stopping"}

\* onCreate: the types of the active network, then the callbacks. A command
\* that waits makes the restart one with it.
OnCreate ==
    /\ Looper
    /\ service = "none"
    /\ restart \/ intents # <<>>
    /\ service' = "creating"
    /\ restart' = (restart /\ intents = <<>>)
    /\ types' \in IF up = {} THEN {{}} ELSE {{TypeOf[n]} : n \in up}
    /\ UNCHANGED <<status, intents, sticky, events, lastLost, worker>>

\* The callbacks are told of the networks there are.
RegisterNetworkCallback ==
    /\ Looper
    /\ service = "creating"
    /\ service' = "created"
    /\ \E networks \in SetToSeqs(up) :
         events' = [i \in DOMAIN networks |-> [available |-> TRUE, type |-> TypeOf[networks[i]]]]
    /\ UNCHANGED <<status, android, types, lastLost, worker>>

\* onStartCommand: startVpn, on the command or on the restart by the system.
StartVpn ==
    /\ Looper
    /\ Registered
    /\ \/ restart /\ restart' = FALSE /\ UNCHANGED intents
       \/ /\ ~restart /\ intents # <<>> /\ Head(intents) = "START"
          /\ intents' = Tail(intents) /\ UNCHANGED restart
    /\ status' = "RUNNING"
    /\ worker' = "on"
    /\ service' = "created"
    /\ sticky' = TRUE
    /\ UNCHANGED <<types, events, lastLost>>

\* onStartCommand: stopVpn.
StopVpn ==
    /\ Looper
    /\ Registered
    /\ ~restart /\ intents # <<>> /\ Head(intents) = "STOP"
    /\ intents' = Tail(intents)
    /\ status' = "STOPPED"
    /\ worker' = "off"
    /\ service' = "stopping"
    /\ sticky' = FALSE
    /\ UNCHANGED <<restart, types, events, lastLost>>

ReconnectForgotten == "off"

Reconnect == "on"

\* addNetworkType.
OnAvailable ==
    /\ Looper
    /\ Registered /\ events # <<>> /\ Head(events).available
    /\ types' = types \cup {Head(events).type}
    /\ worker' = IF types = {} THEN Reconnect ELSE worker
    /\ events' = Tail(events)
    /\ UNCHANGED <<status, android, service, lastLost>>

\* removeNetworkType.
OnLost ==
    /\ Looper
    /\ Registered /\ events # <<>> /\ ~Head(events).available
    /\ types' = types \ {Head(events).type}
    /\ worker' = IF types' = {} THEN "off" ELSE Reconnect
    /\ events' = Tail(events)
    /\ UNCHANGED <<status, android, service, lastLost>>

\* onDestroy: the callbacks are removed, the worker is not stopped.
OnDestroy ==
    /\ Looper
    /\ service = "stopping" /\ intents = <<>> /\ ~tunnel
    /\ service' = "none"
    /\ types' = {}
    /\ events' = <<>> /\ lastLost' = {}
    /\ UNCHANGED <<status, android, worker>>

Service ==
    \/ OnCreate \/ RegisterNetworkCallback \/ StartVpn \/ StopVpn
    \/ OnAvailable \/ OnLost \/ OnDestroy

-----------------------------------------------------------------------------
(* The networks, the tunnel, and the end of the process.                   *)

NetworkChanges(n, available) ==
    /\ (n \in up) # available
    /\ up' = IF available THEN up \cup {n} ELSE up \ {n}
    /\ IF Registered
       THEN /\ Len(events) < MaxEvents
            /\ events' = Append(events, [available |-> available, type |-> TypeOf[n]])
            /\ lastLost' = IF available THEN lastLost \ {TypeOf[n]} ELSE lastLost \cup {TypeOf[n]}
       ELSE UNCHANGED <<events, lastLost>>
    /\ UNCHANGED <<status, heartbeat, android, tunnel, process, calls, kills, lost>>

TunnelUp ==
    /\ worker = "on" /\ ~tunnel
    /\ tunnel' = TRUE
    /\ UNCHANGED <<status, heartbeat, android, network, process, calls, kills, lost>>

TunnelDown ==
    /\ tunnel
    /\ tunnel' = FALSE
    /\ UNCHANGED <<status, heartbeat, android, network, process, calls, kills, lost>>

ProcessEnds(cut) ==
    /\ kills < MaxKills
    /\ kills' = kills + 1
    /\ service' = "none"
    /\ types' = {}
    /\ events' = <<>> /\ lastLost' = {}
    /\ worker' = "off"
    /\ pc' = [c \in Thread |-> "idle"]
    /\ lost' = IF cut THEN lost \cup {"killed"} ELSE lost
    /\ goal' = [c \in Thread |-> "none"]
    /\ capable' = {}
    /\ UNCHANGED <<status, heartbeat, up>>

\* The process is killed: the system restarts a service that is started.
Kill ==
    /\ ProcessEnds(Busy # {})
    /\ restart' = (restart \/ (sticky /\ service # "none"))
    /\ UNCHANGED <<intents, sticky, tunnel>>

\* The device is: nothing is left of what the system would deliver.
Reboot ==
    /\ ProcessEnds(Busy # {} \/ intents # <<>>)
    /\ intents' = <<>>
    /\ sticky' = FALSE /\ restart' = FALSE
    /\ tunnel' = FALSE

Next ==
    \/ MainCall
    \/ \E c \in Background : BackgroundCall(c)
    \/ \E c \in Thread : InCall(c)
    \/ Service
    \/ \E n \in Network, available \in BOOLEAN : NetworkChanges(n, available)
    \/ TunnelUp \/ TunnelDown \/ Kill \/ Reboot

Spec == Init /\ [][Next]_vars

\* The threads go on; the looper gets to the service, whatever else runs on the
\* main thread; the tunnel of a stopped worker is gone in
\* the end; WorkManager runs the heartbeat again and again while there is a
\* network (the bounds keep a heartbeat from starting while other calls are
\* under way, for a while only).
FairSpec ==
    /\ Spec
    /\ \A c \in Thread : WF_vars(InCall(c))
    /\ SF_vars(Service)
    /\ WF_vars(worker = "off" /\ TunnelDown)
    /\ SF_vars(\E c \in Background : Beat(c))

-----------------------------------------------------------------------------
\* The heartbeat is what brings a killed VPN back: whenever no call and no STOP
\* is under way, a VPN that is meant to run has its heartbeat scheduled, however
\* the calls of several threads overlapped. Only a call cut by the end of the
\* process leaves one without.
HeartbeatCovers ==
    Busy = {} /\ "STOP" \notin Range(intents) /\ status = "RUNNING"
        => heartbeat \/ "killed" \in lost

\* All commands and callbacks are handled, and the service is started.
StartedAndTold ==
    /\ service = "created" /\ sticky
    /\ ~restart /\ intents = <<>> /\ events = <<>>

\* A started VPN has its worker when a network is there whose type the service has
\* not been told to be lost since, however late callbacks come among commands and
\* restarts: the service counts types, so that one of several networks of a type takes
\* the type with it when it goes (removeNetworkType).
ConnectsToNetwork ==
    StartedAndTold /\ (\E n \in up : TypeOf[n] \notin lastLost) => worker = "on"

\* "This class is a worker to monitor the VpnService is still running": a VPN
\* that should run and has no service gets one as long as there is a network,
\* unless it is stopped, a call or a start was cut or refused by the system, or
\* someone asked isRunning meanwhile, which makes it one that should not run.
Recovers ==
    status = "RUNNING" /\ heartbeat /\ service = "none"
        ~> service = "created" \/ ~heartbeat \/ up = {} \/ lost # {}

(* What comments say and the code does not do.                             *)

\* "@return true if the service is started" (VpnServiceControls.start): the
\* start of a restart does not return true with the STOP still under way.
DocStart ==
    [][goal[Main] = "again" /\ pc[Main] = "status" /\ pc'[Main] = "idle"
         => "STOP" \notin Range(intents)]_vars
=============================================================================
