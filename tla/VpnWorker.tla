----------------------------- MODULE VpnWorker ------------------------------
(***************************************************************************)
(* The threads of the VPN: VpnWorker, whose executors each run work and    *)
(* VpnConnectionMonitor.monitor in two threads, the main thread that       *)
(* starts and stops them for VpnService, and the status messages the       *)
(* workers post to the handler of VpnService.                              *)
(*                                                                         *)
(* An executor is named by its rank: executor w runs worker w and monitor  *)
(* w.  All of them share the fields of VpnWorker: the tunnel reference and *)
(* the connection monitor.  What one connection does with packets is in    *)
(* DnsEventLoop; here it may end at any time, or never.                    *)
(***************************************************************************)
EXTENDS Integers, Sequences, SequencesExt

CONSTANTS
    MaxStarts,   \* bound of the number of executors, for model checking only
    MaxPosted    \* bound of the handler's queue, for model checking only

ASSUME WorkerAssumption == MaxStarts \in Nat /\ MaxPosted \in Nat

Worker == 1 .. MaxStarts
None == 0        \* null, or a tunnel that is closed already

Status == {"STARTING", "RUNNING", "STOPPING", "WAITING_FOR_NETWORK", "RECONNECTING",
           "RECONNECTING_NETWORK_ERROR", "STOPPED"}

VARIABLES
    started,              \* how many executors were created
    main,                 \* what the main thread has left to do in start or stop
    executor,             \* the current executor
    interrupted,          \* the executors that were shut down
    pc,                   \* where each worker is in work and runVpn
    tunnel,               \* the workers whose descriptor of the tunnel is open
    vpnNetworkInterface,  \* whose descriptor stop closes
    owner,                \* whose tunnel the system uses, None without VPN
    monitor,              \* where each monitor thread is
    running,              \* VpnConnectionMonitor.running
    networkInterface,     \* whose interface is monitored
    posted,               \* the messages of the handler of VpnService
    shown                 \* the status VpnService published last

control == <<started, main, executor, interrupted>>
messages == <<posted, shown>>
monitoring == <<monitor, running, networkInterface>>
vars == <<control, pc, tunnel, vpnNetworkInterface, owner, monitoring, messages>>

\* The places of runVpn where the descriptor is open, unless stop closed it.
Connected == {"store", "monitor", "announce", "loop"}
Ended == {"unborn", "done", "dead"}

TypeOK ==
    /\ started \in 0 .. MaxStarts
    /\ main \in {"idle", "swap", "close", "retire"}
    /\ executor \in 0 .. MaxStarts
    /\ interrupted \subseteq Worker
    /\ pc \in [Worker -> {"initialize", "throttle", "sleeping", "connect", "establish",
                          "reconnect", "stopping", "stopped"} \cup Connected \cup Ended]
    /\ tunnel \subseteq Worker
    /\ vpnNetworkInterface \in 0 .. MaxStarts
    /\ owner \in 0 .. MaxStarts
    /\ monitor \in [Worker -> {"test", "isUp", "down", "sleep"} \cup Ended]
    /\ running \in BOOLEAN
    /\ networkInterface \in 0 .. MaxStarts
    /\ posted \in Seq(Status)
    /\ shown \in Status

Init ==
    /\ started = 0
    /\ main = "idle"
    /\ executor = None
    /\ interrupted = {}
    /\ pc = [w \in Worker |-> "unborn"]
    /\ tunnel = {}
    /\ vpnNetworkInterface = None
    /\ owner = None
    /\ monitor = [w \in Worker |-> "unborn"]
    /\ running = TRUE
    /\ networkInterface = None
    /\ posted = <<>>
    /\ shown = "STOPPED"

-----------------------------------------------------------------------------
(* The main thread: VpnService calls start and stop one at a time.         *)

\* start: both tasks of the new executor begin before it replaces the old one.
Start(status) ==
    /\ main = "idle"
    /\ started < MaxStarts
    /\ started' = started + 1
    /\ pc' = [pc EXCEPT ![started + 1] = "initialize"]
    /\ monitor' = [monitor EXCEPT ![started + 1] = "test"]
    /\ main' = "swap"
    /\ shown' = status
    /\ UNCHANGED <<executor, interrupted, tunnel, vpnNetworkInterface, owner, running,
                   networkInterface, posted>>

\* VpnService.startVpn, and reconnect when the network changes.
StartVpn == Start("STARTING")
Reconnect == Start("RECONNECTING")

ForgetsToShutDown(new) ==
    /\ executor' = new
    /\ interrupted' = IF new = None THEN interrupted ELSE interrupted \cup ({executor} \ {None})

\* setExecutor: the executor it replaces is shut down (shutdownNow).
SetExecutor(new) ==
    /\ executor' = new
    /\ interrupted' = interrupted \cup ({executor} \ {None})

EndOfStart ==
    /\ main = "swap"
    /\ SetExecutor(started)
    /\ main' = "idle"
    /\ UNCHANGED <<started, pc, tunnel, vpnNetworkInterface, owner, monitoring, messages>>

\* stop: the monitor forgets the interface, then the tunnel is closed, then
\* the executor is shut down.
StopResets ==
    /\ main = "idle"
    /\ networkInterface' = None
    /\ main' = "close"
    /\ UNCHANGED <<started, executor, interrupted, pc, tunnel, vpnNetworkInterface, owner,
                   monitor, running, messages>>

\* Closing the descriptor of worker w takes its tunnel down.
CloseTunnel(w) ==
    /\ tunnel' = tunnel \ {w}
    /\ owner' = IF owner = w THEN None ELSE owner

StopCloses ==
    /\ main = "close"
    /\ CloseTunnel(vpnNetworkInterface)
    /\ main' = "retire"
    /\ UNCHANGED <<started, executor, interrupted, pc, vpnNetworkInterface, monitoring, messages>>

\* The end of stop, then the status of VpnService.stopVpn or waitForNetVpn.
EndOfStop(status) ==
    /\ main = "retire"
    /\ SetExecutor(None)
    /\ main' = "idle"
    /\ shown' = status
    /\ UNCHANGED <<started, pc, tunnel, vpnNetworkInterface, owner, monitoring, posted>>

StopVpn == EndOfStop("STOPPED")
WaitForNetVpn == EndOfStop("WAITING_FOR_NETWORK")

\* VpnService.handleMessage: updateVpnStatus.
HandleMessage ==
    /\ main = "idle"
    /\ posted # <<>>
    /\ shown' = Head(posted)
    /\ posted' = Tail(posted)
    /\ UNCHANGED <<control, pc, tunnel, vpnNetworkInterface, owner, monitoring>>

MainBusy == EndOfStart \/ StopCloses \/ StopVpn \/ WaitForNetVpn

-----------------------------------------------------------------------------
(* Worker w: work and runVpn.                                              *)

quiet == <<control, monitoring, messages>>

Moves(w, from, to) ==
    /\ pc[w] = from
    /\ pc' = [pc EXCEPT ![w] = to]

\* notifyVpnStatus.
Notify(status) ==
    /\ Len(posted) < MaxPosted
    /\ posted' = Append(posted, status)
    /\ UNCHANGED <<control, monitoring, shown>>

\* The thread ends without a message: a RuntimeException in a submitted task.
\* initialize does when the ad block model is no more the one of the VPN.
Initialize(w) ==
    /\ Moves(w, "initialize", "throttle") \/ Moves(w, "initialize", "dead")
    /\ UNCHANGED <<quiet, tunnel, vpnNetworkInterface, owner>>

\* VpnConnectionThrottler.throttle allows the connection right now, without a
\* look at the interruption of the thread, or sleeps.
Throttle(w) ==
    /\ Moves(w, "throttle", "connect") \/ Moves(w, "throttle", "sleeping")
    /\ UNCHANGED <<quiet, tunnel, vpnNetworkInterface, owner>>

Wakes(w) ==
    /\ w \notin interrupted
    /\ Moves(w, "sleeping", "connect")
    /\ UNCHANGED <<quiet, tunnel, vpnNetworkInterface, owner>>

GoesOn == "connect"

ReturnsAtOnce == "done"

\* The InterruptedException leaves the loop of work.
AfterInterrupt == "stopped"

SleepInterrupted(w) ==
    /\ w \in interrupted
    /\ Moves(w, "sleeping", AfterInterrupt)
    /\ UNCHANGED <<quiet, tunnel, vpnNetworkInterface, owner>>

NotifyStarting(w) ==
    /\ Moves(w, "connect", "establish")
    /\ Notify("STARTING")
    /\ UNCHANGED <<tunnel, vpnNetworkInterface, owner>>

\* VpnBuilder.establish: the system uses the new tunnel in place of the last.
Establish(w) ==
    /\ Moves(w, "establish", "store")
    /\ tunnel' = tunnel \cup {w}
    /\ owner' = w
    /\ UNCHANGED <<quiet, vpnNetworkInterface>>

\* No DNS server or network for it (VpnNetworkException), or no permission to
\* establish a VPN (a null descriptor, NullPointerException).
EstablishFails(w) ==
    /\ Moves(w, "establish", "reconnect") \/ Moves(w, "establish", "dead")
    /\ UNCHANGED <<quiet, tunnel, vpnNetworkInterface, owner>>

StoreInterface(w) ==
    /\ Moves(w, "store", "monitor")
    /\ vpnNetworkInterface' = w
    /\ UNCHANGED <<quiet, tunnel, owner>>

\* VpnConnectionMonitor.initialize: the tunnel interface there is.
InitializeMonitor(w) ==
    /\ owner # None
    /\ Moves(w, "monitor", "announce")
    /\ networkInterface' = owner
    /\ UNCHANGED <<control, messages, monitor, running, tunnel, vpnNetworkInterface, owner>>

NotifyRunning(w) ==
    /\ Moves(w, "announce", "loop")
    /\ Notify("RUNNING")
    /\ UNCHANGED <<tunnel, vpnNetworkInterface, owner>>

LeavesOpen(w) == UNCHANGED <<tunnel, owner, vpnNetworkInterface>>

\* try-with-resources closes the descriptor.  The reference to it stays: it
\* counts as None, closing it again has no effect.
Disconnects(w) ==
    /\ CloseTunnel(w)
    /\ vpnNetworkInterface' = IF vpnNetworkInterface = w THEN None ELSE vpnNetworkInterface

\* The end of the tunnel stream: runVpn returns.
EndOfStream(w) ==
    /\ Moves(w, "loop", "stopping")
    /\ Disconnects(w)
    /\ UNCHANGED quiet

\* IOException (poll, read, write) or VpnNetworkException (the watchdog).
ConnectionLost(w) ==
    /\ Moves(w, "loop", "reconnect")
    /\ Disconnects(w)
    /\ UNCHANGED quiet

\* A RuntimeException: the interface cannot be found (IllegalStateException),
\* or anything in the handling of a packet.
ConnectionCrashes(w) ==
    /\ \/ owner = None /\ Moves(w, "monitor", "dead")
       \/ Moves(w, "loop", "dead")
    /\ Disconnects(w)
    /\ UNCHANGED quiet

GivesUp == "stopped"

\* An exception of the network does not leave the loop of work.
AfterFailure == "throttle"

NotifyReconnecting(w) ==
    /\ Moves(w, "reconnect", AfterFailure)
    /\ Notify("RECONNECTING_NETWORK_ERROR")
    /\ UNCHANGED <<tunnel, vpnNetworkInterface, owner>>

NotifyStopping(w) ==
    /\ Moves(w, "stopping", "stopped")
    /\ Notify("STOPPING")
    /\ UNCHANGED <<tunnel, vpnNetworkInterface, owner>>

NotifyStopped(w) ==
    /\ Moves(w, "stopped", "done")
    /\ Notify("STOPPED")
    /\ UNCHANGED <<tunnel, vpnNetworkInterface, owner>>

-----------------------------------------------------------------------------
(* Monitor w: VpnConnectionMonitor.monitor.                                *)

others == <<control, pc, tunnel, vpnNetworkInterface, owner, messages>>

MonitorMoves(w, from, to) ==
    /\ monitor[w] = from
    /\ monitor' = [monitor EXCEPT ![w] = to]

\* The condition of the loop and the first read of networkInterface.
MonitorTests(w) ==
    /\ \/ ~running /\ MonitorMoves(w, "test", "done")
       \/ running /\ networkInterface # None /\ MonitorMoves(w, "test", "isUp")
       \/ running /\ networkInterface = None /\ MonitorMoves(w, "test", "sleep")
    /\ UNCHANGED <<others, running, networkInterface>>

\* The second read, or the third, of the catch that logs the name after isUp
\* threw: stop may have reset the field (NullPointerException).
MonitorCrashes(w) ==
    /\ networkInterface = None
    /\ MonitorMoves(w, "isUp", "dead")
    /\ UNCHANGED <<others, running, networkInterface>>

InterfaceUp == networkInterface # None /\ owner = networkInterface

MonitorSeesUp(w) ==
    /\ InterfaceUp
    /\ MonitorMoves(w, "isUp", "sleep")
    /\ UNCHANGED <<others, running, networkInterface>>

\* The interface is down: VpnConnectionMonitor.stop.
MonitorSeesDown(w) ==
    /\ networkInterface # None /\ ~InterfaceUp
    /\ MonitorMoves(w, "isUp", "down")
    /\ running' = FALSE
    /\ UNCHANGED <<others, networkInterface>>

\* The service is asked to start (StartVpn may follow), once its name is logged:
\* the field is tested and read again, and stop may have reset it in between.
MonitorAsksStart(w) ==
    /\ \/ MonitorMoves(w, "down", "sleep")
       \/ networkInterface = None /\ MonitorMoves(w, "down", "dead")
    /\ UNCHANGED <<others, running, networkInterface>>

\* isUp throws a SocketException: reset, and the service is asked to start.
MonitorFails(w) ==
    /\ networkInterface # None /\ ~InterfaceUp
    /\ MonitorMoves(w, "isUp", "done")
    /\ networkInterface' = None
    /\ UNCHANGED <<others, running>>

MonitorWakes(w) ==
    /\ w \notin interrupted
    /\ MonitorMoves(w, "sleep", "test")
    /\ UNCHANGED <<others, running, networkInterface>>

SleepsAgain == "test"

\* The InterruptedException breaks the loop.
MonitorAfterInterrupt == "done"

MonitorInterrupted(w) ==
    /\ w \in interrupted
    /\ MonitorMoves(w, "sleep", MonitorAfterInterrupt)
    /\ UNCHANGED <<others, running, networkInterface>>

\* Another VPN takes over, or the user revokes this one.
TunnelRevoked ==
    /\ owner # None
    /\ owner' = None
    /\ UNCHANGED <<quiet, pc, tunnel, vpnNetworkInterface>>

-----------------------------------------------------------------------------
\* What a worker does without waiting for anything but the processor.
WorkerBusy(w) ==
    \/ Initialize(w) \/ Throttle(w) \/ Wakes(w) \/ SleepInterrupted(w)
    \/ NotifyStarting(w) \/ Establish(w) \/ EstablishFails(w)
    \/ StoreInterface(w) \/ InitializeMonitor(w) \/ NotifyRunning(w)
    \/ NotifyReconnecting(w) \/ NotifyStopping(w) \/ NotifyStopped(w)
    \/ owner = None /\ pc[w] = "monitor" /\ ConnectionCrashes(w)

ConnectionEnds(w) == EndOfStream(w) \/ ConnectionLost(w) \/ ConnectionCrashes(w)

MonitorSteps(w) ==
    \/ MonitorTests(w) \/ MonitorCrashes(w) \/ MonitorSeesUp(w) \/ MonitorSeesDown(w)
    \/ MonitorAsksStart(w) \/ MonitorFails(w) \/ MonitorWakes(w)
    \/ MonitorInterrupted(w)

Next ==
    \/ StartVpn \/ Reconnect \/ StopResets \/ MainBusy \/ HandleMessage
    \/ \E w \in Worker : WorkerBusy(w) \/ ConnectionEnds(w) \/ MonitorSteps(w)
    \/ TunnelRevoked

Spec == Init /\ [][Next]_vars

\* Every thread runs when it can; a connection need not ever end, nor the
\* service start or stop the worker.  The looper of the main thread handles
\* messages in order, whatever commands come in between; the handler's queue
\* is only full by its bound here, so a worker that notifies is not held up.
FairSpec ==
    /\ Spec
    /\ WF_vars(MainBusy) /\ SF_vars(HandleMessage)
    /\ \A w \in Worker : SF_vars(WorkerBusy(w)) /\ WF_vars(MonitorSteps(w))

-----------------------------------------------------------------------------
Alive(w) == pc[w] \notin Ended \/ monitor[w] \notin Ended

\* Every executor with a thread left is the current one, the one start is about
\* to install, or has been shut down: no worker is out of reach.
SupersededInterrupted ==
    \A w \in Worker :
        Alive(w) => \/ w = executor
                    \/ main = "swap" /\ w = started
                    \/ w \in interrupted

\* The descriptor of a tunnel is closed on every way out of runVpn, crashes
\* included, and stop has one to close only while its worker runs.
TunnelsHeld ==
    /\ tunnel \subseteq {w \in Worker : pc[w] \in Connected}
    /\ owner # None => owner \in tunnel
    /\ vpnNetworkInterface # None => pc[vpnNetworkInterface] \in Connected

\* Once all threads have ended, none of them by an exception nobody sees, and
\* all their messages are handled, the status shown is one of a VPN that is
\* not connected: the late messages of several workers end with STOPPED.
QuietMeansStopped ==
    /\ main = "idle" /\ executor = None /\ posted = <<>>
    /\ \A w \in Worker : pc[w] \in {"unborn", "done"}
    => shown \in {"STOPPED", "WAITING_FOR_NETWORK"}

\* A worker that was shut down while it waits to reconnect ends.
InterruptedSleeperEnds ==
    \A w \in Worker : w \in interrupted /\ pc[w] = "sleeping" ~> pc[w] = "done"

\* A monitor that was shut down ends, wherever it was.
InterruptedMonitorEnds ==
    \A w \in Worker : w \in interrupted ~> monitor[w] \in Ended

\* A worker that lost its connection, or could not establish it, tries again
\* unless it is shut down.
Reconnects ==
    \A w \in Worker : pc[w] = "reconnect" ~> pc[w] = "establish" \/ w \in interrupted
=============================================================================
