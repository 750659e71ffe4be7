-------------------------- MODULE VpnWorkerProofs ---------------------------
(***************************************************************************)
(* Proofs about VpnWorker, for any number of starts.                       *)
(***************************************************************************)
EXTENDS VpnWorker, SequenceTheorems, TLAPS

\* A worker that is not born yet was not started; the others were.
BornInOrder ==
    /\ \A w \in Worker : (w > started) => pc[w] = "unborn" /\ monitor[w] = "unborn"
    /\ executor <= started
    /\ main = "swap" => started # 0

\* When no worker is left to post another message, the last one is STOPPED.
LastMessageStopped ==
    posted # <<>> /\ (\A w \in Worker : pc[w] \in {"unborn", "done"})
        => posted[Len(posted)] = "STOPPED"

Inv ==
    /\ TypeOK
    /\ BornInOrder
    /\ SupersededInterrupted
    /\ TunnelsHeld
    /\ LastMessageStopped
    /\ QuietMeansStopped

USE WorkerAssumption

LEMMA InitInv == Init => Inv
BY DEF Init, Inv, TypeOK, BornInOrder, SupersededInterrupted, TunnelsHeld, LastMessageStopped,
       QuietMeansStopped, Worker, None, Status, Connected, Ended, Alive

-----------------------------------------------------------------------------
(* The main thread.                                                        *)

LEMMA StartInv ==
    ASSUME Inv, NEW status \in Status, Start(status)
    PROVE  Inv'
<1> USE DEF Inv, Worker, None
<1> DEFINE n == started + 1
<1>1. /\ started \in 0 .. MaxStarts /\ started < MaxStarts /\ main = "idle"
      /\ n \in Worker /\ started' = n /\ main' = "swap" /\ shown' = status
      /\ pc' = [pc EXCEPT ![n] = "initialize"]
      /\ monitor' = [monitor EXCEPT ![n] = "test"]
      /\ UNCHANGED <<executor, interrupted, tunnel, vpnNetworkInterface, owner, running,
                     networkInterface, posted>>
  BY DEF Start, TypeOK
<1>2. /\ pc'[n] = "initialize" /\ monitor'[n] = "test"
      /\ \A w \in Worker : w # n => pc'[w] = pc[w] /\ monitor'[w] = monitor[w]
      /\ pc[n] = "unborn"
  BY <1>1 DEF TypeOK, BornInOrder
<1>3. TypeOK'
  BY <1>1 DEF TypeOK, Connected, Ended
<1> HIDE DEF n
<1>4. BornInOrder'
  BY <1>1, <1>2 DEF BornInOrder, TypeOK, n
<1>5. SupersededInterrupted'
  BY <1>1, <1>2 DEF SupersededInterrupted, Alive, Ended
<1>6. TunnelsHeld'
  BY <1>1, <1>2 DEF TunnelsHeld, TypeOK, Connected
<1>7. LastMessageStopped' /\ QuietMeansStopped'
  BY <1>1, <1>2 DEF LastMessageStopped, QuietMeansStopped
<1>8. QED
  BY <1>3, <1>4, <1>5, <1>6, <1>7

\* The executor that is replaced is shut down, whatever replaces it.
LEMMA EndOfStartInv == Inv /\ EndOfStart => Inv'
<1> SUFFICES ASSUME Inv, EndOfStart PROVE Inv'
  OBVIOUS
<1> USE DEF Inv, Worker, None
<1>1. /\ main = "swap" /\ main' = "idle" /\ executor' = started /\ started # 0
      /\ interrupted' = interrupted \cup ({executor} \ {0})
      /\ UNCHANGED <<started, pc, tunnel, vpnNetworkInterface, owner, monitor, running,
                     networkInterface, posted, shown>>
  BY DEF EndOfStart, SetExecutor, monitoring, messages, BornInOrder
<1>2. TypeOK'
  BY <1>1 DEF TypeOK
<1>3. BornInOrder' /\ TunnelsHeld' /\ LastMessageStopped' /\ QuietMeansStopped'
  BY <1>1 DEF BornInOrder, TunnelsHeld, LastMessageStopped, QuietMeansStopped, TypeOK
<1>4. SupersededInterrupted'
  BY <1>1 DEF SupersededInterrupted, Alive
<1>5. QED
  BY <1>2, <1>3, <1>4

LEMMA StopInv == Inv /\ (StopResets \/ StopCloses \/ StopVpn \/ WaitForNetVpn) => Inv'
<1> SUFFICES ASSUME Inv, StopResets \/ StopCloses \/ StopVpn \/ WaitForNetVpn PROVE Inv'
  OBVIOUS
<1> USE DEF Inv, Worker, None
<1>1. CASE StopResets
  BY <1>1 DEF StopResets, TypeOK, BornInOrder, SupersededInterrupted, TunnelsHeld,
              LastMessageStopped, QuietMeansStopped, Alive, messages
<1>2. CASE StopCloses
  <2>1. /\ main = "close" /\ main' = "retire"
        /\ tunnel' = tunnel \ {vpnNetworkInterface}
        /\ owner' = IF owner = vpnNetworkInterface THEN 0 ELSE owner
        /\ UNCHANGED <<started, executor, interrupted, pc, vpnNetworkInterface, monitor,
                       running, networkInterface, posted, shown>>
    BY <1>2 DEF StopCloses, CloseTunnel, monitoring, messages
  <2>2. TypeOK' /\ BornInOrder' /\ TunnelsHeld'
    BY <2>1 DEF TypeOK, BornInOrder, TunnelsHeld
  <2>3. SupersededInterrupted' /\ LastMessageStopped' /\ QuietMeansStopped'
    BY <2>1 DEF SupersededInterrupted, Alive, LastMessageStopped, QuietMeansStopped
  <2>4. QED
    BY <2>2, <2>3
<1>3. CASE StopVpn \/ WaitForNetVpn
  <2>1. /\ main = "retire" /\ main' = "idle" /\ executor' = 0
        /\ interrupted' = interrupted \cup ({executor} \ {0})
        /\ shown' \in {"STOPPED", "WAITING_FOR_NETWORK"}
        /\ UNCHANGED <<started, pc, tunnel, vpnNetworkInterface, owner, monitor, running,
                       networkInterface, posted>>
    BY <1>3 DEF StopVpn, WaitForNetVpn, EndOfStop, SetExecutor, monitoring
  <2>2. TypeOK'
    BY <2>1 DEF TypeOK, Status
  <2>3. BornInOrder' /\ TunnelsHeld' /\ LastMessageStopped' /\ QuietMeansStopped'
    BY <2>1 DEF BornInOrder, TunnelsHeld, LastMessageStopped, QuietMeansStopped, TypeOK
  <2>4. SupersededInterrupted'
    BY <2>1 DEF SupersededInterrupted, Alive
  <2>5. QED
    BY <2>2, <2>3, <2>4
<1>4. QED
  BY <1>1, <1>2, <1>3

LEMMA HandleMessageInv == Inv /\ HandleMessage => Inv'
<1> SUFFICES ASSUME Inv, HandleMessage PROVE Inv'
  OBVIOUS
<1> USE DEF Inv, Worker, None
<1>1. /\ posted # <<>> /\ shown' = Head(posted) /\ posted' = Tail(posted)
      /\ UNCHANGED <<started, main, executor, interrupted, pc, tunnel, vpnNetworkInterface,
                     owner, monitor, running, networkInterface>>
  BY DEF HandleMessage, control, monitoring
<1>2. posted \in Seq(Status)
  BY DEF TypeOK
<1>3. /\ Head(posted) \in Status /\ Tail(posted) \in Seq(Status)
      /\ Head(posted) = posted[1]
      /\ Len(Tail(posted)) = Len(posted) - 1
      /\ \A i \in 1 .. Len(Tail(posted)) : Tail(posted)[i] = posted[i + 1]
      /\ Len(posted) \in Nat \ {0}
  BY <1>1, <1>2, HeadTailProperties, EmptySeq
<1>4. TypeOK'
  BY <1>1, <1>3 DEF TypeOK
<1>5. BornInOrder' /\ SupersededInterrupted' /\ TunnelsHeld'
  BY <1>1 DEF BornInOrder, SupersededInterrupted, TunnelsHeld, Alive
<1>6. posted' # <<>> => posted'[Len(posted')] = posted[Len(posted)]
  <2>1. SUFFICES ASSUME posted' # <<>> PROVE posted'[Len(posted')] = posted[Len(posted)]
    OBVIOUS
  <2>2. Len(posted') # 0
    BY <1>1, <1>3, <2>1, EmptySeq
  <2>3. Len(posted') \in 1 .. Len(posted') /\ Len(posted') + 1 = Len(posted)
    BY <1>1, <1>3, <2>2
  <2>4. QED
    BY <1>1, <1>3, <2>3
<1>7. posted' = <<>> => shown' = posted[Len(posted)]
  <2>1. SUFFICES ASSUME posted' = <<>> PROVE Len(posted) = 1
    BY <1>1, <1>3
  <2>2. Len(Tail(posted)) = 0
    BY <1>1, <1>3, <2>1, EmptySeq
  <2>3. Len(posted) - 1 = 0
    BY <1>3, <2>2, Zenon
  <2>4. \A n \in Nat : n - 1 = 0 => n = 1
    OBVIOUS
  <2>5. Len(posted) \in Nat
    BY <1>3
  <2>6. QED
    BY <2>3, <2>4, <2>5, Zenon
<1>8. LastMessageStopped'
  BY <1>1, <1>6 DEF LastMessageStopped
<1>9. QuietMeansStopped'
  BY <1>1, <1>7 DEF LastMessageStopped, QuietMeansStopped
<1>10. QED
  BY <1>4, <1>5, <1>8, <1>9

-----------------------------------------------------------------------------
(* The worker threads.                                                     *)

Place == {"initialize", "throttle", "sleeping", "connect", "establish", "reconnect",
          "stopping", "stopped"} \cup Connected \cup Ended

LEMMA MoveEffect ==
    ASSUME TypeOK, NEW w \in Worker, NEW from, NEW to \in Place, Moves(w, from, to)
    PROVE  /\ pc[w] = from
           /\ pc'[w] = to
           /\ \A v \in Worker : v # w => pc'[v] = pc[v]
           /\ pc' \in [Worker -> Place]
BY DEF TypeOK, Moves, Place

\* A thread that moves was out of reach neither before nor after.
LEMMA MoveKeeps ==
    ASSUME Inv, NEW w \in Worker, NEW from \in Place \ Ended, NEW to \in Place \ {"unborn"},
           Moves(w, from, to), UNCHANGED <<control, monitor>>
    PROVE  BornInOrder' /\ SupersededInterrupted'
<1>1. /\ pc[w] = from /\ pc'[w] = to
      /\ \A v \in Worker : v # w => pc'[v] = pc[v]
  BY MoveEffect DEF Inv
<1>2. UNCHANGED <<started, main, executor, interrupted, monitor>>
  BY DEF control
<1>3. from # "unborn" /\ from \notin Ended
  BY DEF Ended
<1>4. ~(w > started)
  BY <1>1, <1>3 DEF Inv, BornInOrder
<1>5. BornInOrder'
  BY <1>1, <1>2, <1>4 DEF Inv, BornInOrder
<1>6. SupersededInterrupted'
  BY <1>1, <1>2, <1>3 DEF Inv, SupersededInterrupted, Alive
<1>7. QED
  BY <1>5, <1>6

\* The steps between connections that post no message.
LEMMA QuietMoveInv ==
    ASSUME Inv, NEW w \in Worker,
           \/ Initialize(w) \/ Throttle(w) \/ Wakes(w) \/ SleepInterrupted(w)
           \/ EstablishFails(w)
    PROVE  Inv'
<1>1. PICK from \in {"initialize", "throttle", "sleeping", "establish"},
           to \in {"throttle", "dead", "connect", "sleeping", "stopped", "reconnect"} :
              Moves(w, from, to)
  BY DEF Initialize, Throttle, Wakes, SleepInterrupted, EstablishFails, AfterInterrupt
<1>2. UNCHANGED <<control, monitor, running, networkInterface, posted, shown, tunnel,
                  vpnNetworkInterface, owner>>
  BY DEF Initialize, Throttle, Wakes, SleepInterrupted, EstablishFails, quiet, monitoring,
         messages
<1>3. from \in Place \ Ended /\ to \in Place \ {"unborn"}
  BY DEF Place, Ended, Connected
<1>4. BornInOrder' /\ SupersededInterrupted'
  BY <1>1, <1>2, <1>3, MoveKeeps
<1>5. /\ pc[w] = from /\ pc'[w] = to
      /\ \A v \in Worker : v # w => pc'[v] = pc[v]
      /\ pc' \in [Worker -> Place]
  BY <1>1, <1>3, MoveEffect DEF Inv
<1>6. TypeOK'
  BY <1>2, <1>5 DEF Inv, TypeOK, Place, control
<1>7. from \notin Connected /\ to \notin {"unborn", "done"}
  BY DEF Connected
<1>8. TunnelsHeld'
  BY <1>2, <1>5, <1>7 DEF Inv, TunnelsHeld, TypeOK, Worker, None
<1>9. LastMessageStopped' /\ QuietMeansStopped'
  BY <1>2, <1>5, <1>7 DEF LastMessageStopped, QuietMeansStopped
<1>10. QED
  BY <1>4, <1>6, <1>8, <1>9 DEF Inv

\* The steps that post a message: only the last one of a worker is followed by
\* its end, and that one is STOPPED.
LEMMA NotifyInv ==
    ASSUME Inv, NEW w \in Worker,
           \/ NotifyStarting(w) \/ NotifyRunning(w) \/ NotifyReconnecting(w)
           \/ NotifyStopping(w) \/ NotifyStopped(w)
    PROVE  Inv'
<1>1. PICK from \in Place \ Ended, to \in Place \ {"unborn"}, status \in Status :
        /\ Moves(w, from, to)
        /\ posted' = Append(posted, status)
        /\ to = "done" => status = "STOPPED"
        /\ from \in Connected <=> to \in Connected
  <2>1. CASE NotifyStarting(w)
    BY <2>1 DEF NotifyStarting, Notify, Place, Ended, Connected, Status
  <2>2. CASE NotifyRunning(w)
    BY <2>2 DEF NotifyRunning, Notify, Place, Ended, Connected, Status
  <2>3. CASE NotifyReconnecting(w)
    BY <2>3 DEF NotifyReconnecting, AfterFailure, Notify, Place, Ended, Connected, Status
  <2>4. CASE NotifyStopping(w)
    BY <2>4 DEF NotifyStopping, Notify, Place, Ended, Connected, Status
  <2>5. CASE NotifyStopped(w)
    BY <2>5 DEF NotifyStopped, Notify, Place, Ended, Connected, Status
  <2>6. QED
    BY <2>1, <2>2, <2>3, <2>4, <2>5
<1>2. UNCHANGED <<control, monitor, running, networkInterface, shown, tunnel,
                  vpnNetworkInterface, owner>>
  BY DEF NotifyStarting, NotifyRunning, NotifyReconnecting, NotifyStopping, NotifyStopped,
         Notify, monitoring
<1>3. BornInOrder' /\ SupersededInterrupted'
  BY <1>1, <1>2, MoveKeeps
<1>4. /\ pc[w] = from /\ pc'[w] = to
      /\ \A v \in Worker : v # w => pc'[v] = pc[v]
      /\ pc' \in [Worker -> Place]
  BY <1>1, MoveEffect DEF Inv
<1>5. posted \in Seq(Status)
  BY DEF Inv, TypeOK
<1>6. /\ posted' \in Seq(Status)
      /\ Len(posted') = Len(posted) + 1
      /\ posted'[Len(posted) + 1] = status
  BY <1>1, <1>5, AppendProperties
<1>7. posted' # <<>> /\ posted'[Len(posted')] = status
  BY <1>5, <1>6
<1>8. TypeOK'
  BY <1>2, <1>4, <1>6 DEF Inv, TypeOK, Place, control
<1>9. TunnelsHeld'
  BY <1>1, <1>2, <1>4 DEF Inv, TunnelsHeld, TypeOK, Worker, None
<1>10. to \in {"unborn", "done"} => status = "STOPPED"
  BY <1>1
<1>11. LastMessageStopped'
  BY <1>4, <1>7, <1>10 DEF LastMessageStopped
<1>12. QuietMeansStopped'
  BY <1>7 DEF QuietMeansStopped
<1>13. QED
  BY <1>3, <1>8, <1>9, <1>11, <1>12 DEF Inv

\* A connection is set up: its descriptor is open from establish on.
LEMMA ConnectInv ==
    ASSUME Inv, NEW w \in Worker,
           Establish(w) \/ StoreInterface(w) \/ InitializeMonitor(w)
    PROVE  Inv'
<1>1. PICK from \in {"establish", "store", "monitor"}, to \in Connected : Moves(w, from, to)
  BY DEF Establish, StoreInterface, InitializeMonitor, Connected
<1>2. UNCHANGED <<control, monitor, running, posted, shown>>
  BY DEF Establish, StoreInterface, InitializeMonitor, quiet, monitoring, messages
<1>3. from \in Place \ Ended /\ to \in Place \ {"unborn"}
  BY DEF Place, Ended, Connected
<1>4. BornInOrder' /\ SupersededInterrupted'
  BY <1>1, <1>2, <1>3, MoveKeeps
<1>5. /\ pc[w] = from /\ pc'[w] = to
      /\ \A v \in Worker : v # w => pc'[v] = pc[v]
      /\ pc' \in [Worker -> Place]
  BY <1>1, <1>3, MoveEffect DEF Inv
<1>6. /\ tunnel' \in {tunnel, tunnel \cup {w}}
      /\ \/ owner' = owner /\ tunnel' = tunnel
         \/ owner' = w /\ tunnel' = tunnel \cup {w}
      /\ vpnNetworkInterface' \in {vpnNetworkInterface, w}
      /\ networkInterface' \in {networkInterface, owner}
  BY DEF Establish, StoreInterface, InitializeMonitor, quiet, monitoring
<1>7. TypeOK'
  BY <1>2, <1>5, <1>6 DEF Inv, TypeOK, Place, control, Worker
<1>8. TunnelsHeld'
  BY <1>5, <1>6 DEF Inv, TunnelsHeld, TypeOK, Worker, None
<1>9. LastMessageStopped' /\ QuietMeansStopped'
  BY <1>2, <1>5 DEF LastMessageStopped, QuietMeansStopped, Connected
<1>10. QED
  BY <1>4, <1>7, <1>8, <1>9 DEF Inv

\* Every way out of a connection closes its descriptor.
LEMMA ConnectionEndsInv ==
    ASSUME Inv, NEW w \in Worker, ConnectionEnds(w)
    PROVE  Inv'
<1>1. PICK from \in {"loop", "monitor"}, to \in {"stopping", "reconnect", "dead"} :
        Moves(w, from, to)
  BY DEF ConnectionEnds, EndOfStream, ConnectionLost, ConnectionCrashes
<1>2. UNCHANGED <<control, monitor, running, networkInterface, posted, shown>>
  BY DEF ConnectionEnds, EndOfStream, ConnectionLost, ConnectionCrashes, quiet, monitoring,
         messages
<1>3. from \in Place \ Ended /\ to \in Place \ {"unborn"}
  BY DEF Place, Ended, Connected
<1>4. BornInOrder' /\ SupersededInterrupted'
  BY <1>1, <1>2, <1>3, MoveKeeps
<1>5. /\ pc[w] = from /\ pc'[w] = to
      /\ \A v \in Worker : v # w => pc'[v] = pc[v]
      /\ pc' \in [Worker -> Place]
  BY <1>1, <1>3, MoveEffect DEF Inv
<1>6. /\ tunnel' = tunnel \ {w}
      /\ owner' = IF owner = w THEN 0 ELSE owner
      /\ vpnNetworkInterface' = IF vpnNetworkInterface = w THEN 0 ELSE vpnNetworkInterface
  BY DEF ConnectionEnds, EndOfStream, ConnectionLost, ConnectionCrashes, Disconnects,
         CloseTunnel, None
<1>7. TypeOK'
  BY <1>2, <1>5, <1>6 DEF Inv, TypeOK, Place, control
<1>8. TunnelsHeld'
  BY <1>5, <1>6 DEF Inv, TunnelsHeld, TypeOK, Worker, None
<1>9. LastMessageStopped' /\ QuietMeansStopped'
  BY <1>2, <1>5 DEF LastMessageStopped, QuietMeansStopped
<1>10. QED
  BY <1>4, <1>7, <1>8, <1>9 DEF Inv

-----------------------------------------------------------------------------
(* The monitor threads and the system.                                     *)

LEMMA MonitorInv ==
    ASSUME Inv, NEW w \in Worker, MonitorSteps(w)
    PROVE  Inv'
<1>1. PICK from \in {"test", "isUp", "down", "sleep"},
           to \in {"test", "isUp", "down", "sleep", "done", "dead"} :
               MonitorMoves(w, from, to)
  BY DEF MonitorSteps, MonitorTests, MonitorCrashes, MonitorSeesUp, MonitorSeesDown,
         MonitorAsksStart, MonitorFails, MonitorWakes, MonitorInterrupted,
         MonitorAfterInterrupt
<1>2. /\ UNCHANGED <<started, main, executor, interrupted, pc, tunnel, vpnNetworkInterface,
                     owner, posted, shown>>
      /\ running' \in {running, FALSE}
      /\ networkInterface' \in {networkInterface, 0}
  BY DEF MonitorSteps, MonitorTests, MonitorCrashes, MonitorSeesUp, MonitorSeesDown,
         MonitorAsksStart, MonitorFails, MonitorWakes, MonitorInterrupted,
         others, control, messages, None
<1>3. /\ monitor[w] = from /\ monitor'[w] = to
      /\ \A v \in Worker : v # w => monitor'[v] = monitor[v]
      /\ monitor' \in [Worker -> {"test", "isUp", "down", "sleep"} \cup Ended]
  BY <1>1 DEF MonitorMoves, Inv, TypeOK, Ended
<1>4. TypeOK'
  <2>1. running' \in BOOLEAN
    BY <1>2, Zenon DEF Inv, TypeOK
  <2>2. networkInterface' \in 0 .. MaxStarts
    BY <1>2, WorkerAssumption DEF Inv, TypeOK
  <2>3. QED
    BY <1>2, <1>3, <2>1, <2>2 DEF Inv, TypeOK
<1>5. ~(w > started)
  BY <1>3 DEF Inv, BornInOrder
<1>6. BornInOrder'
  BY <1>2, <1>3, <1>5 DEF Inv, BornInOrder
<1>7. SupersededInterrupted'
  BY <1>2, <1>3 DEF Inv, SupersededInterrupted, Alive, Ended
<1>8. TunnelsHeld' /\ LastMessageStopped' /\ QuietMeansStopped'
  BY <1>2 DEF Inv, TunnelsHeld, LastMessageStopped, QuietMeansStopped
<1>9. QED
  BY <1>4, <1>6, <1>7, <1>8 DEF Inv

LEMMA RevokedInv == Inv /\ (TunnelRevoked \/ UNCHANGED vars) => Inv'
<1> SUFFICES ASSUME Inv, TunnelRevoked \/ UNCHANGED vars PROVE Inv'
  OBVIOUS
<1>1. /\ UNCHANGED <<started, main, executor, interrupted, pc, tunnel, vpnNetworkInterface,
                     monitor, running, networkInterface, posted, shown>>
      /\ owner' \in {owner, 0}
  BY DEF TunnelRevoked, vars, quiet, control, monitoring, messages, None
<1>2. QED
  BY <1>1 DEF Inv, TypeOK, BornInOrder, SupersededInterrupted, TunnelsHeld, LastMessageStopped,
              QuietMeansStopped, Alive, None

-----------------------------------------------------------------------------
\* Inv is inductive.
LEMMA NextInv == Inv /\ [Next]_vars => Inv'
<1> SUFFICES ASSUME Inv, [Next]_vars PROVE Inv'
  OBVIOUS
<1>1. CASE StartVpn \/ Reconnect
  BY <1>1, StartInv DEF StartVpn, Reconnect, Status
<1>2. CASE StopResets \/ MainBusy
  BY <1>2, EndOfStartInv, StopInv DEF MainBusy
<1>3. CASE HandleMessage
  BY <1>3, HandleMessageInv
<1>4. ASSUME NEW w \in Worker, WorkerBusy(w)
      PROVE  Inv'
  <2>1. CASE owner = None /\ pc[w] = "monitor" /\ ConnectionCrashes(w)
    BY <2>1, ConnectionEndsInv DEF ConnectionEnds
  <2>2. CASE ~(owner = None /\ pc[w] = "monitor" /\ ConnectionCrashes(w))
    BY <1>4, <2>2, QuietMoveInv, NotifyInv, ConnectInv DEF WorkerBusy
  <2>3. QED
    BY <2>1, <2>2
<1>5. CASE \E w \in Worker : ConnectionEnds(w)
  BY <1>5, ConnectionEndsInv
<1>6. CASE \E w \in Worker : MonitorSteps(w)
  BY <1>6, MonitorInv
<1>7. CASE TunnelRevoked \/ UNCHANGED vars
  BY <1>7, RevokedInv
<1>8. QED
  BY <1>1, <1>2, <1>3, <1>4, <1>5, <1>6, <1>7 DEF Next

LEMMA SpecInv == Spec => []Inv
BY InitInv, NextInv, PTL DEF Spec

\* The fields shared by the main thread, the workers and the monitors stay well
\* formed however their steps interleave.
THEOREM Types == Spec => []TypeOK
<1>1. Inv => TypeOK
  BY DEF Inv
<1>2. QED
  BY SpecInv, <1>1, PTL

\* setExecutor leaves no executor behind that still runs and was not shut down,
\* for any number of starts and stops.
THEOREM SupersededInterruptedTheorem == Spec => []SupersededInterrupted
<1>1. Inv => SupersededInterrupted
  BY DEF Inv
<1>2. QED
  BY SpecInv, <1>1, PTL

\* runVpn leaves no descriptor open, and what stop closes belongs to a worker
\* that is connected.
THEOREM TunnelsHeldTheorem == Spec => []TunnelsHeld
<1>1. Inv => TunnelsHeld
  BY DEF Inv
<1>2. QED
  BY SpecInv, <1>1, PTL

\* The messages of any number of workers leave the service with the status of
\* a VPN that is not connected, once all have ended as work does.
THEOREM QuietMeansStoppedTheorem == Spec => []QuietMeansStopped
<1>1. Inv => QuietMeansStopped
  BY DEF Inv
<1>2. QED
  BY SpecInv, <1>1, PTL
=============================================================================
