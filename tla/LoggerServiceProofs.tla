--------------------------- MODULE LoggerServiceProofs ---------------------------
(***************************************************************************)
(* What LoggerService promises for every set of configuration files, any   *)
(* number of devices and any number of signals.                            *)
(***************************************************************************)
EXTENDS LoggerService, WellFoundedInduction, TLAPS

(* The loader *)

\* The first defect of a file exists (config.py load_config takes devices in order).
LEMMA FirstExists ==
  ASSUME NEW S \in SUBSET Nat, S # {}
  PROVE  First(S) \in S
<1>1. PICK k \in S : \A l \in S : ~(<<l, k>> \in OpToRel(<, Nat))
  BY WFMin, NatLessThanWellFounded
<1>2. \A l \in S : ~(l < k)
  BY <1>1, Zenon DEF OpToRel
<1>3. \A l \in S : k <= l
  BY <1>2
<1> QED
  BY <1>3 DEF First

\* Every device is accepted or refused in one of two ways (config.py 164-191).
LEMMA StatusResult ==
  ASSUME NEW dev
  PROVE  DeviceStatus(dev) \in {"ok", "ConfigError", "ValueError"}
BY Zenon DEF DeviceStatus

\* The same of a file (config.py load_config).
LEMMA LoadResult ==
  ASSUME NEW f
  PROVE  load_config(f) \in {"ok", "ConfigError", "ValueError"}
BY StatusResult DEF load_config

\* A device is accepted only when it is sound, and a sound one is never refused as
\* misconfigured (config.py 164-191).
SoundDevice(dev) ==
  /\ {dev.name.kind, dev.type.kind, dev.host.kind, dev.profile.kind}
       \subseteq Given
  /\ dev.serial.kind \notin {"text", "blank"}
  /\ dev.serial.kind \in Numeric => dev.serial.val >= 0
UsableDevice(dev) ==
  {dev.port.kind, dev.slave.kind, dev.poll_interval.kind} \subseteq {"absent", "number", "decimal"}
DeviceValues(dev) ==
  /\ IsValue(dev.name) /\ IsValue(dev.type) /\ IsValue(dev.host)
  /\ IsValue(dev.profile) /\ IsValue(dev.serial) /\ IsValue(dev.port)
  /\ IsValue(dev.slave) /\ IsValue(dev.poll_interval)

LEMMA StatusSound ==
  ASSUME NEW dev, DeviceValues(dev)
  PROVE  /\ DeviceStatus(dev) = "ok" => SoundDevice(dev) /\ UsableDevice(dev)
         /\ SoundDevice(dev) => DeviceStatus(dev) # "ConfigError"
<1> DEFINE Required == /\ _require(dev.name) /\ _require(dev.type)
                       /\ _require(dev.host) /\ _require(dev.profile)
<1>1. DeviceStatus(dev) = "ok" => Required /\ _parse_serial(dev.serial)
  BY Zenon DEF DeviceStatus
<1>2. DeviceStatus(dev) = "ConfigError" => ~Required \/ ~_parse_serial(dev.serial)
  BY Zenon DEF DeviceStatus
<1>3. Required <=> {dev.name.kind, dev.type.kind, dev.host.kind, dev.profile.kind}
                     \subseteq Given
  BY DEF DeviceValues, IsValue, Kinds, Given, Numeric, _require
<1>4. _parse_serial(dev.serial) <=>
        /\ dev.serial.kind \notin {"text", "blank"}
        /\ dev.serial.kind \in Numeric => dev.serial.val >= 0
  BY DEF DeviceValues, IsValue, Kinds, Given, Numeric, _parse_serial
<1>5. DeviceStatus(dev) = "ok" =>
        Converts(dev.port) /\ Converts(dev.slave) /\ Converts(dev.poll_interval)
  BY Zenon DEF DeviceStatus
<1> QED
  BY <1>1, <1>2, <1>3, <1>4, <1>5 DEF SoundDevice, UsableDevice, Converts

\* The devices of a file are numbered from 1, and its values are values.
LEMMA FileShape ==
  ASSUME NEW f \in Files
  PROVE  /\ Len(f.devices) \in Nat /\ DOMAIN f.devices = 1..Len(f.devices)
         /\ \A field \in DOMAIN f.influxdb : IsValue(f.influxdb[field])
         /\ IsValue(f.poll_interval)
         /\ \A d \in DOMAIN f.devices : DeviceValues(f.devices[d])
BY FilesAssumption DEF DeviceValues

\* A file that is accepted is sound, and a sound one is never refused as misconfigured.
LEMMA LoadSound ==
  ASSUME NEW f \in Files
  PROVE  /\ load_config(f) = "ok" => Sound(f) /\ Usable(f)
         /\ Sound(f) => load_config(f) # "ConfigError"
<1> DEFINE bad == {k \in DOMAIN f.devices : DeviceStatus(f.devices[k]) # "ok"}
           Fields == \A field \in DOMAIN f.influxdb : _require(f.influxdb[field])
           Every == f.poll_interval.kind = "number" /\ f.poll_interval.val > 0
           Sounds == \A d \in DOMAIN f.devices : SoundDevice(f.devices[d])
           Usables == \A d \in DOMAIN f.devices : UsableDevice(f.devices[d])
<1>1. bad \subseteq Nat
  BY FileShape
<1>2. bad # {} => First(bad) \in bad
  BY <1>1, FirstExists
<1>3. bad = {} => Sounds /\ Usables
  BY StatusSound, FileShape
<1>4. Sounds /\ bad # {} => DeviceStatus(f.devices[First(bad)]) # "ConfigError"
  BY <1>2, StatusSound, FileShape
<1>5. bad # {} => DeviceStatus(f.devices[First(bad)]) # "ok"
  BY <1>2
<1>6. Fields <=> \A field \in DOMAIN f.influxdb : f.influxdb[field].kind \in Given
  BY FileShape DEF _require, IsValue, Kinds, Given, Numeric
<1>7. Every <=> ~(f.poll_interval.kind # "number" \/ f.poll_interval.val <= 0)
  BY FileShape DEF IsValue, Numeric
<1>8. Sound(f) <=> /\ \A field \in DOMAIN f.influxdb : f.influxdb[field].kind \in Given
                   /\ Every /\ f.devices # <<>> /\ Sounds
  BY DEF Sound, SoundDevice
<1>9. load_config(f) =
        IF ~Fields THEN "ConfigError"
        ELSE IF ~Every THEN "ConfigError"
        ELSE IF f.devices = <<>> THEN "ConfigError"
        ELSE IF bad # {} THEN DeviceStatus(f.devices[First(bad)])
        ELSE "ok"
  BY <1>7, Zenon DEF load_config
<1>10. Usable(f) <=> Usables
  BY DEF Usable, UsableDevice
<1> HIDE DEF bad, Fields, Every, Sounds, Usables
<1> QED
  BY <1>3, <1>4, <1>5, <1>6, <1>8, <1>9, <1>10

-----------------------------------------------------------------------------
(* The inductive invariant *)

States == {"none", "asleep", "polling", "ended"}
Connections == {"none", "idle", "open", "closed"}
Outcomes == {"none", "ConfigError", "ValueError", "unhealthy", "killed", "complete", "cut"}
Before == {"loading", "checking", "starting"}
After  == {"closing", "flushing"}

\* What every variable is.
Shape ==
  /\ file \in Files
  /\ tasks \in [Devices -> States] /\ clients \in [Devices -> Connections]
  /\ writer \in [held : BOOLEAN, open : BOOLEAN]
  /\ phase \in Phases /\ outcome \in Outcomes
  /\ (phase = "exited") = (outcome # "none")
  /\ n \in 1..(Len(file.devices) + 1)
  /\ holder \in {0} \cup Devices /\ signals \in 0..MaxSignals

\* A task belongs to a client, and only a live task is cancelled.
Owned ==
  /\ \A d \in Devices : tasks[d] # "none" => clients[d] # "none"
  /\ cancelled \subseteq {d \in Devices : Live(d)}

\* What the phases say of tasks and clients.
Staged ==
  /\ phase \in Before => \A d \in Devices : tasks[d] = "none"
  /\ phase \in {"loading", "checking"} => \A d \in Devices : clients[d] = "none"
  /\ phase = "starting" => \A d \in Devices : clients[d] \in {"none", "idle"}
  /\ phase \in After => \A d \in Devices : ~Live(d)
  /\ \A d \in Devices : clients[d] = "closed" => ~Live(d)

\* No connection is left open, unless a second signal came.
Disconnected ==
  /\ phase \in {"cancelling", "closing", "flushing"} => signals >= 1
  /\ phase = "closing" => \A d \in Devices : d < n => clients[d] # "open"
  /\ phase = "flushing" => \A d \in Devices : clients[d] # "open"
  /\ phase \in {"left", "exited"} /\ signals <= 1 => \A d \in Devices : clients[d] # "open"

\* The writer holds its client as long as that is open, which it is until the way out.
Flushed ==
  /\ writer.open => writer.held
  /\ phase \in {"checking", "starting", "polling", "cancelling", "closing", "flushing"} => writer.open
  /\ phase = "loading" => ~writer.open
  /\ phase = "exited" /\ outcome \notin {"killed", "cut"} => ~writer.open

\* What the loader said decides how far the process gets.
Decided ==
  /\ phase \notin {"loading", "exited"} => load_config(file) = "ok"
  /\ outcome = "ConfigError" => load_config(file) = "ConfigError"

IInv == Shape /\ Owned /\ Staged /\ Disconnected /\ Flushed /\ Decided

LEMMA Numbered ==
  ASSUME Shape
  PROVE  Len(file.devices) \in Nat /\ Devices = 1..Len(file.devices) /\ MaxSignals \in Nat
BY FileShape, FilesAssumption DEF Shape, Devices

\* What the writer is made of.
LEMMA WriterRecord ==
  ASSUME NEW a \in BOOLEAN, NEW b \in BOOLEAN
  PROVE  [held |-> a, open |-> b] \in [held : BOOLEAN, open : BOOLEAN]
BY SMT

\* Every step keeps every variable in its set.
LEMMA ShapeStep ==
  ASSUME Shape, [Next]_vars
  PROVE  Shape'
<1>1. CASE LoadConfig
  <2>1. load_config(file) \in {"ok", "ConfigError", "ValueError"}
    BY LoadResult
  <2>2. writer' \in [held : BOOLEAN, open : BOOLEAN]
    <3>1. CASE load_config(file) = "ok"
      BY <1>1, <3>1, WriterRecord DEF LoadConfig
    <3>2. CASE load_config(file) # "ok"
      BY <1>1, <3>2 DEF LoadConfig, Shape
    <3> QED
      BY <3>1, <3>2
  <2>3. /\ phase' \in Phases /\ outcome' \in Outcomes
        /\ (phase' = "exited") = (outcome' # "none")
    BY <1>1, <2>1 DEF Shape, Phases, Outcomes, LoadConfig, Exits
  <2> QED
    BY <1>1, <2>2, <2>3, Numbered DEF Shape, Devices, LoadConfig
<1>2. CASE CheckHealth
  BY <1>2, Numbered DEF Shape, Devices, Phases, Outcomes, States, Connections, CheckHealth
<1>3. CASE CheckHealthFails
  BY <1>3, Numbered DEF Shape, Devices, Phases, Outcomes, States, Connections, CheckHealthFails, Exits
<1>4. CASE CreateWorker
  BY <1>4, Numbered DEF Shape, Devices, Phases, Outcomes, States, Connections, CreateWorker
<1>5. CASE CreateWorkerFails
  BY <1>5, Numbered DEF Shape, Devices, Phases, Outcomes, States, Connections, CreateWorkerFails
<1>6. CASE StartTasks
  BY <1>6, Numbered DEF Shape, Devices, Phases, Outcomes, States, Connections, StartTasks, Workers
<1>7. CASE NoWorkers
  BY <1>7, Numbered DEF Shape, Devices, Phases, Outcomes, States, Connections, NoWorkers, Workers
<1>8. CASE TasksEnded
  BY <1>8, Numbered DEF Shape, Devices, Phases, Outcomes, States, Connections, TasksEnded
<1>9. CASE CloseClient
  BY <1>9, Numbered DEF Shape, Devices, Phases, Outcomes, States, Connections, CloseClient, Workers
<1>10. CASE ClientsClosed
  BY <1>10, Numbered DEF Shape, Devices, Phases, Outcomes, States, Connections, ClientsClosed
<1>11. CASE Flush
  BY <1>11, Numbered DEF Shape, Devices, Phases, Outcomes, States, Connections, Flush, Close
<1>12. CASE Finish
  BY <1>12, Numbered DEF Shape, Devices, Phases, Outcomes, States, Connections, Finish, Exits, Close
<1>13. CASE Killed
  BY <1>13, Numbered DEF Shape, Devices, Phases, Outcomes, States, Connections, Killed, Exits
<1>14. CASE StopStarting
  BY <1>14, Numbered DEF Shape, Devices, Phases, Outcomes, States, Connections, StopStarting, Signalled
<1>15. CASE Abandon
  BY <1>15, Numbered DEF Shape, Devices, Phases, Outcomes, States, Connections, Abandon, Signalled
<1>16. CASE FlushCut
  <2>1. writer \in [held : BOOLEAN, open : BOOLEAN] /\ writer.held \in BOOLEAN
    BY DEF Shape
  <2>2. writer' = writer \/ writer' = [held |-> writer.held, open |-> FALSE]
    BY <1>16 DEF FlushCut, CloseCut
  <2>3. writer' \in [held : BOOLEAN, open : BOOLEAN]
    BY <2>1, <2>2, WriterRecord
  <2> QED
    BY <1>16, <2>3, Numbered DEF Shape, Devices, Phases, Outcomes, FlushCut, Signalled
<1>17. CASE SignalLeft
  BY <1>17, Numbered DEF Shape, Devices, Phases, Outcomes, States, Connections, SignalLeft, Signalled
<1>18. CASE FinishCut
  <2>1. writer \in [held : BOOLEAN, open : BOOLEAN] /\ writer.held \in BOOLEAN
    BY DEF Shape
  <2>2. writer' = writer \/ writer' = [held |-> writer.held, open |-> FALSE]
    BY <1>18 DEF FinishCut, CloseCut
  <2>3. writer' \in [held : BOOLEAN, open : BOOLEAN]
    BY <2>1, <2>2, WriterRecord
  <2> QED
    BY <1>18, <2>3, Numbered DEF Shape, Devices, Phases, Outcomes, FinishCut, Signalled, Exits
<1>19. ASSUME NEW d \in Devices, Poll(d) PROVE Shape'
  BY <1>19, Numbered DEF Shape, Devices, Phases, Outcomes, States, Connections, Poll, MayStep, LoopRuns
<1>20. ASSUME NEW d \in Devices, Spin(d) PROVE Shape'
  BY <1>20, Numbered DEF Shape, Devices, Phases, Outcomes, States, Connections, Spin, MayStep, LoopRuns
<1>21. ASSUME NEW d \in Devices, Written(d) PROVE Shape'
  BY <1>21, Numbered DEF Shape, Devices, Phases, Outcomes, States, Connections, Written, MayStep, LoopRuns
<1>22. ASSUME NEW d \in Devices, Fails(d) PROVE Shape'
  BY <1>22, Numbered DEF Shape, Devices, Phases, Outcomes, States, Connections, Fails, MayStep, LoopRuns
<1>23. ASSUME NEW d \in Devices, EndTask(d) PROVE Shape'
  BY <1>23, Numbered DEF Shape, Devices, Phases, Outcomes, States, Connections, EndTask, LoopRuns
<1>24. ASSUME NEW struck \in SUBSET {e \in Devices : Live(e)}, StopPolling(struck) PROVE Shape'
  BY <1>24, Numbered DEF Shape, Devices, Phases, Outcomes, States, Connections, StopPolling, Signalled
<1>25. CASE UNCHANGED vars
  BY <1>25, Numbered DEF Shape, Devices, Phases, Outcomes, States, Connections, vars
<1> QED
  BY <1>1, <1>2, <1>3, <1>4, <1>5, <1>6, <1>7, <1>8, <1>9, <1>10, <1>11, <1>12, <1>13,
     <1>14, <1>15, <1>16, <1>17, <1>18, <1>19, <1>20, <1>21, <1>22, <1>23, <1>24, <1>25
  DEF Next, Startup, Creation, Cleanup, Sigterm, WorkerStep

\* A task keeps its client, and cancellation finds only live tasks.
LEMMA OwnedStep ==
  ASSUME Shape, Owned, Staged, [Next]_vars
  PROVE  Owned'
<1>1. CASE LoadConfig
  BY <1>1, Numbered DEF Shape, Owned, Staged, Devices, Live, Before, Connections, LoadConfig, Exits
<1>2. CASE CheckHealth
  BY <1>2, Numbered DEF Shape, Owned, Staged, Devices, Live, Before, Connections, CheckHealth
<1>3. CASE CheckHealthFails
  BY <1>3, Numbered DEF Shape, Owned, Staged, Devices, Live, Before, Connections, CheckHealthFails, Exits
<1>4. CASE CreateWorker
  BY <1>4, Numbered DEF Shape, Owned, Staged, Devices, Live, Before, Connections, CreateWorker
<1>5. CASE CreateWorkerFails
  BY <1>5, Numbered DEF Shape, Owned, Staged, Devices, Live, Before, Connections, CreateWorkerFails
<1>6. CASE StartTasks
  BY <1>6, Numbered DEF Shape, Owned, Staged, Devices, Live, Before, Connections, StartTasks, Workers
<1>7. CASE NoWorkers
  BY <1>7, Numbered DEF Shape, Owned, Staged, Devices, Live, Before, Connections, NoWorkers, Workers
<1>8. CASE TasksEnded
  BY <1>8, Numbered DEF Shape, Owned, Staged, Devices, Live, Before, Connections, TasksEnded
<1>9. CASE CloseClient
  BY <1>9, Numbered DEF Shape, Owned, Staged, Devices, Live, Before, Connections, CloseClient, Workers
<1>10. CASE ClientsClosed
  BY <1>10, Numbered DEF Shape, Owned, Staged, Devices, Live, Before, Connections, ClientsClosed
<1>11. CASE Flush
  BY <1>11, Numbered DEF Shape, Owned, Staged, Devices, Live, Before, Connections, Flush, Close
<1>12. CASE Finish
  BY <1>12, Numbered DEF Shape, Owned, Staged, Devices, Live, Before, Connections, Finish, Exits, Close
<1>13. CASE Killed
  BY <1>13, Numbered DEF Shape, Owned, Staged, Devices, Live, Before, Connections, Killed, Exits
<1>14. CASE StopStarting
  BY <1>14, Numbered DEF Shape, Owned, Staged, Devices, Live, Before, Connections, StopStarting, Signalled
<1>15. CASE Abandon
  BY <1>15, Numbered DEF Shape, Owned, Staged, Devices, Live, Before, Connections, Abandon, Signalled
<1>16. CASE FlushCut
  BY <1>16, Numbered DEF Shape, Owned, Staged, Devices, Live, Before, Connections, FlushCut, Signalled, CloseCut
<1>17. CASE SignalLeft
  BY <1>17, Numbered DEF Shape, Owned, Staged, Devices, Live, Before, Connections, SignalLeft, Signalled
<1>18. CASE FinishCut
  BY <1>18, Numbered DEF Shape, Owned, Staged, Devices, Live, Before, Connections, FinishCut, Signalled, Exits, CloseCut
<1>19. ASSUME NEW d \in Devices, Poll(d) PROVE Owned'
  BY <1>19, Numbered DEF Shape, Owned, Staged, Devices, Live, Before, Connections, Poll, MayStep, LoopRuns
<1>20. ASSUME NEW d \in Devices, Spin(d) PROVE Owned'
  BY <1>20, Numbered DEF Shape, Owned, Staged, Devices, Live, Before, Connections, Spin, MayStep, LoopRuns
<1>21. ASSUME NEW d \in Devices, Written(d) PROVE Owned'
  BY <1>21, Numbered DEF Shape, Owned, Staged, Devices, Live, Before, Connections, Written, MayStep, LoopRuns
<1>22. ASSUME NEW d \in Devices, Fails(d) PROVE Owned'
  BY <1>22, Numbered DEF Shape, Owned, Staged, Devices, Live, Before, Connections, Fails, MayStep, LoopRuns
<1>23. ASSUME NEW d \in Devices, EndTask(d) PROVE Owned'
  BY <1>23, Numbered DEF Shape, Owned, Staged, Devices, Live, Before, Connections, EndTask, LoopRuns
<1>24. ASSUME NEW struck \in SUBSET {e \in Devices : Live(e)}, StopPolling(struck) PROVE Owned'
  <2>1. \A d \in Devices : tasks'[d] = IF d \in struck THEN "ended" ELSE tasks[d]
    BY <1>24 DEF StopPolling
  <2>2. \A d \in Devices : d \in cancelled' <=> Live(d) /\ d \notin struck
    BY <1>24 DEF StopPolling
  <2>3. cancelled' \subseteq Devices /\ Devices' = Devices /\ clients' = clients
    BY <1>24 DEF StopPolling, Devices
  <2>4. \A d \in Devices : tasks'[d] # "none" => clients[d] # "none"
    BY <1>24, <2>1 DEF Owned, Live
  <2> QED
    BY <2>1, <2>2, <2>3, <2>4 DEF Owned, Live
<1>25. CASE UNCHANGED vars
  BY <1>25, Numbered DEF Shape, Owned, Staged, Devices, Live, Before, Connections, vars
<1> QED
  BY <1>1, <1>2, <1>3, <1>4, <1>5, <1>6, <1>7, <1>8, <1>9, <1>10, <1>11, <1>12, <1>13,
     <1>14, <1>15, <1>16, <1>17, <1>18, <1>19, <1>20, <1>21, <1>22, <1>23, <1>24, <1>25
  DEF Next, Startup, Creation, Cleanup, Sigterm, WorkerStep

\* Every step keeps to its stage.
LEMMA StagedStep ==
  ASSUME Shape, Owned, Staged, [Next]_vars
  PROVE  Staged'
<1>1. CASE LoadConfig
  BY <1>1, Numbered DEF Shape, Staged, Devices, Live, Before, After, LoadConfig, Exits
<1>2. CASE CheckHealth
  BY <1>2, Numbered DEF Shape, Staged, Devices, Live, Before, After, CheckHealth
<1>3. CASE CheckHealthFails
  BY <1>3, Numbered DEF Shape, Staged, Devices, Live, Before, After, CheckHealthFails, Exits
<1>4. CASE CreateWorker
  BY <1>4, Numbered DEF Shape, Staged, Devices, Live, Before, After, CreateWorker
<1>5. CASE CreateWorkerFails
  BY <1>5, Numbered DEF Shape, Staged, Devices, Live, Before, After, CreateWorkerFails
<1>6. CASE StartTasks
  BY <1>6, Numbered DEF Shape, Staged, Devices, Live, Before, After, StartTasks, Workers
<1>7. CASE NoWorkers
  BY <1>7, Numbered DEF Shape, Staged, Devices, Live, Before, After, NoWorkers, Workers
<1>8. CASE TasksEnded
  BY <1>8, Numbered DEF Shape, Staged, Devices, Live, Before, After, TasksEnded
<1>9. CASE CloseClient
  BY <1>9, Numbered DEF Shape, Staged, Devices, Live, Before, After, CloseClient, Workers
<1>10. CASE ClientsClosed
  BY <1>10, Numbered DEF Shape, Staged, Devices, Live, Before, After, ClientsClosed
<1>11. CASE Flush
  BY <1>11, Numbered DEF Shape, Staged, Devices, Live, Before, After, Flush, Close
<1>12. CASE Finish
  BY <1>12, Numbered DEF Shape, Staged, Devices, Live, Before, After, Finish, Exits, Close
<1>13. CASE Killed
  BY <1>13, Numbered DEF Shape, Staged, Devices, Live, Before, After, Killed, Exits
<1>14. CASE StopStarting
  BY <1>14, Numbered DEF Shape, Staged, Devices, Live, Before, After, StopStarting, Signalled
<1>15. CASE Abandon
  BY <1>15, Numbered DEF Shape, Staged, Devices, Live, Before, After, Abandon, Signalled
<1>16. CASE FlushCut
  BY <1>16, Numbered DEF Shape, Staged, Devices, Live, Before, After, FlushCut, Signalled, CloseCut
<1>17. CASE SignalLeft
  BY <1>17, Numbered DEF Shape, Staged, Devices, Live, Before, After, SignalLeft, Signalled
<1>18. CASE FinishCut
  BY <1>18, Numbered DEF Shape, Staged, Devices, Live, Before, After, FinishCut, Signalled, Exits, CloseCut
<1>19. ASSUME NEW d \in Devices, Poll(d) PROVE Staged'
  BY <1>19, Numbered DEF Shape, Staged, Devices, Live, Before, After, Poll, MayStep, LoopRuns
<1>20. ASSUME NEW d \in Devices, Spin(d) PROVE Staged'
  BY <1>20, Numbered DEF Shape, Staged, Devices, Live, Before, After, Spin, MayStep, LoopRuns
<1>21. ASSUME NEW d \in Devices, Written(d) PROVE Staged'
  BY <1>21, Numbered DEF Shape, Staged, Devices, Live, Before, After, Written, MayStep, LoopRuns
<1>22. ASSUME NEW d \in Devices, Fails(d) PROVE Staged'
  BY <1>22, Numbered DEF Shape, Staged, Devices, Live, Before, After, Fails, MayStep, LoopRuns
<1>23. ASSUME NEW d \in Devices, EndTask(d) PROVE Staged'
  BY <1>23, Numbered DEF Shape, Staged, Devices, Live, Before, After, EndTask, LoopRuns
<1>24. ASSUME NEW struck \in SUBSET {e \in Devices : Live(e)}, StopPolling(struck) PROVE Staged'
  BY <1>24, Numbered DEF Shape, Staged, Devices, Live, Before, After, StopPolling, Signalled
<1>25. CASE UNCHANGED vars
  BY <1>25, Numbered DEF Shape, Staged, Devices, Live, Before, After, vars
<1> QED
  BY <1>1, <1>2, <1>3, <1>4, <1>5, <1>6, <1>7, <1>8, <1>9, <1>10, <1>11, <1>12, <1>13,
     <1>14, <1>15, <1>16, <1>17, <1>18, <1>19, <1>20, <1>21, <1>22, <1>23, <1>24, <1>25
  DEF Next, Startup, Creation, Cleanup, Sigterm, WorkerStep

\* A connection is left open only after a second signal.
LEMMA DisconnectedStep ==
  ASSUME Shape, Staged, Disconnected, [Next]_vars
  PROVE  Disconnected'
<1>1. CASE LoadConfig
  BY <1>1, Numbered DEF Shape, Staged, Disconnected, Devices, Before, LoadConfig, Exits
<1>2. CASE CheckHealth
  BY <1>2, Numbered DEF Shape, Staged, Disconnected, Devices, Before, CheckHealth
<1>3. CASE CheckHealthFails
  BY <1>3, Numbered DEF Shape, Staged, Disconnected, Devices, Before, CheckHealthFails, Exits
<1>4. CASE CreateWorker
  BY <1>4, Numbered DEF Shape, Staged, Disconnected, Devices, Before, CreateWorker
<1>5. CASE CreateWorkerFails
  BY <1>5, Numbered DEF Shape, Staged, Disconnected, Devices, Before, CreateWorkerFails
<1>6. CASE StartTasks
  BY <1>6, Numbered DEF Shape, Staged, Disconnected, Devices, Before, StartTasks, Workers
<1>7. CASE NoWorkers
  BY <1>7, Numbered DEF Shape, Staged, Disconnected, Devices, Before, NoWorkers, Workers
<1>8. CASE TasksEnded
  BY <1>8, Numbered DEF Shape, Staged, Disconnected, Devices, Before, TasksEnded
<1>9. CASE CloseClient
  BY <1>9, Numbered DEF Shape, Staged, Disconnected, Devices, Before, CloseClient, Workers
<1>10. CASE ClientsClosed
  BY <1>10, Numbered DEF Shape, Staged, Disconnected, Devices, Before, ClientsClosed
<1>11. CASE Flush
  BY <1>11, Numbered DEF Shape, Staged, Disconnected, Devices, Before, Flush, Close
<1>12. CASE Finish
  BY <1>12, Numbered DEF Shape, Staged, Disconnected, Devices, Before, Finish, Exits, Close
<1>13. CASE Killed
  BY <1>13, Numbered DEF Shape, Staged, Disconnected, Devices, Before, Killed, Exits
<1>14. CASE StopStarting
  BY <1>14, Numbered DEF Shape, Staged, Disconnected, Devices, Before, StopStarting, Signalled
<1>15. CASE Abandon
  BY <1>15, Numbered DEF Shape, Staged, Disconnected, Devices, Before, Abandon, Signalled
<1>16. CASE FlushCut
  BY <1>16, Numbered DEF Shape, Staged, Disconnected, Devices, Before, FlushCut, Signalled, CloseCut
<1>17. CASE SignalLeft
  BY <1>17, Numbered DEF Shape, Staged, Disconnected, Devices, Before, SignalLeft, Signalled
<1>18. CASE FinishCut
  BY <1>18, Numbered DEF Shape, Staged, Disconnected, Devices, Before, FinishCut, Signalled, Exits, CloseCut
<1>19. ASSUME NEW d \in Devices, Poll(d) PROVE Disconnected'
  BY <1>19, Numbered DEF Shape, Staged, Disconnected, Devices, Before, After, Live, Poll, MayStep, LoopRuns
<1>20. ASSUME NEW d \in Devices, Spin(d) PROVE Disconnected'
  BY <1>20, Numbered DEF Shape, Staged, Disconnected, Devices, Before, Spin, MayStep, LoopRuns
<1>21. ASSUME NEW d \in Devices, Written(d) PROVE Disconnected'
  BY <1>21, Numbered DEF Shape, Staged, Disconnected, Devices, Before, Written, MayStep, LoopRuns
<1>22. ASSUME NEW d \in Devices, Fails(d) PROVE Disconnected'
  BY <1>22, Numbered DEF Shape, Staged, Disconnected, Devices, Before, Fails, MayStep, LoopRuns
<1>23. ASSUME NEW d \in Devices, EndTask(d) PROVE Disconnected'
  BY <1>23, Numbered DEF Shape, Staged, Disconnected, Devices, Before, EndTask, LoopRuns
<1>24. ASSUME NEW struck \in SUBSET {e \in Devices : Live(e)}, StopPolling(struck) PROVE Disconnected'
  BY <1>24, Numbered DEF Shape, Staged, Disconnected, Devices, Before, StopPolling, Signalled
<1>25. CASE UNCHANGED vars
  BY <1>25, Numbered DEF Shape, Staged, Disconnected, Devices, Before, vars
<1> QED
  BY <1>1, <1>2, <1>3, <1>4, <1>5, <1>6, <1>7, <1>8, <1>9, <1>10, <1>11, <1>12, <1>13,
     <1>14, <1>15, <1>16, <1>17, <1>18, <1>19, <1>20, <1>21, <1>22, <1>23, <1>24, <1>25
  DEF Next, Startup, Creation, Cleanup, Sigterm, WorkerStep

\* The writer is closed on the way out, and not before.
LEMMA FlushedStep ==
  ASSUME Shape, Flushed, [Next]_vars
  PROVE  Flushed'
<1>1. CASE LoadConfig
  BY <1>1, Numbered DEF Shape, Flushed, LoadConfig, Exits
<1>2. CASE CheckHealth
  BY <1>2, Numbered DEF Shape, Flushed, CheckHealth
<1>3. CASE CheckHealthFails
  BY <1>3, Numbered DEF Shape, Flushed, CheckHealthFails, Exits
<1>4. CASE CreateWorker
  BY <1>4, Numbered DEF Shape, Flushed, CreateWorker
<1>5. CASE CreateWorkerFails
  BY <1>5, Numbered DEF Shape, Flushed, CreateWorkerFails
<1>6. CASE StartTasks
  BY <1>6, Numbered DEF Shape, Flushed, StartTasks, Workers
<1>7. CASE NoWorkers
  BY <1>7, Numbered DEF Shape, Flushed, NoWorkers, Workers
<1>8. CASE TasksEnded
  BY <1>8, Numbered DEF Shape, Flushed, TasksEnded
<1>9. CASE CloseClient
  BY <1>9, Numbered DEF Shape, Flushed, CloseClient, Workers
<1>10. CASE ClientsClosed
  BY <1>10, Numbered DEF Shape, Flushed, ClientsClosed
<1>11. CASE Flush
  BY <1>11, Numbered DEF Shape, Flushed, Flush, Close
<1>12. CASE Finish
  BY <1>12, Numbered DEF Shape, Flushed, Finish, Exits, Close
<1>13. CASE Killed
  BY <1>13, Numbered DEF Shape, Flushed, Killed, Exits
<1>14. CASE StopStarting
  BY <1>14, Numbered DEF Shape, Flushed, StopStarting, Signalled
<1>15. CASE Abandon
  BY <1>15, Numbered DEF Shape, Flushed, Abandon, Signalled
<1>16. CASE FlushCut
  BY <1>16, Numbered DEF Shape, Flushed, FlushCut, Signalled, CloseCut
<1>17. CASE SignalLeft
  BY <1>17, Numbered DEF Shape, Flushed, SignalLeft, Signalled
<1>18. CASE FinishCut
  BY <1>18, Numbered DEF Shape, Flushed, FinishCut, Signalled, Exits, CloseCut
<1>19. ASSUME NEW d \in Devices, Poll(d) PROVE Flushed'
  BY <1>19, Numbered DEF Shape, Flushed, Poll, MayStep, LoopRuns
<1>20. ASSUME NEW d \in Devices, Spin(d) PROVE Flushed'
  BY <1>20, Numbered DEF Shape, Flushed, Spin, MayStep, LoopRuns
<1>21. ASSUME NEW d \in Devices, Written(d) PROVE Flushed'
  BY <1>21, Numbered DEF Shape, Flushed, Written, MayStep, LoopRuns
<1>22. ASSUME NEW d \in Devices, Fails(d) PROVE Flushed'
  BY <1>22, Numbered DEF Shape, Flushed, Fails, MayStep, LoopRuns
<1>23. ASSUME NEW d \in Devices, EndTask(d) PROVE Flushed'
  BY <1>23, Numbered DEF Shape, Flushed, EndTask, LoopRuns
<1>24. ASSUME NEW struck \in SUBSET {e \in Devices : Live(e)}, StopPolling(struck) PROVE Flushed'
  BY <1>24, Numbered DEF Shape, Flushed, StopPolling, Signalled
<1>25. CASE UNCHANGED vars
  BY <1>25, Numbered DEF Shape, Flushed, vars
<1> QED
  BY <1>1, <1>2, <1>3, <1>4, <1>5, <1>6, <1>7, <1>8, <1>9, <1>10, <1>11, <1>12, <1>13,
     <1>14, <1>15, <1>16, <1>17, <1>18, <1>19, <1>20, <1>21, <1>22, <1>23, <1>24, <1>25
  DEF Next, Startup, Creation, Cleanup, Sigterm, WorkerStep

\* No step goes on without what the loader said.
LEMMA DecidedStep ==
  ASSUME Shape, Decided, [Next]_vars
  PROVE  Decided'
<1>1. CASE LoadConfig
  BY <1>1, Numbered DEF Shape, Decided, LoadConfig, Exits
<1>2. CASE CheckHealth
  BY <1>2, Numbered DEF Shape, Decided, CheckHealth
<1>3. CASE CheckHealthFails
  BY <1>3, Numbered DEF Shape, Decided, CheckHealthFails, Exits
<1>4. CASE CreateWorker
  BY <1>4, Numbered DEF Shape, Decided, CreateWorker
<1>5. CASE CreateWorkerFails
  BY <1>5, Numbered DEF Shape, Decided, CreateWorkerFails
<1>6. CASE StartTasks
  BY <1>6, Numbered DEF Shape, Decided, StartTasks, Workers
<1>7. CASE NoWorkers
  BY <1>7, Numbered DEF Shape, Decided, NoWorkers, Workers
<1>8. CASE TasksEnded
  BY <1>8, Numbered DEF Shape, Decided, TasksEnded
<1>9. CASE CloseClient
  BY <1>9, Numbered DEF Shape, Decided, CloseClient, Workers
<1>10. CASE ClientsClosed
  BY <1>10, Numbered DEF Shape, Decided, ClientsClosed
<1>11. CASE Flush
  BY <1>11, Numbered DEF Shape, Decided, Flush, Close
<1>12. CASE Finish
  BY <1>12, Numbered DEF Shape, Decided, Finish, Exits, Close
<1>13. CASE Killed
  BY <1>13, Numbered DEF Shape, Decided, Killed, Exits
<1>14. CASE StopStarting
  BY <1>14, Numbered DEF Shape, Decided, StopStarting, Signalled
<1>15. CASE Abandon
  BY <1>15, Numbered DEF Shape, Decided, Abandon, Signalled
<1>16. CASE FlushCut
  BY <1>16, Numbered DEF Shape, Decided, FlushCut, Signalled, CloseCut
<1>17. CASE SignalLeft
  BY <1>17, Numbered DEF Shape, Decided, SignalLeft, Signalled
<1>18. CASE FinishCut
  BY <1>18, Numbered DEF Shape, Decided, FinishCut, Signalled, Exits, CloseCut
<1>19. ASSUME NEW d \in Devices, Poll(d) PROVE Decided'
  BY <1>19, Numbered DEF Shape, Decided, Poll, MayStep, LoopRuns
<1>20. ASSUME NEW d \in Devices, Spin(d) PROVE Decided'
  BY <1>20, Numbered DEF Shape, Decided, Spin, MayStep, LoopRuns
<1>21. ASSUME NEW d \in Devices, Written(d) PROVE Decided'
  BY <1>21, Numbered DEF Shape, Decided, Written, MayStep, LoopRuns
<1>22. ASSUME NEW d \in Devices, Fails(d) PROVE Decided'
  BY <1>22, Numbered DEF Shape, Decided, Fails, MayStep, LoopRuns
<1>23. ASSUME NEW d \in Devices, EndTask(d) PROVE Decided'
  BY <1>23, Numbered DEF Shape, Decided, EndTask, LoopRuns
<1>24. ASSUME NEW struck \in SUBSET {e \in Devices : Live(e)}, StopPolling(struck) PROVE Decided'
  BY <1>24, Numbered DEF Shape, Decided, StopPolling, Signalled
<1>25. CASE UNCHANGED vars
  BY <1>25, Numbered DEF Shape, Decided, vars
<1> QED
  BY <1>1, <1>2, <1>3, <1>4, <1>5, <1>6, <1>7, <1>8, <1>9, <1>10, <1>11, <1>12, <1>13,
     <1>14, <1>15, <1>16, <1>17, <1>18, <1>19, <1>20, <1>21, <1>22, <1>23, <1>24, <1>25
  DEF Next, Startup, Creation, Cleanup, Sigterm, WorkerStep

LEMMA Initially ==
  ASSUME Init
  PROVE  IInv
<1>1. Len(file.devices) \in Nat /\ Devices = 1..Len(file.devices) /\ MaxSignals \in Nat
  BY FileShape, FilesAssumption DEF Init, Devices
<1>2. writer \in [held : BOOLEAN, open : BOOLEAN] /\ ~writer.open
  BY WriterRecord DEF Init
<1>3. Shape
  BY <1>1, <1>2 DEF Init, Shape, States, Connections, Phases, Outcomes
<1>4. Owned /\ Staged /\ Disconnected
  BY <1>1 DEF Init, Owned, Staged, Disconnected, Before, After, Live
<1>5. Flushed /\ Decided
  BY <1>2 DEF Init, Flushed, Decided
<1> QED
  BY <1>3, <1>4, <1>5 DEF IInv

\* The inductive invariant of the process.
THEOREM ServiceInvariance == Spec => []IInv
<1>1. IInv /\ [Next]_vars => IInv'
  BY ShapeStep, OwnedStep, StagedStep, DisconnectedStep, FlushedStep, DecidedStep DEF IInv
<1> QED
  BY Initially, <1>1, PTL DEF Spec

\* For every set of files and any number of signals, every variable keeps its type
\* (LoggerService's TypeOK).
THEOREM ServiceTypes == Spec => []TypeOK
<1>1. IInv => TypeOK
  BY DEF IInv, Shape, Owned, TypeOK, Outcomes, States, Connections
<1> QED
  BY ServiceInvariance, <1>1, PTL

\* No client is closed under a worker that may still use it, nor the writer under one
\* that may still write (poller.py 206-222).
THEOREM ShutdownOrder == Spec => []ClosedLast
<1>1. IInv => ClosedLast
  BY DEF IInv, Staged, Flushed, Shape, Phases, ClosedLast, LoopRuns
<1> QED
  BY ServiceInvariance, <1>1, PTL

\* A process that ends by itself has closed its writer and, after one signal at most,
\* every connection, however many devices and whatever the moment (main.py 70-77).
THEOREM NothingLeftOpen == Spec => []CleanExit
<1>1. IInv => CleanExit
  BY DEF IInv, Flushed, Disconnected, CleanExit
<1> QED
  BY ServiceInvariance, <1>1, PTL

\* A defective file is stopped before the first poll, and a sound one is not called
\* misconfigured, for every file (config.py load_config).
THEOREM BadFilesRefused == Spec => []FailsFast
<1>1. IInv => FailsFast
  BY LoadSound DEF IInv, Shape, Decided, FailsFast
<1> QED
  BY ServiceInvariance, <1>1, PTL

-----------------------------------------------------------------------------
(* Tags *)

\* Among devices of distinct names, the last of a name is the only one.
LEMMA LastOfName ==
  ASSUME DistinctNames, NEW d \in Devices, Devices \subseteq Int
  PROVE  device_types(Name(d)) = Type(d)
<1>1. {e \in Devices : Name(e) = Name(d)} = {d}
  BY DEF DistinctNames
<1>2. Last({d}) = d
  BY DEF Last
<1> QED
  BY <1>1, <1>2 DEF device_types

\* A point carries the type of the device that measured it, for any number of devices
\* of distinct names (main.py 61, writer.py make_data_callback).
THEOREM TagsAreOwn == Spec => []OwnTag
<1>1. Init => OwnTag
  BY DEF Init, OwnTag
<1>2. Shape /\ OwnTag /\ [Next]_vars => OwnTag'
  <2> SUFFICES ASSUME Shape, OwnTag, [Next]_vars PROVE OwnTag'
    OBVIOUS
  <2>1. file' = file
    BY DEF Next, Startup, Creation, Cleanup, Sigterm, WorkerStep, vars, LoadConfig, CheckHealth,
       CheckHealthFails, CreateWorker, CreateWorkerFails, StartTasks, NoWorkers, TasksEnded,
       CloseClient, ClientsClosed, Flush, Finish, Killed, StopStarting, Abandon, FlushCut,
       SignalLeft, FinishCut, StopPolling, Poll, Spin, Written, Fails, EndTask
  <2>2. CASE points' = points
    BY <2>1, <2>2 DEF OwnTag, DistinctNames, Devices, Name, Type
  <2>3. ASSUME NEW d \in Devices, Written(d) PROVE OwnTag'
    <3>1. points' = points \cup {[name |-> Name(d), type |-> device_types(Name(d)), of |-> d]}
      BY <2>3 DEF Written
    <3>2. DistinctNames => device_types(Name(d)) = Type(d)
      BY LastOfName, Numbered
    <3> QED
      BY <2>1, <3>1, <3>2 DEF OwnTag, DistinctNames, Devices, Name, Type
  <2>4. points' = points \/ \E d \in Devices : Written(d)
    BY DEF Next, Startup, Creation, Cleanup, Sigterm, WorkerStep, vars, LoadConfig, CheckHealth,
       CheckHealthFails, CreateWorker, CreateWorkerFails, StartTasks, NoWorkers, TasksEnded,
       CloseClient, ClientsClosed, Flush, Finish, Killed, StopStarting, Abandon, FlushCut,
       SignalLeft, FinishCut, StopPolling, Poll, Spin, Fails, EndTask
  <2> QED
    BY <2>2, <2>3, <2>4
<1>3. IInv => Shape
  BY DEF IInv
<1> QED
  BY ServiceInvariance, <1>1, <1>2, <1>3, PTL DEF Spec
==============================================================================
