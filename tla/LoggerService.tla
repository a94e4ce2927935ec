------------------------------ MODULE LoggerService ------------------------------
(***************************************************************************)
(* The process: configuration, health check, workers as tasks of one event *)
(* loop, the shared InfluxDB writer, and SIGTERM (main.py; config.py;      *)
(* run_all and create_device_worker of poller.py; writer.py).              *)
(*                                                                         *)
(* A step of a task lasts from one await to the next, and the synchronous  *)
(* write is part of it.  What a poll does is left to DevicePoller and what *)
(* a client does to SolarmanClient: here a poll is answered, or fails.     *)
(* The event loop's own part in a shutdown is that of asyncio.run: an      *)
(* exception that leaves the loop makes it cancel every task and run on    *)
(* until all have ended.                                                   *)
(***************************************************************************)
EXTENDS Integers, Sequences

CONSTANTS
  Files,       \* the configuration files the process may be given
  MaxSignals   \* bound on SIGTERMs

VARIABLES
  file,       \* the configuration file
  phase,      \* where main and run_all are, see Phases
  outcome,    \* how the process ended
  n,          \* the device run_all creates, or the worker whose client it closes
  tasks,      \* device -> "none", "asleep", "polling" or "ended"
  cancelled,  \* devices whose task was cancelled and has not run since
  clients,    \* device -> "none", "idle", "open" or "closed"
  writer,     \* whether the writer holds its client, and whether that is open
  holder,     \* the worker that never gives the event loop back, or 0
  signals,    \* SIGTERMs so far
  points      \* the points in InfluxDB: the name and type they carry, and whose they are

vars == <<file, phase, outcome, n, tasks, cancelled, clients, writer, holder, signals, points>>

Phases == {"loading", "checking", "starting", "polling", "cancelling", "closing",
           "flushing", "left", "exited"}

-----------------------------------------------------------------------------
(* load_config: a value of the file is absent, null, blank, a number, or a text *)
(* that is a decimal number, only a hexadecimal one, or none.                   *)

Absent   == [kind |-> "absent", val |-> 0]
Null     == [kind |-> "null", val |-> 0]
Blank    == [kind |-> "blank", val |-> 0]
Num(k)   == [kind |-> "number", val |-> k]
Decimal(k) == [kind |-> "decimal", val |-> k]
Hex(k)   == [kind |-> "hex", val |-> k]
Text(t)  == [kind |-> "text", val |-> t]

Numeric == {"number", "decimal", "hex"}
Given   == Numeric \cup {"text"}
Kinds   == Given \cup {"absent", "null", "blank"}
IsValue(v) == v.kind \in Kinds /\ (v.kind \in Numeric => v.val \in Int)

ASSUME FilesAssumption ==
  /\ MaxSignals \in Nat
  /\ \A f \in Files :
       /\ \A field \in DOMAIN f.influxdb : IsValue(f.influxdb[field])
       /\ IsValue(f.poll_interval)
       /\ Len(f.devices) \in Nat /\ DOMAIN f.devices = 1..Len(f.devices)
       /\ \A d \in DOMAIN f.devices : LET dev == f.devices[d] IN
            /\ IsValue(dev.name) /\ IsValue(dev.type) /\ IsValue(dev.host)
            /\ IsValue(dev.profile) /\ IsValue(dev.serial) /\ IsValue(dev.port)
            /\ IsValue(dev.slave) /\ IsValue(dev.poll_interval)

\* Mutant: a blank value passes.
_require_Blank(value) == value.kind \notin {"absent", "null"}

_require(value) == value.kind \notin {"absent", "null", "blank"}

\* int() of an optional value raises for null and for texts, unless they are decimal.
Converts(value) == value.kind \in {"absent", "number", "decimal"}

_parse_serial(value) ==
  value.kind \in {"absent", "null"} \/ (value.kind \in Numeric /\ value.val >= 0)

\* In the order of the constructor's arguments: an error of its own class for what
\* is required, any other for what int() refuses.
DeviceStatus(dev) ==
  CASE ~(_require(dev.name) /\ _require(dev.type) /\ _require(dev.host) /\ _require(dev.profile))
         -> "ConfigError"
    [] ~Converts(dev.port)         -> "ValueError"
    [] ~_parse_serial(dev.serial)  -> "ConfigError"
    [] ~Converts(dev.slave)        -> "ValueError"
    [] ~Converts(dev.poll_interval) -> "ValueError"
    [] OTHER -> "ok"

First(set) == CHOOSE k \in set : \A l \in set : k <= l
Last(set)  == CHOOSE k \in set : \A l \in set : k >= l

load_config(raw) ==
  LET bad == {k \in DOMAIN raw.devices : DeviceStatus(raw.devices[k]) # "ok"} IN
  IF \E field \in DOMAIN raw.influxdb : ~_require(raw.influxdb[field]) THEN "ConfigError"
  ELSE IF raw.poll_interval.kind # "number" \/ raw.poll_interval.val <= 0 THEN "ConfigError"
  ELSE IF raw.devices = <<>> THEN "ConfigError"
  ELSE IF bad # {} THEN DeviceStatus(raw.devices[First(bad)])
  ELSE "ok"

Devices == DOMAIN file.devices
AllDevices == UNION {DOMAIN f.devices : f \in Files}
Name(d) == file.devices[d].name.val
Type(d) == file.devices[d].type.val
Interval(d) ==
  LET own == file.devices[d].poll_interval IN
  IF own.kind = "absent" THEN file.poll_interval.val ELSE own.val

\* Mutant: the callback of every device sees the variable of the loop.
device_types_Last(name) == Type(Last(Devices))

\* The dictionary of main: of two devices of one name the last wins.
device_types(name) == Type(Last({d \in Devices : Name(d) = name}))

-----------------------------------------------------------------------------
(* Start-up *)

Init ==
  /\ file \in Files
  /\ phase = "loading" /\ outcome = "none" /\ n = 1
  /\ tasks = [d \in Devices |-> "none"] /\ cancelled = {}
  /\ clients = [d \in Devices |-> "none"]
  /\ writer = [held |-> FALSE, open |-> FALSE]
  /\ holder = 0 /\ signals = 0 /\ points = {}

Exits(how) == phase' = "exited" /\ outcome' = how

LoadConfig ==
  /\ phase = "loading"
  /\ IF load_config(file) = "ok"
     THEN /\ phase' = "checking" /\ UNCHANGED outcome
          /\ writer' = [held |-> TRUE, open |-> TRUE]
     ELSE Exits(load_config(file)) /\ UNCHANGED writer
  /\ UNCHANGED <<file, n, tasks, cancelled, clients, holder, signals, points>>

\* check_health, and the registration of the handler of SIGTERM
CheckHealth ==
  /\ phase = "checking" /\ phase' = "starting"
  /\ UNCHANGED <<file, outcome, n, tasks, cancelled, clients, writer, holder, signals, points>>
CheckHealthFails ==
  /\ phase = "checking" /\ Exits("unhealthy")
  /\ writer' = [held |-> FALSE, open |-> FALSE]
  /\ UNCHANGED <<file, n, tasks, cancelled, clients, holder, signals, points>>

\* create_device_worker; a device that fails is skipped.
CreateWorker ==
  /\ phase = "starting" /\ n \in Devices
  /\ clients' = [clients EXCEPT ![n] = "idle"]
  /\ n' = n + 1
  /\ UNCHANGED <<file, phase, outcome, tasks, cancelled, writer, holder, signals, points>>
CreateWorkerFails ==
  /\ phase = "starting" /\ n \in Devices
  /\ n' = n + 1
  /\ UNCHANGED <<file, phase, outcome, tasks, cancelled, clients, writer, holder, signals, points>>

Workers == {d \in Devices : clients[d] # "none"}

\* Mutant: a device that was skipped gets a task too.
StartTasks_All ==
  /\ phase = "starting" /\ n \notin Devices /\ Workers # {}
  /\ phase' = "polling"
  /\ tasks' = [d \in Devices |-> "asleep"]
  /\ UNCHANGED <<file, outcome, n, cancelled, clients, writer, holder, signals, points>>

StartTasks ==
  /\ phase = "starting" /\ n \notin Devices /\ Workers # {}
  /\ phase' = "polling"
  /\ tasks' = [d \in Devices |-> IF d \in Workers THEN "asleep" ELSE "none"]
  /\ UNCHANGED <<file, outcome, n, cancelled, clients, writer, holder, signals, points>>
NoWorkers ==
  /\ phase = "starting" /\ n \notin Devices /\ Workers = {}
  /\ phase' = "left"
  /\ UNCHANGED <<file, outcome, n, tasks, cancelled, clients, writer, holder, signals, points>>

-----------------------------------------------------------------------------
(* Workers *)

LoopRuns == phase \in {"polling", "cancelling", "closing", "flushing"}
Live(d)  == tasks[d] \in {"asleep", "polling"}
MayStep(d) == LoopRuns /\ holder = 0 /\ d \notin cancelled

\* A poll begins and waits for the device.
Poll(d) ==
  /\ MayStep(d) /\ tasks[d] = "asleep" /\ Interval(d) # 0
  /\ tasks' = [tasks EXCEPT ![d] = "polling"]
  /\ clients' = [clients EXCEPT ![d] = "open"]
  /\ UNCHANGED <<file, phase, outcome, n, cancelled, writer, holder, signals, points>>

\* An interval of 0: every cycle fails with ZeroDivisionError before its first
\* await, and the next follows at once.
Spin(d) ==
  /\ MayStep(d) /\ tasks[d] = "asleep" /\ Interval(d) = 0
  /\ holder' = d
  /\ UNCHANGED <<file, phase, outcome, n, tasks, cancelled, clients, writer, signals, points>>

\* Answered, and written; or the poll or the write fails.
Written(d) ==
  /\ MayStep(d) /\ tasks[d] = "polling"
  /\ tasks' = [tasks EXCEPT ![d] = "asleep"]
  /\ points' = points \cup {[name |-> Name(d), type |-> device_types(Name(d)), of |-> d]}
  /\ UNCHANGED <<file, phase, outcome, n, cancelled, clients, writer, holder, signals>>

\* Mutant: a failure ends the worker's task, and with it the gathering.
Fails_Task(d) ==
  /\ MayStep(d) /\ tasks[d] = "polling"
  /\ tasks' = [tasks EXCEPT ![d] = "ended"]
  /\ phase' = IF phase = "polling" THEN "cancelling" ELSE phase
  /\ cancelled' = IF phase = "polling" THEN {e \in Devices : Live(e)} \ {d} ELSE cancelled
  /\ UNCHANGED <<file, outcome, n, clients, writer, holder, signals, points>>

Fails(d) ==
  /\ MayStep(d) /\ tasks[d] = "polling"
  /\ tasks' = [tasks EXCEPT ![d] = "asleep"]
  /\ UNCHANGED <<file, phase, outcome, n, cancelled, clients, writer, holder, signals, points>>

\* Mutant: a poll takes the cancellation for a failure of its own.
EndTask_Swallows(d) ==
  /\ LoopRuns /\ d \in cancelled
  /\ tasks' = [tasks EXCEPT ![d] = IF tasks[d] = "polling" THEN "asleep" ELSE "ended"]
  /\ cancelled' = cancelled \ {d}
  /\ UNCHANGED <<file, phase, outcome, n, clients, writer, holder, signals, points>>

\* The cancellation is raised at the await where the task is.
EndTask(d) ==
  /\ LoopRuns /\ d \in cancelled
  /\ tasks' = [tasks EXCEPT ![d] = "ended"]
  /\ cancelled' = cancelled \ {d}
  /\ UNCHANGED <<file, phase, outcome, n, clients, writer, holder, signals, points>>

-----------------------------------------------------------------------------
(* SIGTERM and the way out *)

\* Before its handler is registered SIGTERM kills the process.
Killed ==
  /\ phase \in {"loading", "checking"} /\ signals < MaxSignals
  /\ signals' = signals + 1
  /\ Exits("killed")
  /\ UNCHANGED <<file, n, tasks, cancelled, clients, writer, holder, points>>

Signalled == signals < MaxSignals /\ signals' = signals + 1

\* While workers are created, run_all has nothing to clean up yet.
StopStarting ==
  /\ phase = "starting" /\ Signalled
  /\ phase' = "left"
  /\ UNCHANGED <<file, outcome, n, tasks, cancelled, clients, writer, holder, points>>

\* SystemExit leaves the loop from where the main thread is: idle, or in a worker,
\* whose task ends with it.  All others are cancelled and run_all's finally begins.
StopPolling(struck) ==
  /\ phase = "polling" /\ Signalled
  /\ holder # 0 => struck = {holder}
  /\ phase' = "cancelling"
  /\ holder' = 0
  /\ tasks' = [d \in Devices |-> IF d \in struck THEN "ended" ELSE tasks[d]]
  /\ cancelled' = {d \in Devices : Live(d)} \ struck
  /\ UNCHANGED <<file, outcome, n, clients, writer, points>>

\* Mutant: the cancelled tasks are not awaited.
TasksEnded_NoWait ==
  /\ phase = "cancelling"
  /\ phase' = "closing" /\ n' = 1
  /\ UNCHANGED <<file, outcome, tasks, cancelled, clients, writer, holder, signals, points>>

\* gather(*tasks, return_exceptions = True)
TasksEnded ==
  /\ phase = "cancelling" /\ \A d \in Devices : ~Live(d)
  /\ phase' = "closing" /\ n' = 1
  /\ UNCHANGED <<file, outcome, tasks, cancelled, clients, writer, holder, signals, points>>

\* client.close(), whose exceptions are logged.
CloseClient ==
  /\ phase = "closing" /\ n \in Devices
  /\ clients' = [clients EXCEPT ![n] = IF n \in Workers THEN "closed" ELSE clients[n]]
  /\ n' = n + 1
  /\ UNCHANGED <<file, phase, outcome, tasks, cancelled, writer, holder, signals, points>>
ClientsClosed ==
  /\ phase = "closing" /\ n \notin Devices
  /\ phase' = "flushing"
  /\ UNCHANGED <<file, outcome, n, tasks, cancelled, clients, writer, holder, signals, points>>

\* InfluxDBWriter.close: the reference is dropped last.
Close == writer' = [held |-> FALSE, open |-> IF writer.held THEN FALSE ELSE writer.open]

\* Mutant: the reference is dropped first.
CloseCut_RefFirst == writer' = [held |-> FALSE, open |-> writer.open]

\* It is struck by a signal somewhere inside.
CloseCut == writer' \in {writer, [held |-> writer.held, open |-> FALSE]}

\* on_shutdown
Flush ==
  /\ phase = "flushing" /\ phase' = "left"
  /\ Close
  /\ UNCHANGED <<file, outcome, n, tasks, cancelled, clients, holder, signals, points>>

\* A second signal abandons the event loop with what run_all has left to do.
Abandon ==
  /\ phase \in {"cancelling", "closing"} /\ Signalled
  /\ phase' = "left"
  /\ UNCHANGED <<file, outcome, n, tasks, cancelled, clients, writer, holder, points>>
FlushCut ==
  /\ phase = "flushing" /\ Signalled
  /\ phase' = "left"
  /\ CloseCut
  /\ UNCHANGED <<file, outcome, n, tasks, cancelled, clients, holder, points>>

\* The finally of main
Finish ==
  /\ phase = "left" /\ Exits("complete")
  /\ Close
  /\ UNCHANGED <<file, n, tasks, cancelled, clients, holder, signals, points>>
\* A signal before it, and one inside it.
SignalLeft ==
  /\ phase = "left" /\ Signalled
  /\ UNCHANGED <<file, phase, outcome, n, tasks, cancelled, clients, writer, holder, points>>
FinishCut ==
  /\ phase = "left" /\ Signalled /\ Exits("cut")
  /\ CloseCut
  /\ UNCHANGED <<file, n, tasks, cancelled, clients, holder, points>>

Startup == LoadConfig \/ CheckHealth \/ CheckHealthFails
Creation == CreateWorker \/ CreateWorkerFails \/ StartTasks \/ NoWorkers
WorkerStep(d) == Poll(d) \/ Spin(d) \/ Written(d) \/ Fails(d) \/ EndTask(d)
Cleanup == TasksEnded \/ CloseClient \/ ClientsClosed \/ Flush \/ Finish
Sigterm ==
  \/ Killed \/ StopStarting \/ Abandon \/ FlushCut \/ SignalLeft \/ FinishCut
  \/ \E struck \in {{}} \cup {{d} : d \in {e \in Devices : Live(e)}} : StopPolling(struck)

Next ==
  \/ Startup \/ Creation \/ Cleanup \/ Sigterm
  \/ \E d \in Devices : WorkerStep(d)

Spec == Init /\ [][Next]_vars

\* The event loop runs what is ready in turn; a poll ends (SolarmanClient, ExecuteReturns),
\* a client closes (ShutdownCompletes there), and InfluxDB's client has timeouts.
FairSpec ==
  /\ Spec
  /\ WF_vars(Startup) /\ WF_vars(Creation) /\ WF_vars(Cleanup)
  /\ \A d \in AllDevices : WF_vars(d \in Devices /\ WorkerStep(d))

-----------------------------------------------------------------------------
(* Properties *)

TypeOK ==
  /\ phase \in Phases /\ n \in 1..(Len(file.devices) + 1)
  /\ outcome \in {"none", "ConfigError", "ValueError", "unhealthy", "killed", "complete", "cut"}
  /\ (phase = "exited") = (outcome # "none")
  /\ \A d \in Devices : /\ tasks[d] \in {"none", "asleep", "polling", "ended"}
                        /\ clients[d] \in {"none", "idle", "open", "closed"}
                        /\ tasks[d] # "none" => clients[d] # "none"
  /\ cancelled \subseteq {d \in Devices : Live(d)}
  /\ holder \in {0} \cup Devices /\ signals \in 0..MaxSignals

\* A file with a defect that the loader names, or with a number that is none, never gets
\* as far as the health check, and a file without such a defect is never refused for its
\* configuration (config.py load_config, main.py 40-45).
Sound(f) ==
  /\ \A field \in DOMAIN f.influxdb : f.influxdb[field].kind \in Given
  /\ f.poll_interval.kind = "number" /\ f.poll_interval.val > 0
  /\ f.devices # <<>>
  /\ \A d \in DOMAIN f.devices : LET dev == f.devices[d] IN
       /\ {dev.name.kind, dev.type.kind, dev.host.kind, dev.profile.kind}
            \subseteq Given
       /\ dev.serial.kind \notin {"text", "blank"}
       /\ dev.serial.kind \in Numeric => dev.serial.val >= 0
Usable(f) ==
  \A d \in DOMAIN f.devices : LET dev == f.devices[d] IN
    {dev.port.kind, dev.slave.kind, dev.poll_interval.kind} \subseteq {"absent", "number", "decimal"}
FailsFast ==
  /\ ~(Sound(file) /\ Usable(file)) => phase \in {"loading", "exited"}
  /\ Sound(file) => outcome # "ConfigError"

\* A client is closed only when its worker's task has ended, and the writer only when
\* no task can run that would write (poller.py run_all 206-222).
ClosedLast ==
  /\ \A d \in Devices : clients[d] = "closed" => ~Live(d)
  /\ phase \in Phases \ {"loading", "exited"} /\ ~writer.open =>
       \A d \in Devices : ~Live(d) \/ ~LoopRuns

\* When the process ends by itself the writer has been closed, even if a signal struck
\* the first attempt, unless one struck the last; and after a single signal no client
\* is left with an open connection (main.py 70-77, writer.py close, poller.py 206-222).
CleanExit ==
  phase = "exited" /\ outcome \notin {"killed", "cut"} =>
    /\ ~writer.open
    /\ signals <= 1 => \A d \in Devices : clients[d] # "open"

\* A point carries the type of the device that measured it, as long as names are
\* unique (main.py 61, writer.py make_data_callback).
DistinctNames == \A d, e \in Devices : Name(d) = Name(e) => d = e
OwnTag == DistinctNames => \A p \in points : p.type = Type(p.of)

\* Every worker goes on polling whatever happens to the others, unless a device has
\* a poll interval of 0 (poller.py run 97-112, run_all 186-192 and 205).
Task(d) == IF d \in Devices THEN tasks[d] ELSE "none"
Isolated ==
  \A d \in AllDevices :
    (Task(d) = "asleep" /\ \A e \in Devices : Interval(e) # 0)
      ~> (Task(d) = "polling" \/ signals > 0)

\* A signal ends the process, also one that finds a worker that never gives the
\* loop back (main.py 64-77, poller.py 206-222).
ShutdownEnds == (signals > 0) ~> (phase = "exited")
=============================================================================
