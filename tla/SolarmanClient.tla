------------------------------ MODULE SolarmanClient ------------------------------
(***************************************************************************)
(* One device client (pysolarman/__init__.py, class Solarman): the caller  *)
(* inside execute() or close(), the background keeper task that reads the  *)
(* socket and reconnects, the one-slot response queue between them, and    *)
(* the device and network they talk to.                                    *)
(*                                                                         *)
(* An action is what asyncio runs without a suspension point: from one     *)
(* await of a coroutine to the next.  The lock of the client admits one    *)
(* caller, so one program counter pc stands for "who holds the lock, and   *)
(* at which await".                                                        *)
(***************************************************************************)
EXTENDS Integers, Sequences, FiniteSets

CONSTANTS
  Conns,        \* sockets; one that nothing refers to any more is reused
  Tasks,        \* keeper tasks; one that has ended is reused
  None,         \* Python's None, and an empty response queue
  SeqMod,       \* modulus of the V5 sequence number (256 in the code)
  OpenTries,    \* attempts of _open_connection (3 in the code)
  BusyTries,    \* BUSY_RETRY_ATTEMPTS (5 in the code)
  Timeout,      \* the client's timeout in seconds (10 in the program)
  Device,       \* what the device speaks: "tcp" (Solarman V5) or "modbus_tcp"
  Losses,       \* how a connection can be lost
  Garbles,      \* what else can go wrong with a frame
  MayRefuse,    \* whether the device may stop accepting connections
  PromptClose,  \* whether wait_closed() never straddles the 60 s deadline
  MayStop,      \* whether the service may be shut down
  MaxFaults,    \* bound on the misbehaviour of device and network
  MaxInbox      \* bound on the answers a device owes on one connection

LossKinds == {"fin", "reset", "error", "silent"}
GarbleKinds == {"bad", "busy", "short", "piece", "report"}

ASSUME ConnsAssumption == None \notin Conns
ASSUME TasksAssumption == None \notin Tasks
ASSUME BoundsAssumption ==
  /\ SeqMod \in Nat \ {0}
  /\ OpenTries \in Nat \ {0}
  /\ BusyTries \in Nat \ {0}
  /\ Timeout \in Nat \ {0}
  /\ MaxFaults \in Nat
  /\ MaxInbox \in Nat
ASSUME KindsAssumption ==
  /\ Device \in {"tcp", "modbus_tcp"}
  /\ Losses \subseteq LossKinds
  /\ Garbles \subseteq GarbleKinds
  /\ MayRefuse \in BOOLEAN
  /\ PromptClose \in BOOLEAN
  /\ MayStop \in BOOLEAN

VARIABLES
  \* the caller
  pc,         \* the await at which execute() or close() is suspended
  attempt,    \* 1 or 2: the call of get_response under @retry
  busy,       \* the attempt of get_response_with_busy_retry
  via,        \* the transport whose _parse_adu_from_... function is running
  awaited,    \* the task that `await self._keeper` waits for
  woken,      \* how that task ended: "pending", "ok" or "failed"
  slow,       \* the long waits this execute() has spent (see SlowSteps)
  outcome,    \* how the last execute() ended
  stopping,   \* run_all has cancelled the worker and is closing the client
  \* the connection
  writer,     \* _writer
  reader,     \* _reader
  keeper,     \* _keeper
  status,     \* what each task is doing
  reading,    \* the connection whose reader each keeper loop awaits
  tries,      \* failed attempts of each _open_connection task
  \* the exchange
  event,      \* _data_event
  queue,      \* _data_queue, which holds one frame
  known,      \* serial_bytes is no longer the placeholder
  transport,  \* _transport
  sent,       \* _last_frame is not None
  \* the device and the network
  conn,       \* the state of each socket
  inbox,      \* the frames the device has put, or will put, on each socket
  up,         \* the device accepts connections
  faults      \* how often device and network may still misbehave

caller  == <<pc, attempt, busy, via, awaited, woken, slow, outcome, stopping>>
session == <<writer, reader, keeper, status, reading, tries>>
exchange == <<event, queue, known, transport, sent>>
world   == <<conn, inbox, up, faults>>
vars    == <<caller, session, exchange, world>>

-----------------------------------------------------------------------------
(* Data *)

\* What a frame turns out to be: a good answer; an answer with a wrong checksum
\* or CRC; a "server device busy" exception; less than a header; a Modbus TCP
\* device's echo of a V5 request; a frame the logger sends of its own accord;
\* the first bytes of a frame, and the rest of it.
Forms == {"ok", "bad", "busy", "short", "echo", "report", "piece", "rest"}

\* A frame on its way to the client.  Sequence numbers are relative: age is
\* _sequence_number minus the frame's number, modulo SeqMod, so the number
\* matches when age is 0.  origin is history: the frame answers a request of the
\* execute() now running, or of an earlier one, or SeqMod numbers have been
\* drawn since.
Frame == [age : 0..(SeqMod - 1), form : Forms, origin : {"own", "earlier", "lapped"}]

\* Mutant: the sequence number is not cut to a byte.
Older_NoMask(f, newCall) ==
  [age    |-> IF transport # "tcp" THEN f.age ELSE f.age + 1,
   form   |-> f.form,
   origin |-> IF newCall /\ f.origin = "own" THEN "earlier" ELSE f.origin]

\* The same frame after the next request: newCall when it opens an execute(),
\* and only a V5 request draws a number.
Older(f, newCall) ==
  LET wraps == transport = "tcp" /\ f.age = SeqMod - 1 IN
  [age    |-> IF transport # "tcp" THEN f.age ELSE IF wraps THEN 0 ELSE f.age + 1,
   form   |-> f.form,
   origin |-> IF wraps THEN "lapped"
              ELSE IF newCall /\ f.origin = "own" THEN "earlier" ELSE f.origin]
OlderQueue(q, newCall) == IF q = None THEN None ELSE Older(q, newCall)
OlderInbox(newCall) ==
  [c \in Conns |-> [i \in DOMAIN inbox[c] |-> Older(inbox[c][i], newCall)]]

CallerOK ==
  /\ pc \in {"idle", "throttle", "connect", "wait", "ready", "closing", "busysleep",
             "shutting", "closed"}
  /\ attempt \in 1..2
  /\ busy \in 1..BusyTries
  /\ via \in {"tcp", "modbus_tcp"}
  /\ awaited \in Tasks \cup {None}
  /\ woken \in {"pending", "ok", "failed"}
  /\ slow \in Nat
  /\ outcome \in {"none", "ok", "wrong", "wrapped", "failed"}
  /\ stopping \in BOOLEAN
SessionOK ==
  /\ writer \in Conns \cup {None}
  /\ reader \in Conns \cup {None}
  /\ keeper \in Tasks \cup {None}
  /\ status \in [Tasks -> {"dead", "opening", "starting", "reading"}]
  /\ reading \in [Tasks -> Conns \cup {None}]
  /\ tries \in [Tasks -> Nat]
ExchangeOK ==
  /\ event \in BOOLEAN
  /\ queue \in Frame \cup {None}
  /\ known \in BOOLEAN
  /\ transport \in {"tcp", "modbus_tcp"}
  /\ sent \in BOOLEAN
WorldOK ==
  /\ conn \in [Conns -> {"open", "closed"} \cup LossKinds]
  /\ inbox \in [Conns -> Seq(Frame)]
  /\ up \in BOOLEAN
  /\ faults \in 0..MaxFaults
TypeOK == CallerOK /\ SessionOK /\ ExchangeOK /\ WorldOK

Init ==
  /\ pc = "idle" /\ attempt = 1 /\ busy = 1 /\ via = "tcp"
  /\ awaited = None /\ woken = "pending" /\ slow = 0
  /\ outcome = "none" /\ stopping = FALSE
  /\ writer = None /\ reader = None /\ keeper = None
  /\ status = [t \in Tasks |-> "dead"]
  /\ reading = [t \in Tasks |-> None]
  /\ tries = [t \in Tasks |-> 0]
  /\ event = FALSE /\ queue = None
  /\ known = FALSE /\ transport = "tcp" /\ sent = FALSE
  /\ conn = [c \in Conns |-> "closed"]
  /\ inbox = [c \in Conns |-> <<>>]
  /\ up = TRUE /\ faults = MaxFaults

OthersRun == pc # "ready"
Live(t)   == status[t] # "dead"
connected == keeper # None /\ Live(keeper)

\* How many long waits fit into execute()'s deadline of 6 * timeout: a wait for
\* a response is cut after 3 * timeout - 1, and three connection attempts take
\* up to 3 * timeout.
SlowSteps == (6 * Timeout) \div (3 * Timeout - 1)
Slower == IF slow < SlowSteps THEN {slow, slow + 1} ELSE {slow}

Spend == faults > 0 /\ faults' = faults - 1

-----------------------------------------------------------------------------
(* The caller: execute() *)

\* Enter the parse function of the current transport, with q left in the queue.
\* The V5 one draws the next sequence number at once, then waits for the throttle
\* of _send_receive_frame.
StartAttempt(n, newCall, q) ==
  /\ attempt' = n
  /\ via' = transport
  /\ queue' = OlderQueue(q, newCall)
  /\ inbox' = OlderInbox(newCall)
  /\ pc' = "throttle"

Finish(result, q) ==
  /\ pc' = "idle"
  /\ outcome' = result
  /\ queue' = q
  /\ UNCHANGED <<attempt, via, busy, inbox>>

\* An exception leaves _get_response: @retry calls it once more; after that a
\* busy device is asked again later, anything else ends execute().
AttemptFails(isBusy, q) ==
  \/ /\ attempt = 1
     /\ StartAttempt(2, FALSE, q)
     /\ UNCHANGED <<busy, outcome>>
  \/ /\ attempt = 2 /\ isBusy /\ busy < BusyTries
     /\ pc' = "busysleep"
     /\ busy' = busy + 1
     /\ queue' = q
     /\ UNCHANGED <<attempt, via, inbox, outcome>>
  \/ /\ attempt = 2 /\ ~(isBusy /\ busy < BusyTries)
     /\ Finish("failed", q)

Call ==
  /\ pc = "idle" /\ ~stopping
  /\ StartAttempt(1, TRUE, queue)
  /\ busy' = 1 /\ slow' = 0 /\ outcome' = "none"
  /\ UNCHANGED <<awaited, woken, stopping, session, event, known, transport, sent,
                 conn, up, faults>>

BusyWake ==
  /\ pc = "busysleep"
  /\ StartAttempt(1, FALSE, queue)
  /\ UNCHANGED <<busy, awaited, woken, slow, outcome, stopping, session,
                 event, known, transport, sent, conn, up, faults>>

\* A device that speaks Modbus TCP takes a V5 frame for one of its own and echoes
\* its header.  Where the number was, the echo has its length: any byte, at times
\* the very number.  Its last byte is then END or not.
Answer(form) == [age |-> 0, form |-> form, origin |-> "own"]
Echoes == [age : 1..(SeqMod - 1), form : {"echo"}, origin : {"own"}]
LooksOwn == {Answer("echo"), Answer("bad")}

\* What the device does with a request: it answers, or something goes wrong.
DeviceTakes(c) ==
  \/ /\ conn[c] = "open" /\ Len(inbox[c]) < MaxInbox
     /\ \/ /\ \E f \in IF via = Device THEN {Answer("ok")} ELSE Echoes :
                inbox' = [inbox EXCEPT ![c] = Append(@, f)]
           /\ UNCHANGED faults
        \/ /\ via # Device /\ Spend
           /\ \E f \in LooksOwn : inbox' = [inbox EXCEPT ![c] = Append(@, f)]
        \/ \E form \in Garbles \cap {"bad", "busy", "short"} :
             inbox' = [inbox EXCEPT ![c] = Append(@, Answer(form))] /\ Spend
        \/ UNCHANGED inbox /\ Spend
     /\ UNCHANGED conn
  \/ /\ conn[c] = "open" /\ Len(inbox[c]) >= MaxInbox
     /\ UNCHANGED <<inbox, conn, faults>>
  \/ /\ conn[c] = "silent"
     /\ UNCHANGED <<inbox, conn, faults>>
  \/ /\ conn[c] = "fin"
     /\ conn' = [conn EXCEPT ![c] = "reset"]
     /\ inbox' = [inbox EXCEPT ![c] = <<>>]
     /\ UNCHANGED faults

Writable == writer # None /\ conn[writer] \in {"open", "silent", "fin"}

\* Awaiting _data_queue.get(): it does not suspend when a frame is left in there,
\* and then no other task runs before the caller goes on.
Get == IF queue = None THEN "wait" ELSE "ready"

\* The rest of _send_receive_frame once there is, or should be, a connection.
Transmit ==
  /\ sent' = TRUE
  /\ \/ /\ Writable
        /\ event' = TRUE
        /\ pc' = Get
        /\ DeviceTakes(writer)
        /\ UNCHANGED <<attempt, busy, via, queue, outcome>>
     \/ /\ ~Writable
        /\ event' = FALSE
        /\ AttemptFails(FALSE, queue)
        /\ UNCHANGED <<conn, faults>>
  /\ UNCHANGED <<awaited, woken, slow, stopping, session, known, transport, up>>

SendFrame == pc = "throttle" /\ writer # None /\ Transmit

AwaitKeeper ==
  /\ pc = "throttle" /\ writer = None /\ connected
  /\ pc' = "connect" /\ awaited' = keeper /\ woken' = "pending"
  /\ UNCHANGED <<attempt, busy, via, slow, outcome, stopping, session, exchange, world>>

\* Mutant: a connection is opened although the keeper is already opening one.
StartOpening_Always ==
  /\ pc = "throttle" /\ writer = None
  /\ \E t \in Tasks :
       /\ ~Live(t)
       /\ status' = [status EXCEPT ![t] = "opening"]
       /\ tries' = [tries EXCEPT ![t] = 0]
       /\ keeper' = t /\ awaited' = t
  /\ pc' = "connect" /\ woken' = "pending"
  /\ UNCHANGED <<attempt, busy, via, slow, outcome, stopping, writer, reader,
                 reading, exchange, world>>

\* Mutant: a connection is opened only when there is no keeper, so a dead one is
\* awaited again.
StartOpening_Once ==
  /\ pc = "throttle" /\ writer = None /\ ~connected
  /\ \/ /\ keeper = None
        /\ \E t \in Tasks :
             /\ status' = [status EXCEPT ![t] = "opening"]
             /\ tries' = [tries EXCEPT ![t] = 0]
             /\ keeper' = t /\ awaited' = t
        /\ pc' = "connect" /\ woken' = "pending"
        /\ UNCHANGED <<attempt, busy, via, slow, outcome, stopping, writer, reader,
                       reading, exchange, world>>
     \/ keeper # None /\ Transmit

\* Mutant: a dead keeper alone makes the caller open a connection.
StartOpening_NoKeeper ==
  /\ pc = "throttle" /\ ~connected
  /\ \E t \in Tasks :
       /\ ~Live(t)
       /\ status' = [status EXCEPT ![t] = "opening"]
       /\ tries' = [tries EXCEPT ![t] = 0]
       /\ keeper' = t /\ awaited' = t
  /\ pc' = "connect" /\ woken' = "pending"
  /\ UNCHANGED <<attempt, busy, via, slow, outcome, stopping, writer, reader,
                 reading, exchange, world>>

StartOpening ==
  /\ pc = "throttle" /\ writer = None /\ ~connected
  /\ \E t \in Tasks :
       /\ ~Live(t)
       /\ status' = [status EXCEPT ![t] = "opening"]
       /\ tries' = [tries EXCEPT ![t] = 0]
       /\ keeper' = t /\ awaited' = t
  /\ pc' = "connect" /\ woken' = "pending"
  /\ UNCHANGED <<attempt, busy, via, slow, outcome, stopping, writer, reader,
                 reading, exchange, world>>

KeeperAwaited  == pc = "connect" /\ woken = "ok" /\ Transmit

KeeperFailed ==
  /\ pc = "connect" /\ woken = "failed"
  /\ AttemptFails(FALSE, queue)
  /\ UNCHANGED <<awaited, woken, slow, stopping, session, event, known,
                 transport, sent, conn, up, faults>>

\* Mutant: the parser relies on the keeper's check of the sequence number.
Valid_NoCheck(f) == f.form # "echo"

\* A frame came out of the queue; the V5 parser checks its sequence number again.
Valid(f) == via = "tcp" => f.age = 0
Result(f) == IF f.origin = "own" THEN "ok"
             ELSE IF f.origin = "earlier" THEN "wrong" ELSE "wrapped"

\* When the first 8 to 10 bytes of a Modbus TCP answer arrive alone, they are filled
\* up to a short answer, which may pass for one.
Completed(f) == via = "modbus_tcp" /\ f.form = "piece"

Receive ==
  /\ pc \in {"wait", "ready"} /\ queue # None
  /\ event' = FALSE
  /\ \/ \* auto-discovery: keep the serial, send the request again
        /\ via = "tcp" /\ transport = "tcp" /\ ~known
        /\ known' = TRUE
        /\ StartAttempt(attempt, FALSE, None)
        /\ UNCHANGED <<busy, slow, outcome>>
     \/ /\ ~(via = "tcp" /\ transport = "tcp" /\ ~known)
        /\ \/ /\ \/ Valid(queue) /\ queue.form = "ok"
                 \/ Completed(queue)
              /\ Finish(Result(queue), None)
              /\ UNCHANGED slow
           \/ /\ ~(Valid(queue) /\ queue.form = "ok")
              /\ AttemptFails(Valid(queue) /\ queue.form = "busy", None)
              /\ slow' \in IF pc = "wait" THEN Slower ELSE {slow}
        /\ UNCHANGED known
  /\ UNCHANGED <<awaited, woken, stopping, session, transport, sent, conn, up, faults>>

\* The state of a socket after writer.close(): a lost one stays lost.
Shut(state) == IF state \in {"reset", "error"} THEN state ELSE "closed"

AnswerComing ==
  \/ queue # None
  \/ /\ writer # None /\ conn[writer] \in {"open", "fin"}
     /\ inbox[writer] # <<>> /\ connected

\* wait_for() gives up: _close() up to wait_closed().  An answer that is on its
\* way is late only if something delayed it.
WaitTimeout ==
  /\ pc = "wait" /\ slow < SlowSteps
  /\ slow' = slow + 1
  /\ IF AnswerComing THEN Spend ELSE UNCHANGED faults
  /\ IF writer = None
     THEN pc' = Get /\ reader' = None /\ UNCHANGED conn
     ELSE /\ pc' = "closing"
          /\ conn' = [conn EXCEPT ![writer] = Shut(@)]
          /\ UNCHANGED reader
  /\ UNCHANGED <<attempt, busy, via, awaited, woken, outcome, stopping, writer, keeper,
                 status, reading, tries, exchange, inbox, up>>

\* Mutant: _close() does not reset _writer.
ForgetWriter_Kept ==
  /\ conn' = [c \in Conns |-> IF c = writer THEN Shut(conn[c]) ELSE conn[c]]
  /\ writer' = writer /\ reader' = None

\* The rest of _close().  The StreamWriter that _writer held by then is garbage,
\* and its finaliser closes the socket.
ForgetWriter ==
  /\ conn' = [c \in Conns |-> IF c = writer THEN Shut(conn[c]) ELSE conn[c]]
  /\ writer' = None /\ reader' = None

CloseDone ==
  /\ pc = "closing"
  /\ ForgetWriter
  /\ pc' = Get
  /\ UNCHANGED <<attempt, busy, via, awaited, woken, slow, outcome, stopping, keeper,
                 status, reading, tries, exchange, inbox, up, faults>>

Suspended == {"throttle", "connect", "wait", "closing", "busysleep"}

\* Mutant: _data_event is not cleared in a finally clause.
Cancelled_NoFinally ==
  /\ event' = event
  /\ status' = IF pc = "connect" /\ woken = "pending"
               THEN [status EXCEPT ![awaited] = "dead"] ELSE status

\* CancelledError at the caller's await; a task it awaits is cancelled with it.
Cancelled ==
  /\ event' = FALSE
  /\ status' = IF pc = "connect" /\ woken = "pending"
               THEN [status EXCEPT ![awaited] = "dead"] ELSE status

\* Mutant: the deadline does not cover the wait for a response.
Deadline_NotWaiting ==
  /\ pc \in Suspended \ {"wait"} /\ slow >= SlowSteps
  /\ ~(PromptClose /\ pc = "closing")
  /\ Cancelled
  /\ Finish("failed", queue)
  /\ UNCHANGED <<awaited, woken, slow, stopping, writer, reader, keeper, reading,
                 tries, known, transport, sent, conn, up, faults>>

Deadline ==
  /\ pc \in Suspended /\ slow >= SlowSteps
  /\ ~(PromptClose /\ pc = "closing")
  /\ Cancelled
  /\ Finish("failed", queue)
  /\ UNCHANGED <<awaited, woken, slow, stopping, writer, reader, keeper, reading,
                 tries, known, transport, sent, conn, up, faults>>

-----------------------------------------------------------------------------
(* The caller: shutdown (run_all cancels the worker, then calls close()) *)

Stop ==
  /\ OthersRun /\ MayStop /\ ~stopping
  /\ stopping' = TRUE
  /\ Cancelled
  /\ pc' = "idle"
  /\ outcome' = "none"
  /\ UNCHANGED <<attempt, busy, via, awaited, woken, slow, writer, reader, keeper, reading,
                 tries, queue, known, transport, sent, world>>

\* Mutant: close() forgets to cancel the keeper.
Close_NoCancel ==
  /\ pc = "idle" /\ stopping
  /\ keeper' = None
  /\ IF writer = None
     THEN pc' = "closed" /\ reader' = None /\ UNCHANGED conn
     ELSE /\ pc' = "shutting"
          /\ conn' = [conn EXCEPT ![writer] = Shut(@)]
          /\ UNCHANGED reader
  /\ UNCHANGED <<attempt, busy, via, awaited, woken, slow, outcome, stopping, writer,
                 status, reading, tries, exchange, inbox, up, faults>>

\* Mutant: close() waits for the keeper to end by itself.
Close_AwaitsKeeper ==
  /\ pc = "idle" /\ stopping /\ ~connected
  /\ keeper' = None
  /\ IF writer = None
     THEN pc' = "closed" /\ reader' = None /\ UNCHANGED conn
     ELSE /\ pc' = "shutting"
          /\ conn' = [conn EXCEPT ![writer] = Shut(@)]
          /\ UNCHANGED reader
  /\ UNCHANGED <<attempt, busy, via, awaited, woken, slow, outcome, stopping, writer,
                 status, reading, tries, exchange, inbox, up, faults>>

Close ==
  /\ pc = "idle" /\ stopping
  /\ status' = IF connected THEN [status EXCEPT ![keeper] = "dead"] ELSE status
  /\ keeper' = None
  /\ IF writer = None
     THEN pc' = "closed" /\ reader' = None /\ UNCHANGED conn
     ELSE /\ pc' = "shutting"
          /\ conn' = [conn EXCEPT ![writer] = Shut(@)]
          /\ UNCHANGED reader
  /\ UNCHANGED <<attempt, busy, via, awaited, woken, slow, outcome, stopping, writer,
                 reading, tries, exchange, inbox, up, faults>>

ShutDone ==
  /\ pc = "shutting"
  /\ ForgetWriter
  /\ pc' = "closed"
  /\ UNCHANGED <<attempt, busy, via, awaited, woken, slow, outcome, stopping, keeper,
                 status, reading, tries, exchange, inbox, up, faults>>

-----------------------------------------------------------------------------
(* The keeper task *)

\* A task ends; a caller that awaits it is woken with its result.
Awaits(t) == pc = "connect" /\ awaited = t /\ woken = "pending"
Wakes(t, result) == woken' = IF Awaits(t) THEN result ELSE woken

OpenFails(t) ==
  /\ OthersRun /\ status[t] = "opening" /\ ~up
  /\ tries' = [tries EXCEPT ![t] = @ + 1]
  /\ IF ~sent \/ tries[t] + 1 = OpenTries
     THEN /\ status' = [status EXCEPT ![t] = "dead"]
          /\ Wakes(t, "failed")
          /\ slow' \in IF Awaits(t) THEN Slower ELSE {slow}
     ELSE UNCHANGED <<status, woken, slow>>
  /\ UNCHANGED <<pc, attempt, busy, via, awaited, outcome, stopping, writer, reader,
                 keeper, reading, exchange, world>>

\* The writer that is replaced is never closed by the code; its finaliser does it.
OpenSucceeds(t) ==
  /\ OthersRun /\ status[t] = "opening" /\ up
  /\ \E c \in Conns \ {writer}, u \in Tasks \ {t} :
       /\ ~Live(u)
       /\ \A v \in Tasks : status[v] = "reading" => reading[v] # c
       /\ writer' = c /\ reader' = c
       /\ conn' = [d \in Conns |-> IF d = c THEN "open"
                                   ELSE IF d = writer THEN Shut(conn[d]) ELSE conn[d]]
       /\ inbox' = [inbox EXCEPT ![c] = <<>>]
       /\ status' = [status EXCEPT ![t] = "dead", ![u] = "starting"]
       /\ reading' = [reading EXCEPT ![u] = None]
       /\ keeper' = u
  /\ Wakes(t, "ok")
  /\ UNCHANGED <<pc, attempt, busy, via, awaited, slow, outcome, stopping, tries,
                 exchange, up, faults>>

\* Evaluating `self._reader.read(...)`: without a reader the task dies.
NextRead(t, result) ==
  IF reader = None
  THEN status' = [status EXCEPT ![t] = "dead"] /\ Wakes(t, "failed") /\ UNCHANGED reading
  ELSE /\ status' = [status EXCEPT ![t] = "reading"]
       /\ reading' = [reading EXCEPT ![t] = reader]
       /\ UNCHANGED woken

LoopStarts(t) ==
  /\ OthersRun /\ status[t] = "starting"
  /\ NextRead(t, "ok")
  /\ UNCHANGED <<pc, attempt, busy, via, awaited, slow, outcome, stopping, writer, reader,
                 keeper, tries, exchange, world>>

Dies(t) ==
  /\ status' = [status EXCEPT ![t] = "dead"]
  /\ Wakes(t, "failed")
  /\ UNCHANGED <<reading, event, queue, transport>>

\* A frame is tested for an echo only when its number is not the current one.
Detects(f) == f.form = "echo" /\ f.age # 0

\* Mutant: a detected Modbus TCP device does not change the transport.
Takes_NoSwitch(t, f) ==
  IF transport = "tcp" /\ (\/ f.form = "short"
                           \/ f.form = "report" /\ f.age = 0 /\ ~Writable)
  THEN Dies(t)
  ELSE /\ LET valid == \/ transport # "tcp"
                       \/ Detects(f)
                       \/ f.age = 0 /\ f.form \in {"ok", "bad", "busy"}
          IN IF valid /\ event
             THEN queue' = f /\ event' = FALSE
             ELSE UNCHANGED <<queue, event>>
       /\ UNCHANGED transport
       /\ NextRead(t, "ok")

\* _handle_frame, then the hand-over to the caller, then the next read.
Takes(t, f) ==
  IF transport = "tcp" /\ (\/ f.form = "short"
                           \/ f.form = "report" /\ f.age = 0 /\ ~Writable)
  THEN Dies(t)
  ELSE /\ LET valid == \/ transport # "tcp"
                       \/ Detects(f)
                       \/ f.age = 0 /\ f.form \in {"ok", "bad", "busy"}
          IN /\ transport' = IF Detects(f) THEN "modbus_tcp" ELSE transport
             /\ IF valid /\ event
                THEN queue' = f /\ event' = FALSE
                ELSE UNCHANGED <<queue, event>>
       /\ NextRead(t, "ok")

\* A frame that another one follows in the same read(): the Modbus TCP parser
\* reads as far as the byte count, the V5 one takes the checksum of it all.
Joined(f) ==
  [age    |-> f.age,
   form   |-> IF transport = "modbus_tcp" \/ f.form = "report" THEN f.form
              ELSE IF f.form \in {"ok", "bad", "busy"} THEN "bad" ELSE "piece",
   origin |-> f.origin]
Piece(f) == [age |-> f.age, form |-> "piece", origin |-> f.origin]
Rest(f)  == [age |-> f.age, form |-> "rest", origin |-> f.origin]

\* read() returns one frame, two that TCP has joined, or a piece of one.
KeeperReads(t) ==
  /\ OthersRun /\ status[t] = "reading"
  /\ LET c == reading[t]
     IN /\ conn[c] \in {"open", "fin"} /\ inbox[c] # <<>>
        /\ \/ /\ inbox' = [inbox EXCEPT ![c] = Tail(@)]
              /\ Takes(t, Head(inbox[c]))
              /\ UNCHANGED faults
           \/ /\ Len(inbox[c]) > 1
              /\ inbox' = [inbox EXCEPT ![c] = SubSeq(@, 3, Len(@))]
              /\ Takes(t, Joined(Head(inbox[c])))
              /\ UNCHANGED faults
           \/ /\ "piece" \in Garbles /\ Spend
              /\ inbox' = [inbox EXCEPT ![c] = <<Rest(Head(@))>> \o Tail(@)]
              /\ Takes(t, Piece(Head(inbox[c])))
  /\ UNCHANGED <<pc, attempt, busy, via, awaited, slow, outcome, stopping, writer, reader,
                 keeper, tries, known, sent, conn, up>>

\* End of stream or ConnectionResetError: the loop ends and starts a reconnection.
KeeperEnds(t) ==
  /\ OthersRun /\ status[t] = "reading"
  /\ \/ conn[reading[t]] \in {"closed", "reset"}
     \/ conn[reading[t]] = "fin" /\ inbox[reading[t]] = <<>>
  /\ \E u \in Tasks \ {t} :
       /\ ~Live(u)
       /\ status' = [status EXCEPT ![t] = "dead", ![u] = "opening"]
       /\ tries' = [tries EXCEPT ![u] = 0]
       /\ keeper' = u
  /\ Wakes(t, "ok")
  /\ UNCHANGED <<pc, attempt, busy, via, awaited, slow, outcome, stopping, writer, reader,
                 reading, exchange, world>>

\* Any other exception of read() is not caught.
KeeperRaises(t) ==
  /\ OthersRun /\ status[t] = "reading" /\ conn[reading[t]] = "error"
  /\ Dies(t)
  /\ UNCHANGED <<pc, attempt, busy, via, awaited, slow, outcome, stopping, writer, reader,
                 keeper, tries, known, sent, world>>

-----------------------------------------------------------------------------
(* The device and the network *)

Lose(c) ==
  /\ conn[c] \in {"open", "silent"}
  /\ Spend
  /\ \E k \in Losses :
       /\ conn' = [conn EXCEPT ![c] = k]
       /\ inbox' = IF k = "fin" THEN inbox ELSE [inbox EXCEPT ![c] = <<>>]
  /\ up' \in IF MayRefuse THEN {up, FALSE} ELSE {up}
  /\ UNCHANGED <<caller, session, exchange>>

GoDown ==
  /\ MayRefuse /\ up /\ Spend
  /\ up' = FALSE
  /\ UNCHANGED <<caller, session, exchange, conn, inbox>>

ComeUp ==
  /\ ~up
  /\ up' = TRUE
  /\ UNCHANGED <<caller, session, exchange, conn, inbox, faults>>

\* A V5 logger sends frames of its own, with a sequence number of its own.
Report(c) ==
  /\ Device = "tcp" /\ "report" \in Garbles
  /\ conn[c] = "open" /\ Len(inbox[c]) < MaxInbox
  /\ Spend
  /\ \E n \in 0..(SeqMod - 1) :
       inbox' = [inbox EXCEPT ![c] = Append(@, [age |-> n, form |-> "report", origin |-> "earlier"])]
  /\ UNCHANGED <<caller, session, exchange, conn, up>>

-----------------------------------------------------------------------------
ExecStep ==
  \/ Call \/ BusyWake \/ SendFrame \/ AwaitKeeper \/ StartOpening
  \/ KeeperAwaited \/ KeeperFailed \/ Receive \/ WaitTimeout \/ CloseDone \/ Deadline
CloseStep == Close \/ ShutDone
KeeperStep(t) ==
  \/ OpenFails(t) \/ OpenSucceeds(t) \/ LoopStarts(t)
  \/ KeeperReads(t) \/ KeeperEnds(t) \/ KeeperRaises(t)
Environment ==
  \/ \E c \in Conns : Lose(c) \/ Report(c)
  \/ GoDown \/ ComeUp

\* The client is done: nothing is left to do.
Done == pc = "closed" /\ UNCHANGED vars

Next ==
  \/ ExecStep \/ Stop \/ CloseStep
  \/ \E t \in Tasks : KeeperStep(t)
  \/ Environment \/ Done

Spec == Init /\ [][Next]_vars

\* asyncio runs every ready task in turn, so a task that stays ready is run; a
\* device that is down comes back.  Nothing obliges device or network to fail.
Fairness ==
  /\ WF_vars(ExecStep) /\ WF_vars(CloseStep) /\ WF_vars(ComeUp)
  /\ \A t \in Tasks : WF_vars(KeeperStep(t))

FairSpec == Spec /\ Fairness
-----------------------------------------------------------------------------
(* Correctness *)

\* At most one background task is alive, and it is the one _keeper refers to:
\* no reconnection is left running by itself, and no two loops read one socket.
SingleKeeper == \A t \in Tasks : Live(t) => t = keeper

\* The stick serves one TCP session.  The client never has two, and never dials
\* while it still holds one.
Session == {c \in Conns : conn[c] \in {"open", "silent"}}
SingleSession ==
  /\ \A c \in Session : c = writer
  /\ (\E t \in Tasks : status[t] = "opening") => Session = {}

\* Data that execute() returns answers a request of this execute(), never a late
\* answer to an earlier one.
OwnData == outcome # "wrong"

\* When close() has returned, no task is alive and no socket is open.
CloseIsFinal ==
  pc = "closed" => /\ \A t \in Tasks : ~Live(t)
                   /\ Session = {} /\ writer = None /\ reader = None

\* The window in which the keeper accepts data is open only while the caller
\* waits for a response (or closes the connection on which it waited).
WindowGuarded == event => pc \in {"wait", "ready", "closing"} /\ sent

\* execute() always returns: the deadline and the bounded retries see to it.
ExecuteReturns == (pc = "throttle") ~> (pc \in {"idle", "closed"})

\* Once the service stops, close() completes.
ShutdownCompletes == stopping ~> (pc = "closed")

\* Device and network misbehave finitely often, so polling succeeds again.
Recovers == []<>(outcome = "ok" \/ stopping)

\* What read() or the code after it raises, other than ConnectionResetError, is
\* caught by nobody: an error of the socket, a frame without a sixth byte.
Uncaught == \E c \in Conns : \/ conn[c] = "error"
                            \/ \E i \in DOMAIN inbox[c] : inbox[c][i].form = "short"

\* A keeper that ends so leaves _writer as it is.  If the connection is dead as well,
\* every write fails, _close() is never reached, and no one dials again.
Stranded == ~connected /\ writer # None /\ ~Writable

\* The only thing a client does not recover from, as long as the device accepts
\* connections, is such an exception in the keeper, and only by being stranded: a
\* keeper that dies while its caller waits is replaced when the wait ends.
RecoversOrStranded == Recovers \/ (<>Uncaught /\ <>[]Stranded)

\* The client ends up speaking what the device speaks, and stays there.
Settles == <>[](transport = Device)

\* The client as a request channel: what is left of it for the worker.
ChannelState ==
  IF pc = "closed" THEN "closed"
  ELSE IF stopping THEN "stopping"
  ELSE IF pc = "idle" THEN "idle" ELSE "busy"
Channel == INSTANCE RequestChannel WITH state <- ChannelState, result <- outcome

\* With its keeper, retries and reconnections the client is still one request at a
\* time, each of which ends, with its own data or an exception, and it closes.
ImplementsChannel == Channel!FairSpec
=============================================================================
