-------------------------- MODULE SolarmanClientProofs --------------------------
(***************************************************************************)
(* What holds of SolarmanClient for every number of sockets, tasks, faults *)
(* and retries, whatever the device speaks and however it fails.           *)
(***************************************************************************)
EXTENDS SolarmanClient, TLAPS

-----------------------------------------------------------------------------
(* Frames and the containers that hold them *)

\* A frame stays a frame when the sequence number moves on.
LEMMA OlderType ==
  ASSUME NEW f \in Frame, NEW b
  PROVE  Older(f, b) \in Frame
  BY BoundsAssumption DEF Older, Frame

LEMMA OlderQueueType ==
  ASSUME NEW q \in Frame \cup {None}, NEW b
  PROVE  OlderQueue(q, b) \in Frame \cup {None}
  BY OlderType DEF OlderQueue

LEMMA OlderInboxType ==
  ASSUME inbox \in [Conns -> Seq(Frame)], NEW b
  PROVE  OlderInbox(b) \in [Conns -> Seq(Frame)]
<1> SUFFICES ASSUME NEW c \in Conns
             PROVE  [i \in DOMAIN inbox[c] |-> Older(inbox[c][i], b)] \in Seq(Frame)
  BY DEF OlderInbox
<1> DEFINE s == inbox[c]
<1>1. s \in Seq(Frame)
  OBVIOUS
<1>2. \A i \in DOMAIN s : Older(s[i], b) \in Frame
  BY <1>1, OlderType
<1> HIDE DEF s
<1>3. [i \in DOMAIN s |-> Older(s[i], b)] \in [1..Len(s) -> Frame]
  BY <1>1, <1>2
<1> QED
  BY <1>1, <1>3 DEF s

-----------------------------------------------------------------------------
(* The inductive invariant *)

\* A loop reads from a socket, and from the writer's if there is a session.
LoopReads ==
  \A t \in Tasks : status[t] = "reading" =>
     reading[t] \in Conns /\ (Session # {} => reading[t] = writer)

\* _reader and _writer belong together.
PairedStreams == writer # None => reader = writer

\* A caller that waits for the keeper waits for the live one.
AwaitsLive ==
  pc = "connect" /\ woken = "pending" => awaited = keeper /\ keeper \in Tasks /\ Live(keeper)

\* From close() on there is no task left that could open a connection.
ClosingQuiet ==
  /\ pc \in {"shutting", "closed"} => stopping /\ \A t \in Tasks : ~Live(t)
  /\ pc = "closed" => writer = None /\ reader = None

\* A V5 device echoes nothing, and a good answer to an earlier execute() bears an
\* older number.
Aged(f) == f.form # "echo" /\ (f.form = "ok" /\ f.origin = "earlier" => f.age # 0)
FramesAged ==
  /\ transport = "tcp" /\ via = "tcp"
  /\ queue # None => Aged(queue)
  /\ \A c \in Conns : \A i \in DOMAIN inbox[c] : Aged(inbox[c][i])
AnswersOwn == Device = "tcp" => FramesAged /\ OwnData

-----------------------------------------------------------------------------
(* Types *)

LEMMA StartAttemptType ==
  ASSUME TypeOK, NEW n \in 1..2, NEW b, NEW q \in Frame \cup {None},
         StartAttempt(n, b, q)
  PROVE  /\ pc' = "throttle" /\ attempt' = n /\ via' = transport
         /\ queue' \in Frame \cup {None} /\ inbox' \in [Conns -> Seq(Frame)]
<1>1. inbox \in [Conns -> Seq(Frame)]
  BY DEF TypeOK, WorldOK
<1>2. OlderQueue(q, b) \in Frame \cup {None}
  BY OlderQueueType
<1>3. OlderInbox(b) \in [Conns -> Seq(Frame)]
  BY <1>1, OlderInboxType
<1> QED
  BY <1>2, <1>3 DEF StartAttempt

\* What a failed attempt may do to the caller and to the two frame containers.
LEMMA AttemptFailsType ==
  ASSUME TypeOK, NEW b \in BOOLEAN, NEW q \in Frame \cup {None}, AttemptFails(b, q)
  PROVE  /\ attempt' \in 1..2 /\ busy' \in 1..BusyTries /\ via' \in {"tcp", "modbus_tcp"}
         /\ pc' \in {"throttle", "busysleep", "idle"}
         /\ outcome' \in {"none", "ok", "wrong", "wrapped", "failed"}
         /\ queue' \in Frame \cup {None} /\ inbox' \in [Conns -> Seq(Frame)]
<1>1. CASE StartAttempt(2, FALSE, q) /\ UNCHANGED <<busy, outcome>>
  <2>1. /\ pc' = "throttle" /\ attempt' = 2 /\ via' = transport
        /\ queue' \in Frame \cup {None} /\ inbox' \in [Conns -> Seq(Frame)]
    <3>1. 2 \in 1..2
      OBVIOUS
    <3> QED
      BY <1>1, <3>1, StartAttemptType
  <2> QED
    BY <1>1, <2>1 DEF TypeOK, CallerOK, ExchangeOK
<1>2. CASE /\ busy < BusyTries /\ pc' = "busysleep" /\ busy' = busy + 1 /\ queue' = q
           /\ UNCHANGED <<attempt, via, inbox, outcome>>
  BY <1>2, BoundsAssumption DEF TypeOK, CallerOK, WorldOK
<1>3. CASE Finish("failed", q)
  BY <1>3 DEF TypeOK, CallerOK, WorldOK, Finish
<1> QED
  BY <1>1, <1>2, <1>3 DEF AttemptFails

LEMMA AnswerType ==
  ASSUME NEW form \in Forms
  PROVE  Answer(form) \in Frame
  BY BoundsAssumption DEF Answer, Frame

LEMMA DeviceTakesType ==
  ASSUME TypeOK, NEW c \in Conns, DeviceTakes(c)
  PROVE  /\ conn' \in [Conns -> {"open", "closed"} \cup LossKinds]
         /\ inbox' \in [Conns -> Seq(Frame)]
         /\ faults' \in 0..MaxFaults
<1>1. \A f \in Frame : Append(inbox[c], f) \in Seq(Frame)
  BY DEF TypeOK, WorldOK
<1>2. \/ inbox' = inbox
      \/ inbox' = [inbox EXCEPT ![c] = <<>>]
      \/ \E f \in Frame : inbox' = [inbox EXCEPT ![c] = Append(@, f)]
  <2>1. /\ Answer("ok") \in Frame
        /\ \A form \in Garbles \cap {"bad", "busy", "short"} : Answer(form) \in Frame
    BY AnswerType DEF Forms
  <2>2. LooksOwn \subseteq Frame
    BY AnswerType DEF LooksOwn, Forms
  <2>3. Echoes \subseteq Frame
    BY BoundsAssumption DEF Echoes, Frame, Forms
  <2> QED
    BY <2>1, <2>2, <2>3 DEF DeviceTakes
<1>3. inbox' \in [Conns -> Seq(Frame)]
  <2>1. inbox' = inbox \/ \E s \in Seq(Frame) : inbox' = [inbox EXCEPT ![c] = s]
    <3>1. CASE \E f \in Frame : inbox' = [inbox EXCEPT ![c] = Append(@, f)]
      <4>1. PICK f \in Frame : inbox' = [inbox EXCEPT ![c] = Append(inbox[c], f)]
        BY <3>1
      <4> QED
        BY <1>1, <4>1
    <3>2. <<>> \in Seq(Frame)
      OBVIOUS
    <3> QED
      BY <1>2, <3>1, <3>2
  <2> QED
    BY <2>1 DEF TypeOK, WorldOK
<1>4. conn' \in [Conns -> {"open", "closed"} \cup LossKinds]
  BY DEF TypeOK, WorldOK, DeviceTakes, LossKinds
<1>5. faults' \in 0..MaxFaults
  BY BoundsAssumption DEF TypeOK, WorldOK, DeviceTakes, Spend
<1> QED
  BY <1>3, <1>4, <1>5

LEMMA TransmitType ==
  ASSUME TypeOK, Transmit
  PROVE  TypeOK'
<1>1. CASE /\ Writable /\ DeviceTakes(writer) /\ event' = TRUE /\ pc' = Get
           /\ UNCHANGED <<attempt, busy, via, queue, outcome>>
  <2>1. writer \in Conns
    BY <1>1 DEF Writable, TypeOK, SessionOK
  <2>2. CallerOK'
    BY <1>1 DEF TypeOK, CallerOK, Transmit, Get
  <2>3. SessionOK' /\ ExchangeOK'
    BY <1>1 DEF TypeOK, SessionOK, ExchangeOK, Transmit, session
  <2>4. WorldOK'
    BY <1>1, <2>1, DeviceTakesType DEF TypeOK, WorldOK, Transmit
  <2> QED
    BY <2>2, <2>3, <2>4 DEF TypeOK
<1>2. CASE event' = FALSE /\ AttemptFails(FALSE, queue) /\ UNCHANGED <<conn, faults>>
  <2>1. /\ attempt' \in 1..2 /\ busy' \in 1..BusyTries /\ via' \in {"tcp", "modbus_tcp"}
        /\ pc' \in {"throttle", "busysleep", "idle"}
        /\ outcome' \in {"none", "ok", "wrong", "wrapped", "failed"}
        /\ queue' \in Frame \cup {None} /\ inbox' \in [Conns -> Seq(Frame)]
    <3>1. queue \in Frame \cup {None}
      BY DEF TypeOK, ExchangeOK
    <3> QED
      BY <1>2, <3>1, AttemptFailsType
  <2>2. CallerOK'
    BY <2>1 DEF TypeOK, CallerOK, Transmit
  <2>3. SessionOK' /\ ExchangeOK'
    BY <1>2, <2>1 DEF TypeOK, SessionOK, ExchangeOK, Transmit, session
  <2>4. WorldOK'
    BY <1>2, <2>1 DEF TypeOK, WorldOK, Transmit
  <2> QED
    BY <2>2, <2>3, <2>4 DEF TypeOK
<1> QED
  BY <1>1, <1>2 DEF Transmit

LEMMA TakesType ==
  ASSUME TypeOK, NEW t \in Tasks, NEW f \in Frame, Takes(t, f)
  PROVE  /\ status' \in [Tasks -> {"dead", "opening", "starting", "reading"}]
         /\ reading' \in [Tasks -> Conns \cup {None}]
         /\ woken' \in {"pending", "ok", "failed"}
         /\ event' \in BOOLEAN /\ queue' \in Frame \cup {None}
         /\ transport' \in {"tcp", "modbus_tcp"}
<1>1. /\ status' \in [Tasks -> {"dead", "opening", "starting", "reading"}]
      /\ reading' \in [Tasks -> Conns \cup {None}]
  BY DEF TypeOK, SessionOK, Takes, Dies, NextRead
<1>2. woken' \in {"pending", "ok", "failed"}
  BY DEF TypeOK, CallerOK, Takes, Dies, NextRead, Wakes
<1>3. /\ event' \in BOOLEAN /\ queue' \in Frame \cup {None}
      /\ transport' \in {"tcp", "modbus_tcp"}
  BY DEF TypeOK, ExchangeOK, Takes, Dies
<1> QED
  BY <1>1, <1>2, <1>3

LEMMA JoinedType ==
  ASSUME TypeOK, NEW f \in Frame
  PROVE  Joined(f) \in Frame /\ Piece(f) \in Frame /\ Rest(f) \in Frame
  BY DEF Joined, Piece, Rest, Frame, Forms

LEMMA KeeperReadsType ==
  ASSUME TypeOK, LoopReads, NEW t \in Tasks, KeeperReads(t)
  PROVE  TypeOK'
<1> DEFINE c == reading[t]
           h == Head(inbox[c])
<1>1. c \in Conns /\ inbox[c] \in Seq(Frame) /\ inbox[c] # <<>>
  BY DEF KeeperReads, LoopReads, TypeOK, WorldOK
<1>2. h \in Frame /\ Tail(inbox[c]) \in Seq(Frame)
  BY <1>1
<1>3. Joined(h) \in Frame /\ Piece(h) \in Frame /\ Rest(h) \in Frame
  BY <1>2, JoinedType
<1>4. PICK f \in Frame : Takes(t, f)
  BY <1>2, <1>3 DEF KeeperReads
<1>5. inbox' \in [Conns -> Seq(Frame)]
  <2>1. Len(inbox[c]) > 1 => SubSeq(inbox[c], 3, Len(inbox[c])) \in Seq(Frame)
    BY <1>1
  <2>2. <<Rest(h)>> \o Tail(inbox[c]) \in Seq(Frame)
    BY <1>2, <1>3
  <2>3. \E s \in Seq(Frame) : inbox' = [inbox EXCEPT ![c] = s]
    BY <1>2, <2>1, <2>2 DEF KeeperReads
  <2> QED
    BY <1>1, <2>3 DEF TypeOK, WorldOK
<1>6. faults' \in 0..MaxFaults
  BY BoundsAssumption DEF KeeperReads, Spend, TypeOK, WorldOK
<1>7. /\ status' \in [Tasks -> {"dead", "opening", "starting", "reading"}]
      /\ reading' \in [Tasks -> Conns \cup {None}]
      /\ woken' \in {"pending", "ok", "failed"}
      /\ event' \in BOOLEAN /\ queue' \in Frame \cup {None}
      /\ transport' \in {"tcp", "modbus_tcp"}
  BY <1>4, TakesType
<1>8. /\ UNCHANGED <<pc, attempt, busy, via, awaited, slow, outcome, stopping, writer, reader,
                     keeper, tries, known, sent, conn, up>>
  BY DEF KeeperReads
<1> HIDE DEF c, h
<1>9. CallerOK' /\ SessionOK'
  BY <1>7, <1>8 DEF TypeOK, CallerOK, SessionOK
<1>10. ExchangeOK' /\ WorldOK'
  BY <1>5, <1>6, <1>7, <1>8 DEF TypeOK, ExchangeOK, WorldOK
<1> QED
  BY <1>9, <1>10 DEF TypeOK

\* Every step keeps the types.
LEMMA TypeStep ==
  ASSUME TypeOK, LoopReads, [Next]_vars
  PROVE  TypeOK'
<1>1. CASE Call
  <2>1. /\ pc' = "throttle" /\ attempt' = 1 /\ via' = transport
        /\ queue' \in Frame \cup {None} /\ inbox' \in [Conns -> Seq(Frame)]
    <3>1. 1 \in 1..2 /\ queue \in Frame \cup {None}
      BY DEF TypeOK, ExchangeOK
    <3>2. StartAttempt(1, TRUE, queue)
      BY <1>1 DEF Call
    <3> QED
      BY <3>1, <3>2, StartAttemptType
  <2>2. CallerOK'
    BY <1>1, <2>1, BoundsAssumption DEF TypeOK, CallerOK, ExchangeOK, Call
  <2>3. SessionOK' /\ ExchangeOK'
    BY <1>1, <2>1 DEF TypeOK, SessionOK, ExchangeOK, Call, session
  <2>4. WorldOK'
    BY <1>1, <2>1 DEF TypeOK, WorldOK, Call
  <2> QED
    BY <2>2, <2>3, <2>4 DEF TypeOK
<1>2. CASE BusyWake
  <2>1. /\ pc' = "throttle" /\ attempt' = 1 /\ via' = transport
        /\ queue' \in Frame \cup {None} /\ inbox' \in [Conns -> Seq(Frame)]
    <3>1. 1 \in 1..2 /\ queue \in Frame \cup {None}
      BY DEF TypeOK, ExchangeOK
    <3>2. StartAttempt(1, FALSE, queue)
      BY <1>2 DEF BusyWake
    <3> QED
      BY <3>1, <3>2, StartAttemptType
  <2>2. CallerOK'
    BY <1>2, <2>1, BoundsAssumption DEF TypeOK, CallerOK, ExchangeOK, BusyWake
  <2>3. SessionOK' /\ ExchangeOK'
    BY <1>2, <2>1 DEF TypeOK, SessionOK, ExchangeOK, BusyWake, session
  <2>4. WorldOK'
    BY <1>2, <2>1 DEF TypeOK, WorldOK, BusyWake
  <2> QED
    BY <2>2, <2>3, <2>4 DEF TypeOK
<1>3. CASE SendFrame
  BY <1>3, TransmitType DEF SendFrame
<1>4. CASE KeeperAwaited
  BY <1>4, TransmitType DEF KeeperAwaited
<1>5. CASE KeeperFailed
  <2>1. /\ attempt' \in 1..2 /\ busy' \in 1..BusyTries /\ via' \in {"tcp", "modbus_tcp"}
        /\ pc' \in {"throttle", "busysleep", "idle"}
        /\ outcome' \in {"none", "ok", "wrong", "wrapped", "failed"}
        /\ queue' \in Frame \cup {None} /\ inbox' \in [Conns -> Seq(Frame)]
    BY <1>5, AttemptFailsType DEF KeeperFailed, TypeOK, ExchangeOK
  <2>2. CallerOK'
    BY <1>5, <2>1 DEF TypeOK, CallerOK, KeeperFailed
  <2>3. SessionOK' /\ ExchangeOK'
    BY <1>5, <2>1 DEF TypeOK, SessionOK, ExchangeOK, KeeperFailed, session
  <2>4. WorldOK'
    BY <1>5, <2>1 DEF TypeOK, WorldOK, KeeperFailed
  <2> QED
    BY <2>2, <2>3, <2>4 DEF TypeOK
<1>6. CASE Receive
  <2>1. /\ attempt' \in 1..2 /\ busy' \in 1..BusyTries /\ via' \in {"tcp", "modbus_tcp"}
        /\ pc' \in {"throttle", "busysleep", "idle"}
        /\ outcome' \in {"none", "ok", "wrong", "wrapped", "failed"}
        /\ queue' \in Frame \cup {None} /\ inbox' \in [Conns -> Seq(Frame)]
    <3>1. CASE StartAttempt(attempt, FALSE, None) /\ UNCHANGED <<busy, outcome>>
      <4>1. attempt \in 1..2
        BY DEF TypeOK, CallerOK
      <4>2. /\ pc' = "throttle" /\ attempt' = attempt /\ via' = transport
            /\ queue' \in Frame \cup {None} /\ inbox' \in [Conns -> Seq(Frame)]
        BY <3>1, <4>1, StartAttemptType
      <4> QED
        BY <3>1, <4>2 DEF TypeOK, CallerOK, ExchangeOK
    <3>2. CASE Finish(Result(queue), None)
      BY <3>2 DEF TypeOK, CallerOK, WorldOK, Finish, Result
    <3>3. CASE AttemptFails(Valid(queue) /\ queue.form = "busy", None)
      BY <3>3, AttemptFailsType
    <3> QED
      BY <1>6, <3>1, <3>2, <3>3 DEF Receive
  <2>2. slow' \in Nat /\ known' \in BOOLEAN /\ event' \in BOOLEAN
    <3>1. slow' \in Nat
      <4>1. slow' = slow \/ slow' \in Slower
        BY <1>6 DEF Receive
      <4> QED
        BY <4>1 DEF TypeOK, CallerOK, Slower
    <3>2. known' = TRUE \/ known' = known
      BY <1>6 DEF Receive
    <3>3. event' = FALSE
      BY <1>6 DEF Receive
    <3> QED
      BY <3>1, <3>2, <3>3 DEF TypeOK, ExchangeOK
  <2>3. CallerOK'
    BY <1>6, <2>1, <2>2 DEF TypeOK, CallerOK, Receive
  <2>4. SessionOK' /\ ExchangeOK'
    BY <1>6, <2>1, <2>2 DEF TypeOK, SessionOK, ExchangeOK, Receive, session
  <2>5. WorldOK'
    BY <1>6, <2>1 DEF TypeOK, WorldOK, Receive
  <2> QED
    BY <2>3, <2>4, <2>5 DEF TypeOK
<1>7. ASSUME NEW t \in Tasks, KeeperReads(t) PROVE TypeOK'
  BY <1>7, KeeperReadsType
<1>8. ASSUME NEW c \in Conns, Report(c) PROVE TypeOK'
  <2>1. \A m \in 0..(SeqMod - 1) : [age |-> m, form |-> "report", origin |-> "earlier"] \in Frame
    BY DEF Frame, Forms
  <2>2. inbox' \in [Conns -> Seq(Frame)]
    BY <1>8, <2>1 DEF TypeOK, WorldOK, Report
  <2>3. CallerOK' /\ SessionOK' /\ ExchangeOK'
    BY <1>8 DEF TypeOK, CallerOK, SessionOK, ExchangeOK, Report, caller, session, exchange
  <2>4. WorldOK'
    BY <1>8, <2>2, BoundsAssumption DEF TypeOK, WorldOK, Report, Spend
  <2> QED
    BY <2>3, <2>4 DEF TypeOK
<1>9. CASE AwaitKeeper
  <2>1. CallerOK'
    BY <1>9 DEF TypeOK, CallerOK, AwaitKeeper, connected, SessionOK
  <2>2. SessionOK'
    BY <1>9 DEF TypeOK, SessionOK, AwaitKeeper, session
  <2>3. ExchangeOK'
    BY <1>9 DEF TypeOK, ExchangeOK, AwaitKeeper, exchange
  <2>4. WorldOK'
    BY <1>9 DEF TypeOK, WorldOK, AwaitKeeper, world
  <2> QED
    BY <2>1, <2>2, <2>3, <2>4 DEF TypeOK
<1>10. CASE StartOpening
  <2>1. CallerOK'
    BY <1>10 DEF TypeOK, CallerOK, StartOpening
  <2>2. SessionOK'
    BY <1>10 DEF TypeOK, SessionOK, StartOpening
  <2>3. ExchangeOK'
    BY <1>10 DEF TypeOK, ExchangeOK, StartOpening, exchange
  <2>4. WorldOK'
    BY <1>10 DEF TypeOK, WorldOK, StartOpening, world
  <2> QED
    BY <2>1, <2>2, <2>3, <2>4 DEF TypeOK
<1>11. CASE WaitTimeout
  <2>1. CallerOK'
    BY <1>11 DEF TypeOK, CallerOK, WaitTimeout, Get
  <2>2. SessionOK'
    BY <1>11 DEF TypeOK, SessionOK, WaitTimeout
  <2>3. ExchangeOK'
    BY <1>11 DEF TypeOK, ExchangeOK, WaitTimeout, exchange
  <2>4. WorldOK'
    <3>1. conn' \in [Conns -> {"open", "closed"} \cup LossKinds]
      BY <1>11 DEF TypeOK, WorldOK, WaitTimeout, LossKinds, Shut
    <3>2. inbox' \in [Conns -> Seq(Frame)]
      BY <1>11 DEF TypeOK, WorldOK, WaitTimeout
    <3>3. up' = up \/ up' = FALSE
      BY <1>11 DEF WaitTimeout
    <3>4. faults' \in 0..MaxFaults
      BY <1>11, BoundsAssumption DEF TypeOK, WorldOK, WaitTimeout, Spend
    <3> QED
      BY <3>1, <3>2, <3>3, <3>4 DEF TypeOK, WorldOK
  <2> QED
    BY <2>1, <2>2, <2>3, <2>4 DEF TypeOK
<1>12. CASE CloseDone
  <2>1. CallerOK'
    BY <1>12 DEF TypeOK, CallerOK, CloseDone, Get
  <2>2. SessionOK'
    BY <1>12 DEF TypeOK, SessionOK, CloseDone, ForgetWriter
  <2>3. ExchangeOK'
    BY <1>12 DEF TypeOK, ExchangeOK, CloseDone, exchange
  <2>4. WorldOK'
    BY <1>12 DEF TypeOK, WorldOK, CloseDone, ForgetWriter, Shut, LossKinds
  <2> QED
    BY <2>1, <2>2, <2>3, <2>4 DEF TypeOK
<1>13. CASE Deadline
  <2>1. CallerOK'
    BY <1>13 DEF TypeOK, CallerOK, Deadline, Finish
  <2>2. SessionOK'
    BY <1>13 DEF TypeOK, SessionOK, Deadline, Cancelled
  <2>3. ExchangeOK'
    BY <1>13 DEF TypeOK, ExchangeOK, Deadline, Finish, Cancelled
  <2>4. WorldOK'
    BY <1>13 DEF TypeOK, WorldOK, Deadline, Finish
  <2> QED
    BY <2>1, <2>2, <2>3, <2>4 DEF TypeOK
<1>14. CASE Stop
  <2>1. CallerOK'
    BY <1>14 DEF TypeOK, CallerOK, Stop
  <2>2. SessionOK'
    BY <1>14 DEF TypeOK, SessionOK, Stop, Cancelled
  <2>3. ExchangeOK'
    BY <1>14 DEF TypeOK, ExchangeOK, Stop, Cancelled
  <2>4. WorldOK'
    BY <1>14 DEF TypeOK, WorldOK, Stop, world
  <2> QED
    BY <2>1, <2>2, <2>3, <2>4 DEF TypeOK
<1>15. CASE Close
  <2>1. CallerOK'
    BY <1>15 DEF TypeOK, CallerOK, Close
  <2>2. SessionOK'
    BY <1>15 DEF TypeOK, SessionOK, Close
  <2>3. ExchangeOK'
    BY <1>15 DEF TypeOK, ExchangeOK, Close, exchange
  <2>4. WorldOK'
    BY <1>15 DEF TypeOK, WorldOK, Close, Shut, LossKinds
  <2> QED
    BY <2>1, <2>2, <2>3, <2>4 DEF TypeOK
<1>16. CASE ShutDone
  <2>1. CallerOK'
    BY <1>16 DEF TypeOK, CallerOK, ShutDone
  <2>2. SessionOK'
    BY <1>16 DEF TypeOK, SessionOK, ShutDone, ForgetWriter
  <2>3. ExchangeOK'
    BY <1>16 DEF TypeOK, ExchangeOK, ShutDone, exchange
  <2>4. WorldOK'
    BY <1>16 DEF TypeOK, WorldOK, ShutDone, ForgetWriter, Shut, LossKinds
  <2> QED
    BY <2>1, <2>2, <2>3, <2>4 DEF TypeOK
<1>17. ASSUME NEW t \in Tasks, OpenFails(t) PROVE TypeOK'
  <2>1. CallerOK'
    BY <1>17 DEF TypeOK, CallerOK, OpenFails, Wakes, Slower
  <2>2. SessionOK'
    BY <1>17 DEF TypeOK, SessionOK, OpenFails
  <2>3. ExchangeOK'
    BY <1>17 DEF TypeOK, ExchangeOK, OpenFails, exchange
  <2>4. WorldOK'
    BY <1>17 DEF TypeOK, WorldOK, OpenFails, world
  <2> QED
    BY <2>1, <2>2, <2>3, <2>4 DEF TypeOK
<1>18. ASSUME NEW t \in Tasks, OpenSucceeds(t) PROVE TypeOK'
  <2>1. CallerOK'
    BY <1>18 DEF TypeOK, CallerOK, OpenSucceeds, Wakes
  <2>2. SessionOK'
    BY <1>18 DEF TypeOK, SessionOK, OpenSucceeds
  <2>3. ExchangeOK'
    BY <1>18 DEF TypeOK, ExchangeOK, OpenSucceeds, exchange
  <2>4. WorldOK'
    BY <1>18 DEF TypeOK, WorldOK, OpenSucceeds, Shut, LossKinds
  <2> QED
    BY <2>1, <2>2, <2>3, <2>4 DEF TypeOK
<1>19. ASSUME NEW t \in Tasks, LoopStarts(t) PROVE TypeOK'
  <2>1. CallerOK'
    BY <1>19 DEF TypeOK, CallerOK, LoopStarts, NextRead, Wakes
  <2>2. SessionOK'
    BY <1>19 DEF TypeOK, SessionOK, LoopStarts, NextRead
  <2>3. ExchangeOK'
    BY <1>19 DEF TypeOK, ExchangeOK, LoopStarts, exchange
  <2>4. WorldOK'
    BY <1>19 DEF TypeOK, WorldOK, LoopStarts, world
  <2> QED
    BY <2>1, <2>2, <2>3, <2>4 DEF TypeOK
<1>20. ASSUME NEW t \in Tasks, KeeperEnds(t) PROVE TypeOK'
  <2>1. CallerOK'
    BY <1>20 DEF TypeOK, CallerOK, KeeperEnds, Wakes
  <2>2. SessionOK'
    BY <1>20 DEF TypeOK, SessionOK, KeeperEnds
  <2>3. ExchangeOK'
    BY <1>20 DEF TypeOK, ExchangeOK, KeeperEnds, exchange
  <2>4. WorldOK'
    BY <1>20 DEF TypeOK, WorldOK, KeeperEnds, world
  <2> QED
    BY <2>1, <2>2, <2>3, <2>4 DEF TypeOK
<1>21. ASSUME NEW t \in Tasks, KeeperRaises(t) PROVE TypeOK'
  <2>1. CallerOK'
    BY <1>21 DEF TypeOK, CallerOK, KeeperRaises, Dies, Wakes
  <2>2. SessionOK'
    BY <1>21 DEF TypeOK, SessionOK, KeeperRaises, Dies
  <2>3. ExchangeOK'
    BY <1>21 DEF TypeOK, ExchangeOK, KeeperRaises, Dies
  <2>4. WorldOK'
    BY <1>21 DEF TypeOK, WorldOK, KeeperRaises, world
  <2> QED
    BY <2>1, <2>2, <2>3, <2>4 DEF TypeOK
<1>22. ASSUME NEW c \in Conns, Lose(c) PROVE TypeOK'
  <2>1. CallerOK'
    BY <1>22 DEF TypeOK, CallerOK, Lose, caller
  <2>2. SessionOK'
    BY <1>22 DEF TypeOK, SessionOK, Lose, session
  <2>3. ExchangeOK'
    BY <1>22 DEF TypeOK, ExchangeOK, Lose, exchange
  <2>4. WorldOK'
    <3>1. conn' \in [Conns -> {"open", "closed"} \cup LossKinds]
      BY <1>22, KindsAssumption DEF TypeOK, WorldOK, Lose, LossKinds
    <3>2. inbox' \in [Conns -> Seq(Frame)]
      BY <1>22 DEF TypeOK, WorldOK, Lose
    <3>3. up' = up \/ up' = FALSE
      BY <1>22 DEF Lose
    <3>4. faults' \in 0..MaxFaults
      BY <1>22, BoundsAssumption DEF TypeOK, WorldOK, Lose, Spend
    <3> QED
      BY <3>1, <3>2, <3>3, <3>4 DEF TypeOK, WorldOK
  <2> QED
    BY <2>1, <2>2, <2>3, <2>4 DEF TypeOK
<1>23. CASE GoDown
  <2>1. CallerOK'
    BY <1>23 DEF TypeOK, CallerOK, GoDown, caller
  <2>2. SessionOK'
    BY <1>23 DEF TypeOK, SessionOK, GoDown, session
  <2>3. ExchangeOK'
    BY <1>23 DEF TypeOK, ExchangeOK, GoDown, exchange
  <2>4. WorldOK'
    <3>1. conn' \in [Conns -> {"open", "closed"} \cup LossKinds]
      BY <1>23 DEF TypeOK, WorldOK, GoDown, LossKinds
    <3>2. inbox' \in [Conns -> Seq(Frame)]
      BY <1>23 DEF TypeOK, WorldOK, GoDown
    <3>3. up' = up \/ up' = FALSE
      BY <1>23 DEF GoDown
    <3>4. faults' \in 0..MaxFaults
      BY <1>23, BoundsAssumption DEF TypeOK, WorldOK, GoDown, Spend
    <3> QED
      BY <3>1, <3>2, <3>3, <3>4 DEF TypeOK, WorldOK
  <2> QED
    BY <2>1, <2>2, <2>3, <2>4 DEF TypeOK
<1>24. CASE ComeUp
  <2>1. CallerOK'
    BY <1>24 DEF TypeOK, CallerOK, ComeUp, caller
  <2>2. SessionOK'
    BY <1>24 DEF TypeOK, SessionOK, ComeUp, session
  <2>3. ExchangeOK'
    BY <1>24 DEF TypeOK, ExchangeOK, ComeUp, exchange
  <2>4. WorldOK'
    BY <1>24 DEF TypeOK, WorldOK, ComeUp
  <2> QED
    BY <2>1, <2>2, <2>3, <2>4 DEF TypeOK
<1>25. CASE UNCHANGED vars
  BY <1>25 DEF TypeOK, CallerOK, SessionOK, ExchangeOK, WorldOK, vars, caller, session, exchange, world
<1> QED
  BY <1>1, <1>2, <1>3, <1>4, <1>5, <1>6, <1>7, <1>8, <1>9, <1>10, <1>11, <1>12,
     <1>13, <1>14, <1>15, <1>16, <1>17, <1>18, <1>19, <1>20, <1>21, <1>22, <1>23,
     <1>24, <1>25
     DEF Next, ExecStep, CloseStep, KeeperStep, Environment, Done

-----------------------------------------------------------------------------
(* One keeper, one session *)

Link ==
  /\ SingleKeeper
  /\ SingleSession
  /\ LoopReads
  /\ PairedStreams
  /\ AwaitsLive
  /\ ClosingQuiet

\* Without a writer there is no session, and with no keeper that lives no task does.
LEMMA NoSession ==
  ASSUME TypeOK, SingleSession, writer = None
  PROVE  Session = {}
  BY ConnsAssumption DEF SingleSession, Session

LEMMA NoTask ==
  ASSUME TypeOK, SingleKeeper, ~connected
  PROVE  \A t \in Tasks : ~Live(t)
  BY TasksAssumption DEF SingleKeeper, connected

\* Closing the writer's socket ends the session.
LEMMA ShutEnds ==
  ASSUME TypeOK, SingleSession,
         conn' = [c \in Conns |-> IF c = writer THEN Shut(conn[c]) ELSE conn[c]]
  PROVE  Session' = {}
  BY DEF SingleSession, Session, Shut

\* A step that leaves tasks and streams alone, and opens no socket, keeps Link,
\* unless the caller starts to wait for the keeper or gets further in close().
LEMMA LinkKept ==
  ASSUME TypeOK, Link, UNCHANGED <<writer, keeper, status, reading>>,
         Session' \subseteq Session, reader' = reader \/ writer = None,
         \/ pc' \notin {"connect", "shutting", "closed"}
         \/ UNCHANGED <<pc, awaited, woken, stopping, reader>>
  PROVE  Link'
<1>1. SingleKeeper' /\ PairedStreams'
  BY DEF Link, SingleKeeper, PairedStreams, Live
<1>2. SingleSession'
  <2>1. \A c \in Session' : c = writer
    BY DEF Link, SingleSession
  <2>2. (\E t \in Tasks : status[t] = "opening") => Session' = {}
    BY DEF Link, SingleSession
  <2> QED
    BY <2>1, <2>2 DEF SingleSession, Session
<1>3. LoopReads'
  <2>1. Session' # {} => Session # {}
    OBVIOUS
  <2> QED
    BY <2>1 DEF Link, LoopReads
<1>4. AwaitsLive' /\ ClosingQuiet'
  BY DEF Link, AwaitsLive, ClosingQuiet, Live
<1> QED
  BY <1>1, <1>2, <1>3, <1>4 DEF Link

\* A step of task t after which it reads on or is dead, its caller told so.
LEMMA LinkLoops ==
  ASSUME TypeOK, Link, NEW t \in Tasks, Live(t), status[t] # "opening", UNCHANGED conn,
         UNCHANGED <<pc, awaited, stopping, writer, reader, keeper>>,
         \/ Dies(t)
         \/ NextRead(t, "ok")
  PROVE  Link'
<1>1. \/ /\ status' = [status EXCEPT ![t] = "dead"] /\ UNCHANGED reading
         /\ woken' = IF Awaits(t) THEN "failed" ELSE woken
      \/ /\ status' = [status EXCEPT ![t] = "reading"] /\ reader # None
         /\ reading' = [reading EXCEPT ![t] = reader] /\ woken' = woken
  BY DEF Dies, NextRead, Wakes
<1>2. t = keeper /\ pc \notin {"shutting", "closed"}
  BY DEF Link, SingleKeeper, ClosingQuiet
<1>3. Session' = Session
  BY DEF Session
<1>4. SingleKeeper' /\ PairedStreams' /\ ClosingQuiet'
  BY <1>1, <1>2 DEF Link, TypeOK, SessionOK, SingleKeeper, PairedStreams, ClosingQuiet, Live
<1>5. SingleSession'
  <2>1. \A u \in Tasks : status'[u] = "opening" => status[u] = "opening"
    BY <1>1 DEF TypeOK, SessionOK
  <2>2. \A c \in Session' : c = writer'
    BY <1>3 DEF Link, SingleSession
  <2>3. (\E u \in Tasks : status'[u] = "opening") => Session' = {}
    BY <1>3, <2>1 DEF Link, SingleSession
  <2> QED
    BY <2>2, <2>3 DEF SingleSession
<1>6. LoopReads'
  <2>1. Session # {} => writer # None
    BY NoSession DEF Link
  <2>2. reader # None => reader \in Conns /\ (Session # {} => reader = writer)
    BY <2>1 DEF Link, PairedStreams, TypeOK, SessionOK
  <2>3. ASSUME NEW u \in Tasks, status'[u] = "reading"
        PROVE  reading'[u] \in Conns /\ (Session' # {} => reading'[u] = writer')
    BY <1>1, <1>3, <2>2, <2>3 DEF Link, LoopReads, TypeOK, SessionOK
  <2> QED
    BY <2>3 DEF LoopReads
<1>7. AwaitsLive'
  BY <1>1, <1>2 DEF Link, AwaitsLive, Awaits, Live, TypeOK, SessionOK
<1> QED
  BY <1>4, <1>5, <1>6, <1>7 DEF Link

\* A step after which at most one task is alive, the keeper, and it does not read.
LEMMA LinkNewKeeper ==
  ASSUME \A u \in Tasks : Live(u)' => u = keeper' /\ status'[u] # "reading",
         \A c \in Session' : c = writer',
         (\E u \in Tasks : status'[u] = "opening") => Session' = {},
         writer' # None => reader' = writer',
         AwaitsLive', ClosingQuiet'
  PROVE  Link'
  BY DEF Link, SingleKeeper, SingleSession, LoopReads, PairedStreams, Live

LEMMA TransmitKeepsSession ==
  ASSUME TypeOK, Transmit
  PROVE  /\ UNCHANGED session /\ Session' \subseteq Session
         /\ pc' \notin {"connect", "shutting", "closed"}
<1>1. CASE Writable /\ DeviceTakes(writer) /\ pc' = Get
  <2>1. conn' = conn \/ (conn[writer] = "fin" /\ conn' = [conn EXCEPT ![writer] = "reset"])
    BY <1>1 DEF DeviceTakes
  <2>2. Session' \subseteq Session
    BY <2>1 DEF Session, TypeOK, WorldOK
  <2> QED
    BY <1>1, <2>2 DEF Transmit, Get
<1>2. CASE AttemptFails(FALSE, queue) /\ UNCHANGED <<conn, faults>>
  BY <1>2 DEF Transmit, AttemptFails, StartAttempt, Finish, Session
<1> QED
  BY <1>1, <1>2 DEF Transmit

\* Every step keeps the session and the keeper together.
LEMMA LinkStep ==
  ASSUME TypeOK, Link, [Next]_vars
  PROVE  Link'
<1>1. CASE Call \/ BusyWake
  BY <1>1, LinkKept DEF Call, BusyWake, StartAttempt, session, Session
<1>2. CASE SendFrame \/ KeeperAwaited
  BY <1>2, TransmitKeepsSession, LinkKept DEF SendFrame, KeeperAwaited, session
<1>3. CASE KeeperFailed
  BY <1>3, LinkKept DEF KeeperFailed, AttemptFails, StartAttempt, Finish, session, Session
<1>4. CASE Receive
  BY <1>4, LinkKept DEF Receive, AttemptFails, StartAttempt, Finish, session, Session
<1>5. CASE AwaitKeeper
  <2>1. SingleKeeper' /\ SingleSession' /\ LoopReads' /\ PairedStreams'
    BY <1>5 DEF Link, SingleKeeper, SingleSession, LoopReads, PairedStreams, AwaitKeeper, Live,
                Session, session, world
  <2>2. AwaitsLive' /\ ClosingQuiet'
    BY <1>5 DEF AwaitsLive, ClosingQuiet, AwaitKeeper, connected, Live, session, TypeOK, SessionOK
  <2> QED
    BY <2>1, <2>2 DEF Link
<1>6. CASE StartOpening
  <2>1. PICK t \in Tasks : /\ status' = [status EXCEPT ![t] = "opening"]
                           /\ keeper' = t /\ awaited' = t
    BY <1>6 DEF StartOpening
  <2>2. Session' = {}
    BY <1>6, NoSession DEF Link, StartOpening, Session, world
  <2>3. \A u \in Tasks : Live(u)' => u = t /\ status'[u] = "opening"
    BY <1>6, <2>1, NoTask DEF Link, StartOpening, Live, TypeOK, SessionOK
  <2>4. AwaitsLive' /\ ClosingQuiet'
    BY <1>6, <2>1 DEF AwaitsLive, ClosingQuiet, StartOpening, Live, TypeOK, SessionOK
  <2>5. writer' = None
    BY <1>6 DEF StartOpening
  <2> QED
    BY <2>1, <2>2, <2>3, <2>4, <2>5, LinkNewKeeper
<1>7. CASE WaitTimeout
  <2>1. Session' \subseteq Session
    BY <1>7 DEF WaitTimeout, Session, Shut, TypeOK, WorldOK
  <2> QED
    BY <1>7, <2>1, LinkKept DEF WaitTimeout, Get
<1>8. CASE CloseDone \/ ShutDone
  <2>1. Session' = {}
    BY <1>8, ShutEnds DEF Link, CloseDone, ShutDone, ForgetWriter
  <2>2. SingleKeeper' /\ SingleSession' /\ PairedStreams'
    BY <1>8, <2>1 DEF Link, SingleKeeper, SingleSession, PairedStreams, Live,
                      CloseDone, ShutDone, ForgetWriter
  <2>3. LoopReads'
    BY <1>8, <2>1 DEF Link, LoopReads, CloseDone, ShutDone
  <2>4. AwaitsLive' /\ ClosingQuiet'
    BY <1>8 DEF Link, AwaitsLive, ClosingQuiet, Live, CloseDone, ShutDone, ForgetWriter, Get
  <2> QED
    BY <2>2, <2>3, <2>4 DEF Link
<1>9. CASE Deadline \/ Stop
  <2>1. /\ UNCHANGED <<writer, reader, keeper, reading, conn>> /\ pc' = "idle"
        /\ \/ status' = status
           \/ status' = [status EXCEPT ![awaited] = "dead"]
    BY <1>9 DEF Deadline, Stop, Cancelled, Finish, world
  <2>2. \A t \in Tasks : status'[t] = status[t] \/ status'[t] = "dead"
    BY <2>1 DEF TypeOK, SessionOK
  <2>3. SingleKeeper' /\ PairedStreams' /\ AwaitsLive' /\ ClosingQuiet'
    BY <2>1, <2>2 DEF Link, SingleKeeper, PairedStreams, AwaitsLive, ClosingQuiet, Live
  <2>4. SingleSession' /\ LoopReads'
    BY <2>1, <2>2 DEF Link, SingleSession, LoopReads, Session
  <2> QED
    BY <2>3, <2>4 DEF Link
<1>10. CASE Close
  <2>1. \A t \in Tasks : ~Live(t)'
    BY <1>10, NoTask DEF Link, Close, Live, connected, SingleKeeper, TypeOK, SessionOK
  <2>2. \A c \in Session' : c = writer'
    BY <1>10 DEF Link, Close, SingleSession, Session, Shut, TypeOK, WorldOK
  <2>3. writer' # None => reader' = writer'
    BY <1>10 DEF Link, PairedStreams, Close
  <2>4. AwaitsLive' /\ ClosingQuiet'
    BY <1>10, <2>1 DEF AwaitsLive, ClosingQuiet, Close
  <2>5. \A t \in Tasks : status'[t] = "dead"
    BY <2>1 DEF Live
  <2> QED
    BY <2>1, <2>2, <2>3, <2>4, <2>5, LinkNewKeeper
<1>11. ASSUME NEW t \in Tasks, OpenFails(t) PROVE Link'
  <2>1. Live(t) /\ t = keeper /\ pc \notin {"shutting", "closed"}
    BY <1>11 DEF OpenFails, Live, Link, SingleKeeper, ClosingQuiet
  <2>2. /\ UNCHANGED <<pc, awaited, writer, reader, keeper, reading, conn>>
        /\ \/ UNCHANGED <<status, woken>>
           \/ status' = [status EXCEPT ![t] = "dead"] /\ Wakes(t, "failed")
    BY <1>11 DEF OpenFails, world
  <2>3. \A u \in Tasks : status'[u] = status[u] \/ status'[u] = "dead"
    BY <2>2 DEF TypeOK, SessionOK
  <2>4. SingleKeeper' /\ PairedStreams' /\ ClosingQuiet'
    BY <2>1, <2>2, <2>3 DEF Link, SingleKeeper, PairedStreams, ClosingQuiet, Live
  <2>5. SingleSession' /\ LoopReads'
    BY <2>2, <2>3 DEF Link, SingleSession, LoopReads, Session
  <2>6. AwaitsLive'
    BY <2>1, <2>2 DEF Link, AwaitsLive, Wakes, Awaits, Live
  <2> QED
    BY <2>4, <2>5, <2>6 DEF Link
<1>12. ASSUME NEW t \in Tasks, OpenSucceeds(t) PROVE Link'
  <2>1. /\ Live(t) /\ t = keeper /\ pc \notin {"shutting", "closed"} /\ Session = {}
    BY <1>12 DEF OpenSucceeds, Live, Link, SingleKeeper, SingleSession, ClosingQuiet
  <2>2. PICK c \in Conns, u \in Tasks \ {t} :
          /\ writer' = c /\ reader' = c /\ keeper' = u
          /\ conn' = [d \in Conns |-> IF d = c THEN "open"
                                      ELSE IF d = writer THEN Shut(conn[d]) ELSE conn[d]]
          /\ status' = [status EXCEPT ![t] = "dead", ![u] = "starting"]
    BY <1>12 DEF OpenSucceeds
  <2>3. \A v \in Tasks : Live(v)' => v = u /\ status'[v] = "starting"
    BY <2>1, <2>2 DEF Link, SingleKeeper, Live, TypeOK, SessionOK
  <2>4. \A d \in Session' : d = c
    BY <2>1, <2>2 DEF Session, Shut
  <2>5. ~(pc' = "connect" /\ woken' = "pending") /\ pc' = pc
    BY <1>12, <2>1 DEF OpenSucceeds, Link, AwaitsLive, Wakes, Awaits
  <2>6. AwaitsLive' /\ ClosingQuiet'
    BY <2>1, <2>5 DEF AwaitsLive, ClosingQuiet
  <2>7. ~\E v \in Tasks : status'[v] = "opening"
    BY <2>3 DEF Live
  <2> QED
    BY <2>2, <2>3, <2>4, <2>6, <2>7, LinkNewKeeper
<1>13. ASSUME NEW t \in Tasks, LoopStarts(t) PROVE Link'
  BY <1>13, LinkLoops DEF LoopStarts, Live, world
<1>14. ASSUME NEW t \in Tasks, KeeperReads(t) PROVE Link'
  <2>1. Dies(t) \/ NextRead(t, "ok")
    BY <1>14 DEF KeeperReads, Takes
  <2> QED
    BY <1>14, <2>1, LinkLoops DEF KeeperReads, Live
<1>15. ASSUME NEW t \in Tasks, KeeperEnds(t) PROVE Link'
  <2>1. /\ Live(t) /\ t = keeper /\ pc \notin {"shutting", "closed"}
    BY <1>15 DEF KeeperEnds, Live, Link, SingleKeeper, ClosingQuiet
  <2>2. Session = {}
    BY <1>15 DEF KeeperEnds, Link, LoopReads, SingleSession, Session
  <2>3. PICK u \in Tasks \ {t} :
          keeper' = u /\ status' = [status EXCEPT ![t] = "dead", ![u] = "opening"]
    BY <1>15 DEF KeeperEnds
  <2>4. \A v \in Tasks : Live(v)' => v = u /\ status'[v] = "opening"
    BY <2>1, <2>3 DEF Link, SingleKeeper, Live, TypeOK, SessionOK
  <2>5. UNCHANGED <<pc, awaited, writer, reader, conn>>
    BY <1>15 DEF KeeperEnds, world
  <2>6. ~(pc' = "connect" /\ woken' = "pending")
    BY <1>15, <2>1, <2>5 DEF KeeperEnds, Link, AwaitsLive, Wakes, Awaits
  <2>7. AwaitsLive' /\ ClosingQuiet'
    BY <2>1, <2>5, <2>6 DEF AwaitsLive, ClosingQuiet
  <2>8. Session' = {}
    BY <2>2, <2>5 DEF Session
  <2>9. writer' # None => reader' = writer'
    BY <2>5 DEF Link, PairedStreams
  <2> QED
    BY <2>3, <2>4, <2>7, <2>8, <2>9, LinkNewKeeper
<1>16. ASSUME NEW t \in Tasks, KeeperRaises(t) PROVE Link'
  BY <1>16, LinkLoops DEF KeeperRaises, Live, world
<1>17. ASSUME NEW c \in Conns, Lose(c) PROVE Link'
  <2>1. Session' \subseteq Session
    BY <1>17 DEF Lose, Session, TypeOK, WorldOK
  <2> QED
    BY <1>17, <2>1, LinkKept DEF Lose, caller, session
<1>18. CASE (\E c \in Conns : Report(c)) \/ GoDown \/ ComeUp \/ UNCHANGED vars
  <2>1. UNCHANGED <<caller, session, conn>>
    BY <1>18 DEF Report, GoDown, ComeUp, vars, world
  <2>2. Session' = Session
    BY <2>1 DEF Session
  <2> QED
    BY <2>1, <2>2, LinkKept DEF caller, session
<1> QED
  BY <1>1, <1>2, <1>3, <1>4, <1>5, <1>6, <1>7, <1>8, <1>9, <1>10, <1>11, <1>12, <1>13, <1>14,
     <1>15, <1>16, <1>17, <1>18
     DEF Next, ExecStep, CloseStep, KeeperStep, Environment, Done

-----------------------------------------------------------------------------
(* The window for data *)

\* Every step keeps the window shut unless the caller waits for a response.
LEMMA WindowStep ==
  ASSUME TypeOK, WindowGuarded, [Next]_vars
  PROVE  WindowGuarded'
<1>1. CASE Call \/ BusyWake \/ AwaitKeeper \/ StartOpening \/ Close \/ ShutDone
  BY <1>1 DEF WindowGuarded, Call, BusyWake, AwaitKeeper, StartOpening, Close, ShutDone, exchange
<1>2. CASE SendFrame \/ KeeperAwaited
  BY <1>2 DEF WindowGuarded, SendFrame, KeeperAwaited, Transmit, Get
<1>3. CASE KeeperFailed
  BY <1>3 DEF WindowGuarded, KeeperFailed
<1>4. CASE Receive \/ Deadline \/ Stop
  BY <1>4 DEF WindowGuarded, Receive, Deadline, Stop, Cancelled
<1>5. CASE WaitTimeout \/ CloseDone
  BY <1>5 DEF WindowGuarded, WaitTimeout, CloseDone, Get, exchange
<1>6. ASSUME NEW t \in Tasks, KeeperStep(t) PROVE WindowGuarded'
  <2>1. /\ event' = FALSE \/ UNCHANGED event
        /\ UNCHANGED <<pc, sent>>
    BY <1>6 DEF KeeperStep, OpenFails, OpenSucceeds, LoopStarts, KeeperReads, KeeperEnds,
                KeeperRaises, Takes, Dies, exchange
  <2> QED
    BY <2>1 DEF WindowGuarded
<1>7. CASE Environment \/ UNCHANGED vars
  <2>1. UNCHANGED <<pc, event, sent>>
    BY <1>7 DEF Environment, Lose, Report, GoDown, ComeUp, vars, caller, exchange
  <2> QED
    BY <2>1 DEF WindowGuarded
<1> QED
  BY <1>1, <1>2, <1>3, <1>4, <1>5, <1>6, <1>7 DEF Next, ExecStep, CloseStep, Done

-----------------------------------------------------------------------------
(* Whose answer execute() returns *)

\* On a V5 connection the next sequence number makes no frame look current that
\* was not, except after a whole round of numbers, and then it is "lapped".
LEMMA OlderAged ==
  ASSUME NEW f \in Frame, NEW b, Aged(f), transport = "tcp"
  PROVE  Aged(Older(f, b))
<1>1. /\ Older(f, b).form = f.form
      /\ Older(f, b).age = IF f.age = SeqMod - 1 THEN 0 ELSE f.age + 1
      /\ f.age = SeqMod - 1 => Older(f, b).origin = "lapped"
  BY DEF Older
<1>2. f.age \in Nat
  BY DEF Frame
<1> QED
  BY <1>1, <1>2 DEF Aged

LEMMA StartAttemptAged ==
  ASSUME TypeOK, FramesAged, NEW n, NEW b, NEW q \in Frame \cup {None},
         q # None => Aged(q), StartAttempt(n, b, q)
  PROVE  /\ via' = "tcp"
         /\ queue' # None => Aged(queue')
         /\ \A c \in Conns : \A i \in DOMAIN inbox'[c] : Aged(inbox'[c][i])
<1>1. queue' # None => Aged(queue')
  BY OlderAged DEF StartAttempt, OlderQueue, FramesAged
<1>2. ASSUME NEW c \in Conns, NEW i \in DOMAIN inbox'[c]
      PROVE  Aged(inbox'[c][i])
  <2>1. inbox'[c] = [j \in DOMAIN inbox[c] |-> Older(inbox[c][j], b)]
    BY DEF StartAttempt, OlderInbox
  <2>2. i \in DOMAIN inbox[c] /\ inbox'[c][i] = Older(inbox[c][i], b)
    BY <2>1
  <2>3. inbox[c][i] \in Frame
    BY <2>2 DEF TypeOK, WorldOK
  <2>4. Aged(inbox[c][i])
    BY <2>2 DEF FramesAged, Aged
  <2> QED
    BY <2>2, <2>3, <2>4, OlderAged DEF FramesAged
<1> QED
  BY <1>1, <1>2 DEF StartAttempt, FramesAged

\* The frames after a failed attempt, and what execute() then says.
LEMMA AttemptFailsAged ==
  ASSUME TypeOK, FramesAged, NEW b, NEW q \in Frame \cup {None}, q # None => Aged(q),
         AttemptFails(b, q)
  PROVE  /\ via' = "tcp"
         /\ queue' # None => Aged(queue')
         /\ \A c \in Conns : \A i \in DOMAIN inbox'[c] : Aged(inbox'[c][i])
         /\ outcome' = outcome \/ outcome' = "failed"
<1>1. CASE StartAttempt(2, FALSE, q) /\ UNCHANGED <<busy, outcome>>
  BY <1>1, StartAttemptAged
<1>2. CASE queue' = q /\ UNCHANGED <<via, inbox, outcome>>
  BY <1>2 DEF FramesAged, Aged
<1>3. CASE Finish("failed", q)
  BY <1>3 DEF FramesAged, Finish
<1> QED
  BY <1>1, <1>2, <1>3 DEF AttemptFails

\* What the device puts on the wire is current.
LEMMA DeviceTakesAged ==
  ASSUME TypeOK, FramesAged, Device = "tcp", NEW c \in Conns, DeviceTakes(c)
  PROVE  \A d \in Conns : \A i \in DOMAIN inbox'[d] : Aged(inbox'[d][i])
<1>1. \A form \in Forms \ {"echo"} : Aged(Answer(form))
  BY DEF Aged, Answer
<1>2. \/ inbox' = inbox
      \/ inbox' = [inbox EXCEPT ![c] = <<>>]
      \/ \E form \in Forms \ {"echo"} : inbox' = [inbox EXCEPT ![c] = Append(@, Answer(form))]
  <2>1. /\ "ok" \in Forms \ {"echo"} /\ Garbles \cap {"bad", "busy", "short"} \subseteq Forms \ {"echo"}
        /\ via = Device
    BY DEF Forms, FramesAged
  <2> QED
    BY <2>1 DEF DeviceTakes
<1>3. \A d \in Conns : inbox[d] \in Seq(Frame) /\ \A i \in DOMAIN inbox[d] : Aged(inbox[d][i])
  BY DEF FramesAged, Aged, TypeOK, WorldOK
<1>4. CASE inbox' = inbox
  BY <1>3, <1>4
<1>5. CASE inbox' = [inbox EXCEPT ![c] = <<>>]
  <2>1. \A d \in Conns : inbox'[d] = IF d = c THEN <<>> ELSE inbox[d]
    BY <1>5 DEF TypeOK, WorldOK
  <2> QED
    BY <1>3, <2>1
<1>6. ASSUME NEW form \in Forms \ {"echo"},
             inbox' = [inbox EXCEPT ![c] = Append(@, Answer(form))]
      PROVE  \A d \in Conns : \A i \in DOMAIN inbox'[d] : Aged(inbox'[d][i])
  <2>1. \A d \in Conns : inbox'[d] = IF d = c THEN Append(inbox[c], Answer(form)) ELSE inbox[d]
    BY <1>6 DEF TypeOK, WorldOK
  <2>2. \A i \in DOMAIN Append(inbox[c], Answer(form)) :
           \/ i \in DOMAIN inbox[c] /\ Append(inbox[c], Answer(form))[i] = inbox[c][i]
           \/ Append(inbox[c], Answer(form))[i] = Answer(form)
    BY <1>3
  <2> QED
    BY <1>1, <1>3, <2>1, <2>2
<1> QED
  BY <1>2, <1>4, <1>5, <1>6

\* Every step keeps late answers apart from current ones.
LEMMA AnswersStep ==
  ASSUME TypeOK, LoopReads, AnswersOwn, [Next]_vars
  PROVE  AnswersOwn'
<1> SUFFICES ASSUME Device = "tcp"
             PROVE  FramesAged' /\ OwnData'
  BY DEF AnswersOwn
<1>1. FramesAged /\ OwnData
  BY DEF AnswersOwn
<1>2. /\ \A c \in Conns : \A i \in DOMAIN inbox[c] : Aged(inbox[c][i])
      /\ \A c \in Conns : inbox[c] \in Seq(Frame)
  BY <1>1 DEF FramesAged, TypeOK, WorldOK
<1>3. queue \in Frame \cup {None}
  BY DEF TypeOK, ExchangeOK
<1>4. queue # None => Aged(queue)
  BY <1>1 DEF FramesAged
<1> DEFINE Goal == /\ transport' = "tcp" /\ via' = "tcp"
                   /\ queue' # None => Aged(queue')
                   /\ \A c \in Conns : \A i \in DOMAIN inbox'[c] : Aged(inbox'[c][i])
                   /\ outcome' # "wrong"
<1>5. SUFFICES Goal
  BY <1>5 DEF FramesAged, OwnData, Aged
<1> HIDE DEF Goal
<1>6. ASSUME UNCHANGED <<transport, via, queue, inbox>>, UNCHANGED outcome \/ outcome' # "wrong"
      PROVE  Goal
  BY <1>1, <1>2, <1>6 DEF Goal, FramesAged, OwnData
<1>7. ASSUME UNCHANGED transport, NEW n, NEW b, StartAttempt(n, b, queue), outcome' # "wrong"
      PROVE  Goal
  <2>1. via' = "tcp" /\ (queue' # None => Aged(queue'))
        /\ \A c \in Conns : \A i \in DOMAIN inbox'[c] : Aged(inbox'[c][i])
    BY <1>1, <1>7, <1>3, <1>4, StartAttemptAged
  <2> QED
    BY <1>1, <1>7, <2>1 DEF Goal, FramesAged
<1>8. ASSUME UNCHANGED transport, NEW b, NEW q \in {queue, None}, AttemptFails(b, q)
      PROVE  Goal
  <2>1. q \in Frame \cup {None} /\ (q # None => Aged(q))
    BY <1>3, <1>4
  <2>2. via' = "tcp" /\ (queue' # None => Aged(queue'))
        /\ (\A c \in Conns : \A i \in DOMAIN inbox'[c] : Aged(inbox'[c][i]))
        /\ (outcome' = outcome \/ outcome' = "failed")
    BY <1>1, <1>8, <2>1, AttemptFailsAged
  <2> QED
    BY <1>1, <1>8, <2>2 DEF Goal, FramesAged, OwnData
<1>9. CASE Call \/ BusyWake
  <2>1. CASE Call
    BY <2>1, <1>7 DEF Call
  <2>2. CASE BusyWake
    BY <2>2, <1>1, <1>7 DEF BusyWake, OwnData
  <2> QED
    BY <1>9, <2>1, <2>2
<1>10. CASE SendFrame \/ KeeperAwaited
  <2>1. UNCHANGED transport
    BY <1>10 DEF SendFrame, KeeperAwaited, Transmit
  <2>2. CASE Writable /\ DeviceTakes(writer) /\ UNCHANGED <<via, queue, outcome>>
    <3>1. writer \in Conns
      BY <2>2 DEF Writable, TypeOK, SessionOK
    <3> QED
      BY <1>1, <1>2, <2>1, <2>2, <3>1, DeviceTakesAged DEF Goal, FramesAged, OwnData
  <2>3. CASE AttemptFails(FALSE, queue)
    BY <1>8, <2>1, <2>3
  <2> QED
    BY <1>10, <2>2, <2>3 DEF SendFrame, KeeperAwaited, Transmit
<1>11. CASE KeeperFailed
  BY <1>8, <1>11 DEF KeeperFailed
<1>12. CASE Receive
  <2>1. UNCHANGED transport
    BY <1>12 DEF Receive
  <2>2. CASE StartAttempt(attempt, FALSE, None) /\ UNCHANGED outcome
    BY <1>1, <1>2, <2>1, <2>2, StartAttemptAged DEF Goal, FramesAged, OwnData
  <2>3. CASE queue # None /\ Valid(queue) /\ queue.form = "ok" /\ Finish(Result(queue), None)
    <3>1. queue.age = 0
      BY <1>1, <2>3 DEF Valid, FramesAged
    <3>2. queue.origin # "earlier"
      <4>1. Aged(queue) /\ queue.form = "ok"
        BY <1>4, <2>3
      <4> QED
        BY <3>1, <4>1 DEF Aged
    <3>3. outcome' # "wrong"
      BY <2>3, <3>2 DEF Finish, Result
    <3> QED
      BY <1>1, <1>2, <2>1, <2>3, <3>3 DEF Goal, Finish, FramesAged
  <2>4. ~Completed(queue)
    BY <1>1 DEF Completed, FramesAged
  <2>5. CASE AttemptFails(Valid(queue) /\ queue.form = "busy", None)
    BY <1>8, <2>1, <2>5
  <2> QED
    BY <1>12, <2>2, <2>3, <2>4, <2>5 DEF Receive
<1>13. CASE AwaitKeeper \/ StartOpening \/ WaitTimeout \/ CloseDone \/ Close \/ ShutDone
  BY <1>6, <1>13 DEF AwaitKeeper, StartOpening, WaitTimeout, CloseDone, Close, ShutDone, exchange, world
<1>14. CASE Deadline \/ Stop
  BY <1>6, <1>14 DEF Deadline, Stop, Finish, world
<1>15. ASSUME NEW t \in Tasks, KeeperReads(t) PROVE Goal
  <2> DEFINE c == reading[t]
             h == Head(inbox[c])
  <2>1. c \in Conns /\ inbox[c] \in Seq(Frame) /\ inbox[c] # <<>>
    BY <1>15 DEF KeeperReads, LoopReads, TypeOK, WorldOK
  <2>2. h \in Frame /\ Aged(h)
    <3>1. h = inbox[c][1] /\ 1 \in DOMAIN inbox[c]
      BY <2>1
    <3> QED
      BY <1>2, <2>1, <3>1
  <2>3. /\ Aged(Joined(h)) /\ Aged(Piece(h)) /\ Aged(Rest(h))
        /\ Joined(h) \in Frame /\ Piece(h) \in Frame /\ Rest(h) \in Frame
    <3>1. Aged(Joined(h)) /\ Aged(Piece(h)) /\ Aged(Rest(h))
      BY <1>1, <2>2 DEF Aged, Joined, Piece, Rest, FramesAged
    <3> QED
      BY <2>2, <3>1, JoinedType
  <2>4. PICK f \in Frame : Takes(t, f) /\ Aged(f)
    BY <1>15, <2>2, <2>3 DEF KeeperReads
  <2>5. transport' = "tcp" /\ (queue' # None => Aged(queue'))
    BY <1>1, <1>2, <2>4 DEF Takes, Detects, Dies, Aged, FramesAged
  <2>6. via' = "tcp" /\ outcome' # "wrong"
    BY <1>1, <1>15 DEF KeeperReads, FramesAged, OwnData
  <2>7. PICK s \in Seq(Frame) : /\ inbox' = [inbox EXCEPT ![c] = s]
                               /\ \A i \in DOMAIN s : Aged(s[i])
    <3>1. /\ Tail(inbox[c]) \in Seq(Frame)
          /\ \A i \in DOMAIN Tail(inbox[c]) : Aged(Tail(inbox[c])[i])
      BY <1>2, <2>1
    <3>2. Len(inbox[c]) > 1 =>
            /\ SubSeq(inbox[c], 3, Len(inbox[c])) \in Seq(Frame)
            /\ \A i \in DOMAIN SubSeq(inbox[c], 3, Len(inbox[c])) :
                  Aged(SubSeq(inbox[c], 3, Len(inbox[c]))[i])
      BY <1>2, <2>1
    <3>3. /\ <<Rest(h)>> \o Tail(inbox[c]) \in Seq(Frame)
          /\ \A i \in DOMAIN (<<Rest(h)>> \o Tail(inbox[c])) :
                Aged((<<Rest(h)>> \o Tail(inbox[c]))[i])
      BY <2>3, <3>1
    <3> QED
      BY <1>15, <3>1, <3>2, <3>3 DEF KeeperReads
  <2> HIDE DEF c, h
  <2>8. \A d \in Conns : inbox'[d] = IF d = c THEN s ELSE inbox[d]
    BY <2>7 DEF TypeOK, WorldOK
  <2> QED
    BY <1>2, <2>5, <2>6, <2>7, <2>8 DEF Goal
<1>16. ASSUME NEW t \in Tasks, OpenSucceeds(t) PROVE Goal
  <2>1. PICK c \in Conns : inbox' = [inbox EXCEPT ![c] = <<>>]
    BY <1>16 DEF OpenSucceeds
  <2>2. \A d \in Conns : inbox'[d] = IF d = c THEN <<>> ELSE inbox[d]
    BY <2>1 DEF TypeOK, WorldOK
  <2>3. UNCHANGED <<transport, via, queue, outcome>>
    BY <1>16 DEF OpenSucceeds, exchange
  <2> QED
    BY <1>1, <1>2, <2>2, <2>3 DEF Goal, FramesAged, OwnData
<1>17. ASSUME NEW t \in Tasks,
              OpenFails(t) \/ LoopStarts(t) \/ KeeperEnds(t) \/ KeeperRaises(t)
       PROVE  Goal
  BY <1>6, <1>17 DEF OpenFails, LoopStarts, KeeperEnds, KeeperRaises, Dies, exchange, world
<1>18. ASSUME NEW c \in Conns, Lose(c) PROVE Goal
  <2>1. inbox' = inbox \/ inbox' = [inbox EXCEPT ![c] = <<>>]
    BY <1>18 DEF Lose
  <2>2. \A d \in Conns : inbox'[d] = <<>> \/ inbox'[d] = inbox[d]
    BY <2>1 DEF TypeOK, WorldOK
  <2>3. UNCHANGED <<transport, via, queue, outcome>>
    BY <1>18 DEF Lose, caller, exchange
  <2> QED
    BY <1>1, <1>2, <2>2, <2>3 DEF Goal, FramesAged, OwnData
<1>19. ASSUME NEW c \in Conns, Report(c) PROVE Goal
  <2>1. PICK m \in 0..(SeqMod - 1) :
          inbox' = [inbox EXCEPT ![c] = Append(@, [age |-> m, form |-> "report", origin |-> "earlier"])]
    BY <1>19 DEF Report
  <2> DEFINE r == [age |-> m, form |-> "report", origin |-> "earlier"]
  <2>2. Aged(r)
    BY DEF Aged
  <2> HIDE DEF r
  <2>3. \A d \in Conns : inbox'[d] = IF d = c THEN Append(inbox[c], r) ELSE inbox[d]
    BY <2>1 DEF TypeOK, WorldOK, r
  <2>4. \A i \in DOMAIN Append(inbox[c], r) :
           \/ i \in DOMAIN inbox[c] /\ Append(inbox[c], r)[i] = inbox[c][i]
           \/ Append(inbox[c], r)[i] = r
    BY <1>2
  <2>5. UNCHANGED <<transport, via, queue, outcome>>
    BY <1>19 DEF Report, caller, exchange
  <2> QED
    BY <1>1, <1>2, <2>2, <2>3, <2>4, <2>5 DEF Goal, FramesAged, OwnData
<1>20. CASE GoDown \/ ComeUp \/ UNCHANGED vars
  BY <1>6, <1>20 DEF GoDown, ComeUp, vars, caller, exchange, world
<1> QED
  BY <1>9, <1>10, <1>11, <1>12, <1>13, <1>14, <1>15, <1>16, <1>17, <1>18, <1>19, <1>20
     DEF Next, ExecStep, CloseStep, KeeperStep, Environment, Done

-----------------------------------------------------------------------------
(* The theorems *)

\* What every reachable state satisfies.
IInv == TypeOK /\ Link /\ WindowGuarded /\ AnswersOwn

LEMMA InitIInv == Init => IInv
<1> SUFFICES ASSUME Init PROVE IInv
  OBVIOUS
<1>1. CallerOK /\ SessionOK
  <2>1. 1 \in 1..BusyTries /\ 1 \in 1..2 /\ 0 \in Nat
    BY BoundsAssumption
  <2>2. status \in [Tasks -> {"dead", "opening", "starting", "reading"}]
        /\ reading \in [Tasks -> Conns \cup {None}] /\ tries \in [Tasks -> Nat]
    BY DEF Init
  <2> QED
    BY <2>1, <2>2 DEF Init, CallerOK, SessionOK
<1>2. ExchangeOK
  BY DEF Init, ExchangeOK
<1>3. WorldOK
  <2>1. /\ conn \in [Conns -> {"open", "closed"} \cup LossKinds]
        /\ inbox \in [Conns -> Seq(Frame)]
    BY DEF Init
  <2>2. faults \in 0..MaxFaults
    BY BoundsAssumption DEF Init
  <2> QED
    BY <2>1, <2>2 DEF Init, WorldOK
<1>4. Link
  BY DEF Init, Link, SingleKeeper, SingleSession, Session, LoopReads, PairedStreams, AwaitsLive,
         ClosingQuiet, Live
<1>5. WindowGuarded
  BY DEF Init, WindowGuarded
<1>6. AnswersOwn
  BY ConnsAssumption DEF Init, AnswersOwn, FramesAged, OwnData
<1> QED
  BY <1>1, <1>2, <1>3, <1>4, <1>5, <1>6 DEF IInv, TypeOK

LEMMA NextIInv == IInv /\ [Next]_vars => IInv'
  BY TypeStep, LinkStep, WindowStep, AnswersStep DEF IInv, Link

\* The invariant holds throughout every run of the client.
THEOREM Invariance == Spec => []IInv
  BY InitIInv, NextIInv, PTL DEF Spec

\* Every variable keeps its type: what the caller, the keeper and the wire can be
\* in, whatever the device does.
THEOREM TypeCorrect == Spec => []TypeOK
<1>1. IInv => TypeOK
  BY DEF IInv
<1> QED
  BY <1>1, Invariance, PTL

\* At most one background task of a client is alive, and _keeper refers to it.
THEOREM OneKeeper == Spec => []SingleKeeper
<1>1. IInv => SingleKeeper
  BY DEF IInv, Link
<1> QED
  BY <1>1, Invariance, PTL

\* The client never holds two sessions with the stick, and never dials while it
\* holds one.
THEOREM OneSession == Spec => []SingleSession
<1>1. IInv => SingleSession
  BY DEF IInv, Link
<1> QED
  BY <1>1, Invariance, PTL

\* Data comes only in while a caller waits for it.
THEOREM GuardedWindow == Spec => []WindowGuarded
<1>1. IInv => WindowGuarded
  BY DEF IInv
<1> QED
  BY <1>1, Invariance, PTL

\* With a V5 device execute() never returns the data of an earlier call, short of
\* a round of SeqMod sequence numbers.
THEOREM OwnAnswers == Device = "tcp" => (Spec => []OwnData)
<1>1. Device = "tcp" /\ IInv => OwnData
  BY DEF IInv, AnswersOwn
<1> SUFFICES ASSUME Device = "tcp" PROVE Spec => []OwnData
  OBVIOUS
<1>2. IInv => OwnData
  BY <1>1
<1> QED
  BY <1>2, Invariance, PTL

\* When close() has returned no task is alive and no socket is open.
THEOREM FinalClose == Spec => []CloseIsFinal
<1>1. IInv => CloseIsFinal
  BY NoSession DEF IInv, Link, ClosingQuiet, CloseIsFinal
<1> QED
  BY <1>1, Invariance, PTL

-----------------------------------------------------------------------------
(* The client implements the request channel: every step of its caller is  *)
(* a step of RequestChannel or changes nothing the worker sees, and every  *)
(* step of the keeper, the device and the network changes nothing of it.   *)

\* A caller on its way out is in close(), and nowhere else.
Leaving ==
  /\ pc \in {"shutting", "closed"} => stopping
  /\ stopping => pc \in {"idle", "shutting", "closed"}

InCall == {"throttle", "connect", "wait", "ready", "closing", "busysleep"}

\* What a step of execute() may do to what the worker sees: go on, or return.
GoesOn == pc' \in InCall /\ UNCHANGED outcome
Returns == pc' = "idle" /\ outcome' # "none"

LEMMA AttemptFailsGoesOn ==
  ASSUME NEW b, NEW q, AttemptFails(b, q)
  PROVE  GoesOn \/ Returns
BY DEF AttemptFails, StartAttempt, Finish, GoesOn, Returns, InCall

LEMMA TransmitGoesOn ==
  ASSUME Transmit PROVE (GoesOn \/ Returns) /\ UNCHANGED stopping
<1>1. CASE AttemptFails(FALSE, queue)
  BY <1>1, AttemptFailsGoesOn DEF Transmit
<1>2. CASE pc' = Get /\ UNCHANGED outcome
  BY <1>2 DEF Transmit, Get, GoesOn, InCall
<1> QED
  BY <1>1, <1>2 DEF Transmit

\* A step of execute() other than the call.
Inner ==
  \/ BusyWake \/ SendFrame \/ AwaitKeeper \/ StartOpening \/ KeeperAwaited
  \/ KeeperFailed \/ Receive \/ WaitTimeout \/ CloseDone \/ Deadline

LEMMA InnerStep ==
  ASSUME Inner
  PROVE  pc \in InCall /\ (GoesOn \/ Returns) /\ UNCHANGED stopping
<1>1. CASE BusyWake
  BY <1>1 DEF BusyWake, StartAttempt, GoesOn, InCall
<1>2. CASE SendFrame \/ KeeperAwaited
  BY <1>2, TransmitGoesOn DEF SendFrame, KeeperAwaited, InCall
<1>3. CASE AwaitKeeper \/ StartOpening
  BY <1>3 DEF AwaitKeeper, StartOpening, GoesOn, InCall
<1>4. CASE KeeperFailed
  BY <1>4, AttemptFailsGoesOn DEF KeeperFailed, InCall
<1>5. CASE Receive
  <2>1. pc \in InCall /\ UNCHANGED stopping
    BY <1>5 DEF Receive, InCall
  <2>2. CASE StartAttempt(attempt, FALSE, None) /\ UNCHANGED outcome
    BY <2>1, <2>2 DEF StartAttempt, GoesOn, InCall
  <2>3. CASE Finish(Result(queue), None)
    BY <2>1, <2>3 DEF Finish, Result, Returns
  <2>4. CASE AttemptFails(Valid(queue) /\ queue.form = "busy", None)
    BY <2>1, <2>4, AttemptFailsGoesOn
  <2> QED
    BY <1>5, <2>2, <2>3, <2>4 DEF Receive
<1>6. CASE WaitTimeout \/ CloseDone
  BY <1>6 DEF WaitTimeout, CloseDone, Get, GoesOn, InCall
<1>7. CASE Deadline
  BY <1>7 DEF Deadline, Suspended, Finish, Returns, InCall
<1> QED
  BY <1>1, <1>2, <1>3, <1>4, <1>5, <1>6, <1>7 DEF Inner

\* The keeper, the device and the network are invisible to the worker.
LEMMA OuterStep ==
  ASSUME \/ \E t \in Tasks : KeeperStep(t)
         \/ Environment \/ Done \/ UNCHANGED vars
  PROVE  UNCHANGED <<pc, stopping, outcome>>
<1>1. ASSUME NEW t \in Tasks, KeeperStep(t) PROVE UNCHANGED <<pc, stopping, outcome>>
  BY <1>1 DEF KeeperStep, OpenFails, OpenSucceeds, LoopStarts, KeeperReads, KeeperEnds,
              KeeperRaises
<1>2. CASE Environment \/ Done \/ UNCHANGED vars
  BY <1>2 DEF Environment, Done, Lose, Report, GoDown, ComeUp, vars, caller
<1> QED
  BY <1>1, <1>2

LEMMA Steps ==
  ASSUME [Next]_vars
  PROVE  \/ Call \/ Inner \/ Stop \/ Close \/ ShutDone
         \/ UNCHANGED <<pc, stopping, outcome>>
BY OuterStep DEF Next, ExecStep, CloseStep, Inner

LEMMA LeavingStep ==
  ASSUME Leaving, [Next]_vars PROVE Leaving'
<1>1. CASE Call
  BY <1>1 DEF Leaving, Call, StartAttempt
<1>2. CASE Inner
  BY <1>2, InnerStep DEF Leaving, GoesOn, Returns, InCall
<1>3. CASE Stop \/ Close \/ ShutDone
  BY <1>3 DEF Leaving, Stop, Close, ShutDone
<1>4. CASE UNCHANGED <<pc, stopping, outcome>>
  BY <1>4 DEF Leaving
<1> QED
  BY <1>1, <1>2, <1>3, <1>4, Steps

LEMMA LeavingHolds == Spec => []Leaving
<1>1. Init => Leaving
  BY DEF Init, Leaving
<1> QED
  BY <1>1, LeavingStep, PTL DEF Spec

LEMMA ChannelInit == Init => Channel!Init
BY DEF Init, Channel!Init, ChannelState

LEMMA ChannelStep ==
  ASSUME CallerOK, CallerOK', OwnData', Leaving, [Next]_vars
  PROVE  [Channel!Next]_(Channel!vars)
<1>1. CASE Call
  <2>1. pc = "idle" /\ ~stopping /\ pc' = "throttle" /\ UNCHANGED stopping /\ outcome' = "none"
    BY <1>1 DEF Call, StartAttempt
  <2> QED
    BY <2>1 DEF Channel!Next, Channel!Request, ChannelState
<1>2. CASE Inner
  <2>1. /\ pc \in InCall /\ ~stopping /\ UNCHANGED stopping
        /\ GoesOn \/ Returns
    BY <1>2, InnerStep DEF Leaving, InCall
  <2>2. ChannelState = "busy"
    BY <2>1 DEF ChannelState, InCall
  <2>3. CASE GoesOn
    BY <2>1, <2>2, <2>3 DEF GoesOn, ChannelState, Channel!vars, InCall
  <2>4. CASE Returns
    <3>1. ChannelState' = "idle"
      BY <2>1, <2>4 DEF Returns, ChannelState
    <3>2. outcome' \in {"ok", "wrapped", "failed"}
      BY <2>4 DEF Returns, CallerOK, OwnData
    <3> QED
      BY <2>2, <3>1, <3>2 DEF Channel!Next, Channel!Return, Channel!Results
  <2> QED
    BY <2>1, <2>3, <2>4
<1>3. CASE Stop
  <2>1. ~stopping /\ stopping' /\ pc' = "idle" /\ outcome' = "none"
    BY <1>3 DEF Stop
  <2>2. ChannelState \in {"idle", "busy"} /\ ChannelState' = "stopping"
    BY <2>1 DEF ChannelState, Leaving
  <2> QED
    BY <2>1, <2>2 DEF Channel!Next, Channel!Stop
<1>4. CASE Close \/ ShutDone
  <2>1. /\ pc \in {"idle", "shutting"} /\ pc' \in {"shutting", "closed"}
        /\ stopping /\ UNCHANGED <<stopping, outcome>>
    BY <1>4 DEF Close, ShutDone, Leaving
  <2> QED
    BY <2>1 DEF Channel!Next, Channel!Close, ChannelState, Channel!vars
<1>5. CASE UNCHANGED <<pc, stopping, outcome>>
  BY <1>5 DEF ChannelState, Channel!vars
<1> QED
  BY <1>1, <1>2, <1>3, <1>4, <1>5, Steps

\* To its worker a client of a V5 device is a request channel: one request at a
\* time, ended once, by its own answer or an exception, and none once it is closing.
\* (The fairness of the channel is left to the model checker.)
THEOREM ClientIsChannel == Device = "tcp" => (Spec => Channel!Spec)
<1> SUFFICES ASSUME Device = "tcp" PROVE Spec => Channel!Spec
  OBVIOUS
<1>1. TypeOK => CallerOK
  BY DEF TypeOK
<1>2. Spec => []OwnData
  BY OwnAnswers
<1> QED
  BY <1>1, <1>2, TypeCorrect, LeavingHolds, ChannelInit, ChannelStep, PTL DEF Spec, Channel!Spec
=============================================================================
