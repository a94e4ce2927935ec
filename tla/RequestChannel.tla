------------------------------ MODULE RequestChannel ------------------------------
(***************************************************************************)
(* What a device client promises to the worker that calls it, whatever its *)
(* keeper task, the device and the network do: execute() admits one        *)
(* request at a time, ends, and ends with data the device sent for it or   *)
(* with an exception; a client that is being closed takes no more requests *)
(* and is closed in the end.  Nothing of frames, tasks or connections is   *)
(* left.                                                                   *)
(***************************************************************************)

VARIABLES
  state,      \* whether a request is under way, or the client on its way out
  result      \* how the last request ended, "none" while one is under way

vars == <<state, result>>

\* "wrapped" is the answer to a request as many sequence numbers ago as a byte
\* can count, which nothing tells from the right one.
Results == {"ok", "wrapped", "failed"}

Init == state = "idle" /\ result = "none"

Request ==
  /\ state = "idle" /\ state' = "busy"
  /\ result' = "none"

Return ==
  /\ state = "busy" /\ state' = "idle"
  /\ result' \in Results

\* The worker is cancelled, with its request if there is one.
Stop ==
  /\ state \in {"idle", "busy"} /\ state' = "stopping"
  /\ result' = "none"

Close ==
  /\ state = "stopping" /\ state' = "closed"
  /\ UNCHANGED result

Next == Request \/ Return \/ Stop \/ Close

Spec == Init /\ [][Next]_vars

FairSpec == Spec /\ WF_vars(Return) /\ WF_vars(Close)
=============================================================================
