----------------------------- MODULE ModbusMemory -----------------------------
(***************************************************************************)
(* What a Modbus exchange promises to whoever asks for it, without bytes:  *)
(* a device is a set of cells, a call reads or writes some of them in      *)
(* order, and its answer is the device's own.  A call takes effect at most *)
(* once.  A call that fails may have had all of its effect, none, or that  *)
(* on the first few of its cells.                                          *)
(***************************************************************************)
EXTENDS Integers, Sequences

CONSTANTS 
  Cells,    \* the cells of the device
  Nowhere,  \* stands for a cell that is asked for and does not exist
  Values    \* what a cell holds

VARIABLES
  mem,     \* the contents of the cells
  call,    \* the cells asked for and, when it is a write, their new values
  stage,   \* "idle", "asked", "done", or "partly" when it cannot be done
  saw,     \* what a read found
  answer   \* [ok, data]: what the caller got

vars == <<mem, call, stage, saw, answer>>

Call == [cells : Seq(Cells \union {Nowhere}), values : Seq(Values)]

NoCall == [cells |-> << >>, values |-> << >>]
IsRead(c) == c.values = << >>
Failure == [ok |-> FALSE, data |-> << >>]

Init ==
  /\ mem \in [Cells -> Values]
  /\ call = NoCall
  /\ stage = "idle"
  /\ saw = << >>
  /\ answer = Failure

Ask ==
  /\ stage = "idle"
  /\ call' \in Call
  /\ stage' = "asked"
  /\ saw' = << >>
  /\ answer' = Failure
  /\ UNCHANGED mem

(* A call that cannot be put to the device at all.                         *)
Refuse ==
  /\ stage = "idle"
  /\ call' = NoCall
  /\ saw' = << >>
  /\ answer' = Failure
  /\ UNCHANGED <<mem, stage>>

(* The first n cells are read or written.                                  *)
Apply(n) ==
  /\ stage = "asked"
  /\ \A k \in 1..n : call.cells[k] \in Cells
  /\ stage' = IF n = Len(call.cells) THEN "done" ELSE "partly"
  /\ IF IsRead(call)
     THEN /\ saw' = [k \in 1..n |-> mem[call.cells[k]]]
          /\ UNCHANGED mem
     ELSE /\ mem' = [c \in Cells |->
                       IF \E k \in 1..n : call.cells[k] = c
                       THEN call.values[CHOOSE k \in 1..n : call.cells[k] = c]
                       ELSE mem[c]]
          /\ UNCHANGED saw
  /\ UNCHANGED <<call, answer>>

(* Only a call carried out in full is answered.                            *)
Answer ==
  /\ stage = "done"
  /\ stage' = "idle"
  /\ answer' = [ok |-> TRUE, data |-> saw]
  /\ UNCHANGED <<mem, call, saw>>

Fail ==
  /\ stage # "idle"
  /\ stage' = "idle"
  /\ UNCHANGED <<mem, call, saw, answer>>

(* Somebody else writes.                                                   *)
Others ==
  /\ mem' \in [Cells -> Values]
  /\ UNCHANGED <<call, stage, saw, answer>>

Next ==
  \/ Ask
  \/ Refuse
  \/ \E n \in 0..Len(call.cells) : Apply(n)
  \/ Answer
  \/ Fail
  \/ Others

Spec == Init /\ [][Next]_vars
=============================================================================
