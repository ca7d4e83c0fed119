---------------------------- MODULE BoundedFifo ----------------------------
(***************************************************************************)
(* A first-in first-out queue of bounded length whose two operations never *)
(* block: each reports in 'result' what it returned.                       *)
(***************************************************************************)
EXTENDS Naturals, Sequences

CONSTANTS
  Units,  \* what can be queued
  Size,   \* capacity
  Ok, Failed, Null  \* results of Send (success, queue full) and Recv (empty)

VARIABLES fifo, result

Init == fifo = <<>> /\ result = Ok

Send(unit) ==
  IF Len(fifo) < Size
    THEN fifo' = Append(fifo, unit) /\ result' = Ok
    ELSE UNCHANGED fifo /\ result' = Failed

Recv ==
  IF fifo # <<>>
    THEN fifo' = Tail(fifo) /\ result' = Head(fifo)
    ELSE UNCHANGED fifo /\ result' = Null

Next == (\E unit \in Units : Send(unit)) \/ Recv

Spec == Init /\ [][Next]_<<fifo, result>>
=============================================================================
