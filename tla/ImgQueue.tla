------------------------------ MODULE ImgQueue ------------------------------
(***************************************************************************)
(* The ring buffer of lq/img_queue.c: two positions and a flag that tells  *)
(* a full ring from an empty one.  Both operations hold the queue's mutex  *)
(* from end to end, so each is one action.                                 *)
(***************************************************************************)
EXTENDS Integers, Sequences

CONSTANTS
  Units,            \* the pointers that are queued
  Size,
  Ok, Failed, Null  \* what Img_Queue_Send and Img_Queue_Recv return

ASSUME QueueConstants ==
  /\ Size \in Nat \ {0}
  /\ {Ok, Failed, Null} \cap Units = {}

VARIABLES
  pp_unit,   \* the slots
  pos_recv,  \* the slot to receive from
  pos_send,  \* the slot to send to
  is_full,
  result     \* what the last call returned

queueVars == <<pp_unit, pos_recv, pos_send, is_full, result>>

Slots == 0 .. Size - 1

QueueInit ==
  /\ pp_unit = [i \in Slots |-> Null]
  /\ pos_recv = 0
  /\ pos_send = 0
  /\ is_full = FALSE
  /\ result = Ok

NextUnwrapped(pos) == pos + 1

NextPosition(pos) == (pos + 1) % Size

Img_Queue_Is_Full == is_full

PositionsMeet == pos_send = pos_recv

Img_Queue_Is_Empty == pos_send = pos_recv /\ ~is_full

Img_Queue_Send(unit) ==
  IF Img_Queue_Is_Full
    THEN result' = Failed /\ UNCHANGED <<pp_unit, pos_recv, pos_send, is_full>>
    ELSE /\ pp_unit' = [pp_unit EXCEPT ![pos_send] = unit]
         /\ pos_send' = NextPosition(pos_send)
         /\ is_full' = (pos_send' = pos_recv)
         /\ result' = Ok
         /\ UNCHANGED pos_recv

Img_Queue_Recv ==
  IF Img_Queue_Is_Empty
    THEN result' = Null /\ UNCHANGED <<pp_unit, pos_recv, pos_send, is_full>>
    ELSE /\ result' = pp_unit[pos_recv]
         /\ pp_unit' = [pp_unit EXCEPT ![pos_recv] = Null]
         /\ pos_recv' = NextPosition(pos_recv)
         /\ is_full' = FALSE
         /\ UNCHANGED pos_send

QueueNext == (\E unit \in Units : Img_Queue_Send(unit)) \/ Img_Queue_Recv

QueueSpec == QueueInit /\ [][QueueNext]_queueVars

(***************************************************************************)
(* Properties                                                              *)
(***************************************************************************)

QueueTypeOK ==
  /\ pp_unit \in [Slots -> Units \cup {Null}]
  /\ pos_recv \in Slots
  /\ pos_send \in Slots
  /\ is_full \in BOOLEAN
  /\ result \in Units \cup {Ok, Failed, Null}

Length == IF is_full THEN Size ELSE (pos_send - pos_recv) % Size

(* The slots that hold a unit, from the next one to be received.           *)
Contents == [i \in 1 .. Length |-> pp_unit[(pos_recv + i - 1) % Size]]

Fifo == INSTANCE BoundedFifo WITH fifo <- Contents

(* The ring buffer is a bounded FIFO queue (img_queue.h).                  *)
ImplementsFifo == Fifo!Spec

(* The inductive invariant: when the ring is full the positions meet, and  *)
(* the slots between them, and only these count, hold units.               *)
RingOK ==
  /\ QueueTypeOK
  /\ is_full => pos_send = pos_recv
  /\ \A i \in 1 .. Length : pp_unit[(pos_recv + i - 1) % Size] \in Units

=============================================================================
