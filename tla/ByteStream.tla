---------------------------- MODULE ByteStream ----------------------------
(* What the user of a stream may expect of it, with or without a cache in  *)
(* between (stream/stream.c, the operations of struct stream): bytes come  *)
(* from the current position in order, a read returns nothing only at the  *)
(* end of the file or after trouble (an error of the source, an abort), a  *)
(* seek moves the position, and a stream control may move it anywhere: what *)
(* was read ahead is dropped with it.  A byte is named by its position.    *)
EXTENDS Integers, Sequences

CONSTANTS FileSize,  \* bytes of the source
          SeekPos    \* positions the user seeks to

VARIABLES pos,       \* the position of the stream
          call,      \* the call that runs: "none", "read", "control", "closed"
          got,       \* the bytes returned by the last read
          trouble,   \* the source has failed
          cancelled  \* the user has aborted playback

vars == <<pos, call, got, trouble, cancelled>>

Init ==
  /\ pos = 0 /\ call = "none" /\ got = <<>>
  /\ trouble = FALSE /\ cancelled = FALSE

Begin(c) ==
  /\ call = "none" /\ call' = c
  /\ got' = IF c = "read" THEN <<>> ELSE got
  /\ UNCHANGED <<pos, trouble, cancelled>>

(* The bytes n .. n + k - 1 of the source.                                 *)
Bytes(n, k) == [i \in 1..k |-> n + i - 1]

ReadSome ==
  /\ call = "read" /\ call' = "none"
  /\ \E k \in 1..FileSize :
       /\ pos + k <= FileSize
       /\ got' = Bytes(pos, k) /\ pos' = pos + k
  /\ UNCHANGED <<trouble, cancelled>>

ReadNothing ==
  /\ call = "read" /\ call' = "none"
  /\ pos >= FileSize \/ trouble \/ cancelled
  /\ got' = <<>>
  /\ UNCHANGED <<pos, trouble, cancelled>>

(* A control abandoned by an abort may still move the source afterwards:   *)
(* from then on a read continues anywhere, but still in order.             *)
ReadElsewhere ==
  /\ call = "read" /\ call' = "none" /\ cancelled
  /\ \E n \in 0..FileSize, k \in 1..FileSize :
       /\ n + k <= FileSize
       /\ got' = Bytes(n, k) /\ pos' = pos + k
  /\ UNCHANGED <<trouble, cancelled>>

Seek ==
  /\ call = "none" /\ got' = <<>>
  /\ pos' \in SeekPos
  /\ UNCHANGED <<call, trouble, cancelled>>

ControlDone ==
  /\ call = "control" /\ call' = "none"
  /\ pos' \in SeekPos \cup 0..FileSize
  /\ UNCHANGED <<got, trouble, cancelled>>

Close == Begin("closed")

Trouble ==
  /\ trouble' = TRUE
  /\ UNCHANGED <<pos, call, got, cancelled>>

Cancel ==
  /\ cancelled' = TRUE
  /\ UNCHANGED <<pos, call, got, trouble>>

Next ==
  \/ Begin("read") \/ Begin("control") \/ Close
  \/ ReadSome \/ ReadNothing \/ ReadElsewhere
  \/ Seek \/ ControlDone \/ Trouble \/ Cancel

Spec == Init /\ [][Next]_vars
=============================================================================
