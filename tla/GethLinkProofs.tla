--------------------------- MODULE GethLinkProofs ---------------------------
(***************************************************************************)
(* That the ring of lq/img_queue.c is a bounded FIFO queue, and that       *)
(* GethLink keeps CopiesOwned and ScreenCleared, for every queue length,   *)
(* frame size and number of images.                                        *)
(***************************************************************************)
EXTENDS GethLink, SequenceTheorems, FiniteSetTheorems, TLAPS

(***************************************************************************)
(* The ring buffer is a queue                                              *)
(***************************************************************************)

(* Counting modulo n within one turn.                                      *)
LEMMA Turn ==
  ASSUME NEW n \in Nat \ {0}, NEW a \in Int
  PROVE  /\ a % n \in 0 .. n - 1
         /\ 0 <= a /\ a < n => a % n = a
         /\ n <= a /\ a < n + n => a % n = a - n
         /\ -n <= a /\ a < 0 => a % n = a + n
<1>1. a % n \in 0 .. n - 1
  OBVIOUS
<1>2. 0 <= a /\ a < n => a % n = a
  OBVIOUS
<1>3. n <= a /\ a < n + n => a % n = a - n
  OBVIOUS
<1>4. -n <= a /\ a < 0 => a % n = a + n
  OBVIOUS
<1>q. QED
  BY <1>1, <1>2, <1>3, <1>4

(* The same without a remainder, for positions in the ring.                *)
LEMMA Positions ==
  /\ Size \in Nat \ {0} /\ Slots = 0 .. Size - 1
  /\ \A s, r \in Slots : (s - r) % Size = IF s >= r THEN s - r ELSE s - r + Size
  /\ \A s \in Slots : NextPosition(s) = IF s + 1 < Size THEN s + 1 ELSE 0
  /\ \A r \in Slots, i \in 1 .. Size :
       (r + i - 1) % Size = IF r + i - 1 < Size THEN r + i - 1 ELSE r + i - 1 - Size
<1>1. Size \in Nat \ {0} /\ Slots = 0 .. Size - 1
  BY QueueConstants DEF QueueConstants, Slots
<1>2. \A a \in Int : /\ 0 <= a /\ a < Size => a % Size = a
                     /\ Size <= a /\ a < Size + Size => a % Size = a - Size
                     /\ -Size <= a /\ a < 0 => a % Size = a + Size
  BY <1>1, Turn
<1>3. ASSUME NEW s \in Slots, NEW r \in Slots
      PROVE  (s - r) % Size = IF s >= r THEN s - r ELSE s - r + Size
  <2>1. PICK d \in Int : d = s - r
    BY <1>1
  <2>2. d < Size /\ -Size <= d
    BY <1>1, <2>1
  <2>3. IF d >= 0 THEN d % Size = d ELSE d % Size = d + Size
    BY <1>1, <1>2, <2>2
  <2>q. QED
    BY <1>1, <2>1, <2>3
<1>4. ASSUME NEW s \in Slots
      PROVE  NextPosition(s) = IF s + 1 < Size THEN s + 1 ELSE 0
  <2>1. PICK d \in Int : d = s + 1
    BY <1>1
  <2>2. IF d < Size THEN d % Size = d ELSE d % Size = d - Size
    BY <1>1, <1>2, <2>1
  <2>q. QED
    BY <1>1, <2>1, <2>2 DEF NextPosition
<1>5. ASSUME NEW r \in Slots, NEW i \in 1 .. Size
      PROVE  (r + i - 1) % Size = IF r + i - 1 < Size THEN r + i - 1 ELSE r + i - 1 - Size
  <2>1. PICK d \in Int : d = r + i - 1
    BY <1>1
  <2>2. IF d < Size THEN d % Size = d ELSE d % Size = d - Size
    BY <1>1, <1>2, <2>1
  <2>q. QED
    BY <1>1, <2>1, <2>2
<1>q. QED
  BY <1>1, <1>3, <1>4, <1>5

(* What the flag and the positions say about the contents.                 *)
LEMMA RingContents ==
  ASSUME RingOK
  PROVE  /\ Length \in 0 .. Size /\ Size \in Nat \ {0}
         /\ Contents \in Seq(Units) /\ Len(Contents) = Length
         /\ \A i \in 1 .. Length : Contents[i] = pp_unit[(pos_recv + i - 1) % Size]
         /\ is_full <=> Length = Size
         /\ Img_Queue_Is_Empty <=> Contents = <<>>
         /\ Img_Queue_Is_Empty <=> Length = 0
<1>1. QueueTypeOK /\ (is_full => pos_send = pos_recv)
  BY DEF RingOK
<1>2. /\ Length \in 0 .. Size /\ Size \in Nat \ {0} /\ (is_full <=> Length = Size)
      /\ Img_Queue_Is_Empty <=> Length = 0
  BY <1>1, Positions DEF Img_Queue_Is_Empty, QueueTypeOK, Length
<1>3. /\ Contents \in Seq(Units) /\ Len(Contents) = Length
      /\ \A i \in 1 .. Length : Contents[i] = pp_unit[(pos_recv + i - 1) % Size]
  BY <1>2 DEF RingOK, Contents
<1>4. Length = 0 <=> Contents = <<>>
  BY <1>2, <1>3, EmptySeq
<1>q. QED
  BY <1>2, <1>3, <1>4

(* Img_Queue_Send appends, or fails when the queue is full.                *)
LEMMA SendRing ==
  ASSUME RingOK, NEW unit \in Units, Img_Queue_Send(unit)
  PROVE  /\ RingOK'
         /\ is_full => Contents' = Contents /\ result' = Failed
         /\ ~is_full => Contents' = Append(Contents, unit) /\ result' = Ok /\ Length' = Length + 1
<1>t. QueueTypeOK /\ (is_full => pos_send = pos_recv)
  BY DEF RingOK
<1>p. /\ Size \in Nat \ {0} /\ pos_recv \in 0 .. Size - 1 /\ pos_send \in 0 .. Size - 1
      /\ Length = IF is_full THEN Size
                  ELSE IF pos_send >= pos_recv THEN pos_send - pos_recv
                  ELSE pos_send - pos_recv + Size
      /\ NextPosition(pos_send) = IF pos_send + 1 < Size THEN pos_send + 1 ELSE 0
      /\ \A i \in 1 .. Size : (pos_recv + i - 1) % Size
           = IF pos_recv + i - 1 < Size THEN pos_recv + i - 1 ELSE pos_recv + i - 1 - Size
  BY <1>t, Positions DEF QueueTypeOK, Length
<1>1. CASE is_full
  <2>1. UNCHANGED <<pp_unit, pos_recv, pos_send, is_full>> /\ result' = Failed
    BY <1>1 DEF Img_Queue_Send, Img_Queue_Is_Full
  <2>2. Length' = Length /\ Contents' = Contents
    BY <2>1 DEF Length, Contents
  <2>3. RingOK'
    BY <2>1, <2>2 DEF RingOK, QueueTypeOK
  <2>q. QED
    BY <1>1, <2>1, <2>2, <2>3
<1>2. CASE ~is_full
  <2>1. /\ pp_unit' = [pp_unit EXCEPT ![pos_send] = unit]
        /\ pos_send' = NextPosition(pos_send)
        /\ is_full' = (pos_send' = pos_recv)
        /\ result' = Ok /\ pos_recv' = pos_recv
    BY <1>2 DEF Img_Queue_Send, Img_Queue_Is_Full
  <2>2. QueueTypeOK'
    BY <1>t, <1>p, <2>1 DEF QueueTypeOK, Slots
  <2>3. Length' = Length + 1 /\ Length \in Nat /\ Length < Size
    <3>1. Length' = IF is_full' THEN Size
                    ELSE IF pos_send' >= pos_recv' THEN pos_send' - pos_recv'
                    ELSE pos_send' - pos_recv' + Size
      BY <2>2, Positions DEF QueueTypeOK, Length
    <3>2. /\ pos_send' = IF pos_send + 1 < Size THEN pos_send + 1 ELSE 0
          /\ is_full' <=> pos_send' = pos_recv
      BY <1>p, <2>1
    <3>3. Length = IF pos_send >= pos_recv THEN pos_send - pos_recv ELSE pos_send - pos_recv + Size
      BY <1>2, <1>p
    <3>4. CASE pos_send' = pos_recv
      BY <1>p, <2>1, <3>1, <3>2, <3>3, <3>4
    <3>5. CASE pos_send' # pos_recv
      BY <1>p, <2>1, <3>1, <3>2, <3>3, <3>5
    <3>q. QED
      BY <3>4, <3>5
  <2>4. /\ \A i \in 1 .. Length : pp_unit'[(pos_recv + i - 1) % Size]
                                   = pp_unit[(pos_recv + i - 1) % Size]
        /\ pp_unit'[(pos_recv + (Length + 1) - 1) % Size] = unit
    <3>1. ASSUME NEW i \in 1 .. Length
          PROVE  /\ (pos_recv + i - 1) % Size # pos_send
                 /\ (pos_recv + i - 1) % Size \in 0 .. Size - 1
      BY <1>2, <1>p, <2>3
    <3>2. (pos_recv + (Length + 1) - 1) % Size = pos_send
      BY <1>2, <1>p, <2>3
    <3>3. pp_unit \in [0 .. Size - 1 -> Units \cup {Null}]
      BY <1>t DEF QueueTypeOK, Slots
    <3>q. QED
      BY <1>p, <2>1, <3>1, <3>2, <3>3
  <2>5. /\ Contents \in Seq(Units) /\ Len(Contents) = Length
        /\ \A i \in 1 .. Length : Contents[i] = pp_unit[(pos_recv + i - 1) % Size]
    BY RingContents
  <2>6. RingOK'
    <3>1. ASSUME NEW i \in 1 .. Length + 1
          PROVE  pp_unit'[(pos_recv + i - 1) % Size] \in Units
      <4>1. CASE i = Length + 1
        BY <2>4, <4>1
      <4>2. CASE i \in 1 .. Length
        BY <2>4, <4>2 DEF RingOK
      <4>q. QED
        BY <2>3, <4>1, <4>2
    <3>q. QED
      BY <2>1, <2>2, <2>3, <3>1 DEF RingOK
  <2>7. Contents' = Append(Contents, unit)
    <3>1. Contents' = [i \in 1 .. Length + 1 |-> pp_unit'[(pos_recv + i - 1) % Size]]
      BY <2>1, <2>3 DEF Contents
    <3>2. Contents' = [i \in 1 .. Length + 1 |-> IF i = Length + 1 THEN unit ELSE Contents[i]]
      <4>1. ASSUME NEW i \in 1 .. Length + 1
            PROVE  pp_unit'[(pos_recv + i - 1) % Size]
                     = IF i = Length + 1 THEN unit ELSE Contents[i]
        BY <2>3, <2>4, <2>5
      <4>q. QED
        BY <3>1, <4>1
    <3>3. /\ Append(Contents, unit) \in Seq(Units) /\ Len(Append(Contents, unit)) = Length + 1
          /\ \A i \in 1 .. Length + 1 :
               Append(Contents, unit)[i] = IF i = Length + 1 THEN unit ELSE Contents[i]
      BY <2>3, <2>5, AppendProperties
    <3>4. \A i \in 1 .. Length + 1 : (IF i = Length + 1 THEN unit ELSE Contents[i]) \in Units
      BY <2>3, <2>5, ElementOfSeq
    <3>5. PICK s : s = Contents'
      OBVIOUS
    <3>6. s \in Seq(Units) /\ Len(s) = Length + 1
      BY <2>3, <3>2, <3>4, <3>5
    <3>7. \A i \in 1 .. Length + 1 : s[i] = IF i = Length + 1 THEN unit ELSE Contents[i]
      BY <3>2, <3>5
    <3>8. s = Append(Contents, unit)
      BY <3>3, <3>6, <3>7, SeqEqual
    <3>q. QED
      BY <3>5, <3>8
  <2>q. QED
    BY <1>2, <2>1, <2>3, <2>6, <2>7
<1>q. QED
  BY <1>1, <1>2

(* Img_Queue_Recv returns the first unit, or Null when the queue is empty. *)
LEMMA RecvRing ==
  ASSUME RingOK, Img_Queue_Recv
  PROVE  /\ RingOK'
         /\ Contents = <<>> => Contents' = Contents /\ result' = Null /\ Length' = Length
         /\ Contents # <<>> => Contents' = Tail(Contents) /\ result' = Head(Contents)
                              /\ Length' = Length - 1
<1>t. QueueTypeOK /\ (is_full => pos_send = pos_recv)
  BY DEF RingOK
<1>p. /\ Size \in Nat \ {0} /\ pos_recv \in 0 .. Size - 1 /\ pos_send \in 0 .. Size - 1
      /\ Length = IF is_full THEN Size
                  ELSE IF pos_send >= pos_recv THEN pos_send - pos_recv
                  ELSE pos_send - pos_recv + Size
      /\ NextPosition(pos_recv) = IF pos_recv + 1 < Size THEN pos_recv + 1 ELSE 0
      /\ \A r \in 0 .. Size - 1, i \in 1 .. Size :
           (r + i - 1) % Size = IF r + i - 1 < Size THEN r + i - 1 ELSE r + i - 1 - Size
  BY <1>t, Positions DEF QueueTypeOK, Length
<1>c. /\ Contents \in Seq(Units) /\ Len(Contents) = Length /\ Length \in 0 .. Size
      /\ \A i \in 1 .. Length : Contents[i] = pp_unit[(pos_recv + i - 1) % Size]
      /\ Img_Queue_Is_Empty <=> Contents = <<>>
      /\ Img_Queue_Is_Empty <=> Length = 0
  BY RingContents
<1>1. CASE Img_Queue_Is_Empty
  <2>1. UNCHANGED <<pp_unit, pos_recv, pos_send, is_full>> /\ result' = Null
    BY <1>1 DEF Img_Queue_Recv
  <2>2. Length' = Length /\ Contents' = Contents
    BY <2>1 DEF Length, Contents
  <2>3. RingOK'
    BY <2>1, <2>2 DEF RingOK, QueueTypeOK
  <2>q. QED
    BY <1>1, <1>c, <2>1, <2>2, <2>3
<1>2. CASE ~Img_Queue_Is_Empty
  <2>1. /\ result' = pp_unit[pos_recv]
        /\ pp_unit' = [pp_unit EXCEPT ![pos_recv] = Null]
        /\ pos_recv' = NextPosition(pos_recv)
        /\ is_full' = FALSE /\ pos_send' = pos_send
    BY <1>2 DEF Img_Queue_Recv
  <2>2. QueueTypeOK'
    <3>1. pp_unit[pos_recv] \in Units \cup {Null} /\ NextPosition(pos_recv) \in 0 .. Size - 1
      BY <1>t, <1>p DEF QueueTypeOK, Slots
    <3>q. QED
      BY <1>t, <2>1, <3>1 DEF QueueTypeOK, Slots
  <2>3. Length' = Length - 1 /\ Length > 0
    <3>1. Length' = IF is_full' THEN Size
                    ELSE IF pos_send' >= pos_recv' THEN pos_send' - pos_recv'
                    ELSE pos_send' - pos_recv' + Size
      BY <2>2, Positions DEF QueueTypeOK, Length
    <3>q. QED
      BY <1>2, <1>c, <1>p, <1>t, <2>1, <3>1
  <2>4. /\ pp_unit[pos_recv] = pp_unit[(pos_recv + 1 - 1) % Size]
        /\ \A i \in 1 .. Length - 1 : pp_unit'[(pos_recv' + i - 1) % Size]
                                       = pp_unit[(pos_recv + (i + 1) - 1) % Size]
    <3>1. ASSUME NEW i \in 1 .. Length - 1
          PROVE  /\ (pos_recv' + i - 1) % Size = (pos_recv + (i + 1) - 1) % Size
                 /\ (pos_recv + (i + 1) - 1) % Size # pos_recv
                 /\ (pos_recv + (i + 1) - 1) % Size \in 0 .. Size - 1
      <4>1. /\ i \in 1 .. Size /\ i + 1 \in 1 .. Size
            /\ pos_recv' = IF pos_recv + 1 < Size THEN pos_recv + 1 ELSE 0
        BY <1>c, <1>p, <2>1
      <4>2. /\ (pos_recv' + i - 1) % Size = IF pos_recv' + i - 1 < Size THEN pos_recv' + i - 1
                                            ELSE pos_recv' + i - 1 - Size
            /\ (pos_recv + (i + 1) - 1) % Size = IF pos_recv + (i + 1) - 1 < Size
                                                 THEN pos_recv + (i + 1) - 1
                                                 ELSE pos_recv + (i + 1) - 1 - Size
        BY <1>p, <4>1
      <4>3. PICK x, y : x = (pos_recv' + i - 1) % Size /\ y = (pos_recv + (i + 1) - 1) % Size
        OBVIOUS
      <4>4. /\ x = IF pos_recv' + i - 1 < Size THEN pos_recv' + i - 1 ELSE pos_recv' + i - 1 - Size
            /\ y = IF pos_recv + i < Size THEN pos_recv + i ELSE pos_recv + i - Size
        BY <1>p, <4>1, <4>2, <4>3
      <4>5. x = y /\ y # pos_recv /\ y \in 0 .. Size - 1
        BY <1>c, <1>p, <4>1, <4>4
      <4>q. QED
        BY <4>3, <4>5
    <3>2. (pos_recv + 1 - 1) % Size = pos_recv
      BY <1>p
    <3>3. pp_unit \in [0 .. Size - 1 -> Units \cup {Null}]
      BY <1>t DEF QueueTypeOK, Slots
    <3>q. QED
      BY <1>p, <2>1, <3>1, <3>2, <3>3
  <2>6. RingOK'
    <3>1. ASSUME NEW i \in 1 .. Length - 1
          PROVE  pp_unit'[(pos_recv' + i - 1) % Size] \in Units
      <4>1. i + 1 \in 1 .. Length
        BY <1>c
      <4>q. QED
        BY <2>4, <4>1 DEF RingOK
    <3>q. QED
      BY <2>1, <2>2, <2>3, <3>1 DEF RingOK
  <2>7. Contents # <<>> /\ result' = Head(Contents)
    <3>1. Contents # <<>>
      BY <1>2, <1>c
    <3>2. Head(Contents) = Contents[1]
      BY <1>c, <3>1
    <3>3. 1 \in 1 .. Length
      BY <1>c, <2>3
    <3>q. QED
      BY <1>c, <2>1, <2>4, <3>1, <3>2, <3>3
  <2>8. Contents' = Tail(Contents)
    <3>1. Contents' = [i \in 1 .. Length - 1 |-> pp_unit'[(pos_recv' + i - 1) % Size]]
      BY <2>3 DEF Contents
    <3>2. Contents' = [i \in 1 .. Length - 1 |-> Contents[i + 1]]
      <4>1. ASSUME NEW i \in 1 .. Length - 1
            PROVE  pp_unit'[(pos_recv' + i - 1) % Size] = Contents[i + 1]
        <5>1. i + 1 \in 1 .. Length
          BY <1>c
        <5>q. QED
          BY <1>c, <2>4, <5>1
      <4>q. QED
        BY <3>1, <4>1
    <3>3. /\ Tail(Contents) \in Seq(Units) /\ Len(Tail(Contents)) = Length - 1
          /\ \A i \in 1 .. Length - 1 : Tail(Contents)[i] = Contents[i + 1]
      BY <1>c, <2>7, HeadTailProperties
    <3>4. \A i \in 1 .. Length - 1 : Contents[i + 1] \in Units
      <4>1. \A i \in 1 .. Length - 1 : i + 1 \in 1 .. Len(Contents)
        BY <1>c
      <4>q. QED
        BY <1>c, <4>1, ElementOfSeq
    <3>5. PICK s : s = Contents'
      OBVIOUS
    <3>6. s \in Seq(Units) /\ Len(s) = Length - 1
      BY <1>c, <2>3, <3>2, <3>4, <3>5
    <3>7. \A i \in 1 .. Length - 1 : s[i] = Contents[i + 1]
      BY <3>2, <3>5
    <3>8. s = Tail(Contents)
      BY <3>3, <3>6, <3>7, SeqEqual
    <3>q. QED
      BY <3>5, <3>8
  <2>q. QED
    BY <2>3, <2>6, <2>7, <2>8
<1>q. QED
  BY <1>1, <1>2

(* The ring starts empty.                                                  *)
LEMMA InitRing ==
  ASSUME QueueInit
  PROVE  RingOK /\ Contents = <<>>
<1>1. QueueTypeOK
  <2>1. 0 \in Slots
    BY Positions
  <2>q. QED
    BY <2>1 DEF QueueInit, QueueTypeOK
<1>2. Length = 0
  BY <1>1, Positions DEF QueueInit, QueueTypeOK, Length
<1>3. RingOK
  BY <1>1, <1>2 DEF RingOK, QueueInit
<1>q. QED
  BY <1>2, <1>3, RingContents

(***************************************************************************)
(* The copies and the screen                                               *)
(***************************************************************************)

(* The two threads, and pc or held after one of them moved.                *)
LEMMA TwoThreads ==
  /\ Threads = {OutThread, GethThread} /\ OutThread # GethThread
  /\ Null \notin Units /\ Packets \in Nat \ {0} /\ SyncFrames \in Nat \ {0}
  /\ MaxImages \in Nat /\ Units = 1 .. MaxImages /\ Blank = 0
BY QueueConstants, GethConstants
DEF QueueConstants, GethConstants, Threads, OutThread, GethThread, Blank

(* A step that leaves the ring alone leaves its contents alone.            *)
LEMMA RingKept ==
  ASSUME RingOK, UNCHANGED ring
  PROVE  /\ RingOK' /\ QueueTypeOK' /\ Length' = Length /\ Contents' = Contents
         /\ QueuedCopies' = QueuedCopies /\ is_full' = is_full
BY DEF ring, queueVars, RingOK, QueueTypeOK, Length, Contents, QueuedCopies

(* The copies stay where they are when only the places of threads change   *)
(* that are not handling one.                                              *)
LEMMA CopiesKept ==
  ASSUME Inductive, UNCHANGED <<ring, live, held, images>>,
         pc'[OutThread] = "queue_send" <=> pc[OutThread] = "queue_send",
         pc'[OutThread] = "queue" => pc[OutThread] = "queue",
         held[GethThread] # Null => pc'[GethThread] \in Sending,
         pc'[GethThread] = "none" => pc[GethThread] = "none",
         QueueLeft' => QueueLeft
  PROVE  CopiesTracked' /\ RingOK' /\ QueueTypeOK'
<1>1. RingOK' /\ QueueTypeOK' /\ Length' = Length /\ Contents' = Contents /\ is_full' = is_full
      /\ QueuedCopies' = QueuedCopies
  BY RingKept DEF Inductive
<1>2. HeldCopies' = HeldCopies
  BY DEF HeldCopies
<1>q. QED
  BY <1>1, <1>2 DEF Inductive, CopiesTracked, SendFits

(* While the output thread runs nobody has told the Ethernet thread to     *)
(* stop.                                                                   *)
LEMMA OutRuns ==
  ASSUME Inductive, pc[OutThread] \notin {"none", "ended"}
  PROVE  /\ ~QueueLeft /\ ~Clearing /\ pc[GethThread] # "drain"
         /\ player \notin {"create_out", "stop", "join_geth", "closed"}
BY DEF Inductive, PlacesAgree, QueueLeft, Clearing, Sending

(* The output thread moves on.                                             *)
LEMMA OutPlaces ==
  ASSUME Inductive, pc[OutThread] \notin {"none", "ended"}, UNCHANGED lifeVars,
         NEW place \in {"ended", "recv", "queue", "queue_send"} \cup Sending,
         pc' = [pc EXCEPT ![OutThread] = place], held'[GethThread] = held[GethThread]
  PROVE  /\ PlacesAgree' /\ pc'[GethThread] = pc[GethThread] /\ pc'[OutThread] = place
         /\ QueueLeft' = QueueLeft /\ Clearing' = Clearing
         /\ pc' \in [Threads -> {"none", "ended", "recv", "queue", "queue_send", "loop", "drain",
                                 "fill", "send", "sync", "sync_fill", "sync_send"}]
<1>1. /\ pc'[GethThread] = pc[GethThread] /\ pc'[OutThread] = place
      /\ pc' \in [Threads -> {"none", "ended", "recv", "queue", "queue_send", "loop", "drain",
                              "fill", "send", "sync", "sync_fill", "sync_send"}]
  BY TwoThreads DEF Inductive, TypeOK, Sending
<1>2. QueueLeft' = QueueLeft /\ Clearing' = Clearing
  BY <1>1 DEF QueueLeft, Clearing
<1>3. PlacesAgree'
  BY <1>1, <1>2, OutRuns DEF Inductive, PlacesAgree, lifeVars
<1>q. QED
  BY <1>1, <1>2, <1>3

(* What the output thread does to the screen is to blank it.               *)
LEMMA OutScreen ==
  ASSUME Inductive, pc[OutThread] \notin {"none", "ended"},
         pc'[GethThread] = pc[GethThread], held'[GethThread] = held[GethThread],
         frame'[OutThread] = Blank, frame'[GethThread] = frame[GethThread], UNCHANGED drawn,
         ~drawn => sendbuf'.pixels = Blank /\ AllBlank'
  PROVE  ScreenFollows'
<1>1. ~QueueLeft' /\ ~Clearing'
  BY OutRuns DEF QueueLeft, Clearing
<1>q. QED
  BY <1>1 DEF Inductive, ScreenFollows

(* The Ethernet thread moves on.                                           *)
LEMMA GethPlaces ==
  ASSUME Inductive, pc[GethThread] \notin {"none", "ended"}, UNCHANGED lifeVars,
         NEW place \in {"ended", "loop", "recv", "drain"} \cup Sending,
         pc' = [pc EXCEPT ![GethThread] = place],
         place = "drain" \/ QueueLeft' => g_geth_thread_state = "STOP"
  PROVE  /\ PlacesAgree' /\ pc'[OutThread] = pc[OutThread] /\ pc'[GethThread] = place
         /\ pc' \in [Threads -> {"none", "ended", "recv", "queue", "queue_send", "loop", "drain",
                                 "fill", "send", "sync", "sync_fill", "sync_send"}]
<1>1. /\ pc'[OutThread] = pc[OutThread] /\ pc'[GethThread] = place
      /\ pc' \in [Threads -> {"none", "ended", "recv", "queue", "queue_send", "loop", "drain",
                              "fill", "send", "sync", "sync_fill", "sync_send"}]
  BY TwoThreads DEF Inductive, TypeOK, Sending
<1>2. PlacesAgree'
  BY <1>1 DEF Inductive, PlacesAgree, lifeVars
<1>q. QED
  BY <1>1, <1>2

(* The output thread goes on sending, polls again or ends.                 *)
LEMMA OutMoves ==
  ASSUME Inductive, pc[OutThread] \in Sending \cup {"recv"},
         NEW place \in {"ended", "recv"} \cup Sending, pc' = [pc EXCEPT ![OutThread] = place],
         UNCHANGED <<ring, copyVars, images, lifeVars>>
  PROVE  /\ PlacesAgree' /\ CopiesTracked' /\ RingOK' /\ QueueTypeOK'
         /\ pc'[GethThread] = pc[GethThread] /\ pc'[OutThread] = place
         /\ pc' \in [Threads -> {"none", "ended", "recv", "queue", "queue_send", "loop", "drain",
                                 "fill", "send", "sync", "sync_fill", "sync_send"}]
<1>1. pc[OutThread] \notin {"none", "ended", "queue", "queue_send"} /\ UNCHANGED <<live, held>>
  BY DEF Sending, copyVars
<1>2. /\ PlacesAgree' /\ pc'[GethThread] = pc[GethThread] /\ pc'[OutThread] = place
      /\ QueueLeft' = QueueLeft
      /\ pc' \in [Threads -> {"none", "ended", "recv", "queue", "queue_send", "loop", "drain",
                              "fill", "send", "sync", "sync_fill", "sync_send"}]
  BY <1>1, OutPlaces
<1>3. place # "queue" /\ place # "queue_send"
  BY DEF Sending
<1>4. CopiesTracked' /\ RingOK' /\ QueueTypeOK'
  BY <1>1, <1>2, <1>3, CopiesKept DEF Inductive, CopiesTracked
<1>q. QED
  BY <1>2, <1>4

(* The Ethernet thread goes on with its frame.                             *)
LEMMA GethMoves ==
  ASSUME Inductive, pc[GethThread] \in Sending,
         NEW place \in Sending, pc' = [pc EXCEPT ![GethThread] = place],
         UNCHANGED <<ring, copyVars, images, lifeVars>>
  PROVE  /\ PlacesAgree' /\ CopiesTracked' /\ RingOK' /\ QueueTypeOK'
         /\ pc'[GethThread] = place /\ pc'[OutThread] = pc[OutThread]
         /\ QueueLeft' = QueueLeft /\ Clearing' = Clearing
         /\ pc' \in [Threads -> {"none", "ended", "recv", "queue", "queue_send", "loop", "drain",
                                 "fill", "send", "sync", "sync_fill", "sync_send"}]
<1>1. pc[GethThread] \notin {"none", "ended"} /\ UNCHANGED <<live, held>>
  BY DEF Sending, copyVars
<1>2. pc'[GethThread] = place
  BY TwoThreads DEF Inductive, TypeOK
<1>3. QueueLeft' = QueueLeft /\ Clearing' = Clearing
  BY <1>1, <1>2 DEF QueueLeft, Clearing, Sending
<1>4. /\ PlacesAgree' /\ pc'[OutThread] = pc[OutThread]
      /\ pc' \in [Threads -> {"none", "ended", "recv", "queue", "queue_send", "loop", "drain",
                              "fill", "send", "sync", "sync_fill", "sync_send"}]
  <2>1. place # "drain" /\ (QueueLeft => g_geth_thread_state = "STOP")
    BY DEF Sending, Inductive, PlacesAgree
  <2>q. QED
    BY <1>1, <1>3, <2>1, GethPlaces
<1>5. CopiesTracked' /\ RingOK' /\ QueueTypeOK'
  <2>1. pc'[GethThread] # "none"
    BY <1>2 DEF Sending
  <2>q. QED
    BY <1>1, <1>2, <1>3, <1>4, <2>1, CopiesKept
<1>q. QED
  BY <1>2, <1>3, <1>4, <1>5

(* A thread builds a packet.                                               *)
LEMMA FillPreserves ==
  ASSUME Inductive, NEW t \in Threads, Fill(t)
  PROVE  Inductive'
<1>0. /\ UNCHANGED <<ring, frame, sequence_id, screen, syncVars, copyVars, idleVars, lifeVars,
                     drawn, failures>>
      /\ pc[t] = "fill" /\ pc' = [pc EXCEPT ![t] = "send"]
      /\ sendbuf' = [sequence |-> sequence_id[t],
                     pixels |-> IF frame[t] = Blank THEN sendbuf.pixels ELSE frame[t]]
  BY DEF Fill, Go
<1>t. TypeOK /\ RingOK /\ PlacesAgree /\ CopiesTracked /\ ScreenFollows
  BY DEF Inductive
<1>i. UNCHANGED <<images, held>> /\ {"fill", "send"} \subseteq Sending
  BY <1>0 DEF idleVars, copyVars, Sending
<1>1. PlacesAgree' /\ ScreenFollows' /\ CopiesTracked' /\ RingOK' /\ QueueTypeOK'
      /\ pc' \in [Threads -> {"none", "ended", "recv", "queue", "queue_send", "loop", "drain",
                              "fill", "send", "sync", "sync_fill", "sync_send"}]
  <2>1. CASE t = OutThread
    <3>1. /\ PlacesAgree' /\ CopiesTracked' /\ RingOK' /\ QueueTypeOK'
          /\ pc'[GethThread] = pc[GethThread]
          /\ pc' \in [Threads -> {"none", "ended", "recv", "queue", "queue_send", "loop", "drain",
                                  "fill", "send", "sync", "sync_fill", "sync_send"}]
      BY <1>0, <1>i, <2>1, OutMoves
    <3>2. ScreenFollows'
      BY <1>0, <1>t, <1>i, <2>1, <3>1, OutScreen DEF ScreenFollows, AllBlank
    <3>q. QED
      BY <3>1, <3>2
  <2>2. CASE t = GethThread
    <3>1. /\ PlacesAgree' /\ CopiesTracked' /\ RingOK' /\ QueueTypeOK'
          /\ pc'[GethThread] = "send" /\ QueueLeft' = QueueLeft /\ Clearing' = Clearing
          /\ pc' \in [Threads -> {"none", "ended", "recv", "queue", "queue_send", "loop", "drain",
                                  "fill", "send", "sync", "sync_fill", "sync_send"}]
      BY <1>0, <1>i, <2>2, GethMoves
    <3>2. ScreenFollows'
      BY <1>0, <1>t, <1>i, <2>2, <3>1, TwoThreads DEF ScreenFollows, AllBlank, Clearing
    <3>q. QED
      BY <3>1, <3>2
  <2>q. QED
    BY <2>1, <2>2, TwoThreads
<1>2. TypeOK'
  <2>1. sendbuf' \in [sequence : 0 .. Packets - 1, pixels : Pictures]
    BY <1>0, <1>t DEF TypeOK
  <2>q. QED
    BY <1>0, <1>1, <1>t, <2>1 DEF TypeOK, syncVars, copyVars, idleVars, lifeVars
<1>q. QED
  BY <1>1, <1>2 DEF Inductive

(* A thread sends a packet, cannot send it, or is cancelled.               *)
LEMMA SendPacketPreserves ==
  ASSUME Inductive, NEW t \in Threads, SendPacket(t)
  PROVE  Inductive'
<1>0. /\ UNCHANGED <<ring, frame, sendbuf, syncVars, copyVars, idleVars, lifeVars, drawn>>
      /\ pc[t] = "send"
  BY DEF SendPacket
<1>t. TypeOK /\ RingOK /\ PlacesAgree /\ CopiesTracked /\ ScreenFollows
  BY DEF Inductive
<1>i. UNCHANGED <<images, held>> /\ {"fill", "send", "sync"} \subseteq Sending
  BY <1>0 DEF idleVars, copyVars, Sending
<1>1. PICK place \in {"ended", "fill", "sync"} :
        /\ pc' = [pc EXCEPT ![t] = place]
        /\ place = "ended" => t = OutThread
        /\ \/ UNCHANGED <<sequence_id, screen>> /\ place = "ended" /\ failures' = failures
           \/ /\ screen' = [screen EXCEPT ![sendbuf.sequence] = sendbuf.pixels]
              /\ sequence_id' = [sequence_id EXCEPT ![t] = (@ + 1) % Packets]
              /\ place = IF sequence_id[t] + 1 < Packets THEN "fill" ELSE "sync"
              /\ failures' = failures
           \/ UNCHANGED <<sequence_id, screen>> /\ place = "sync"
              /\ failures < MaxFailures /\ failures' = failures + 1
  BY DEF SendPacket, Go, Ends, Cancelled, SendtoFails
<1>2. /\ \A x \in 0 .. Packets - 1 : (x + 1) % Packets \in 0 .. Packets - 1
      /\ \A x \in 0 .. Packets - 1 : x + 1 < Packets => (x + 1) % Packets = x + 1
  <2>1. ASSUME NEW n \in Nat \ {0}, NEW x \in 0 .. n - 1
        PROVE  (x + 1) % n \in 0 .. n - 1 /\ (x + 1 < n => (x + 1) % n = x + 1)
    <3>1. PICK a \in Int : a = x + 1
      OBVIOUS
    <3>2. a % n \in 0 .. n - 1 /\ (0 <= a /\ a < n => a % n = a)
      BY Turn
    <3>q. QED
      BY <3>1, <3>2
  <2>q. QED
    BY <2>1, TwoThreads
<1>3. TypeOK'
  <2>1. screen' \in [0 .. Packets - 1 -> Pictures]
    BY <1>1, <1>t DEF TypeOK
  <2>2. sequence_id' \in [Threads -> 0 .. Packets - 1]
    BY <1>1, <1>2, <1>t DEF TypeOK
  <2>3. failures' \in 0 .. MaxFailures
    <3>1. failures' = failures \/ (failures < MaxFailures /\ failures' = failures + 1)
      BY <1>1
    <3>2. failures \in 0 .. MaxFailures /\ MaxFailures \in Nat
      BY <1>t, GethConstants DEF TypeOK, GethConstants
    <3>q. QED
      BY <3>1, <3>2
  <2>4. /\ pc' \in [Threads -> {"none", "ended", "recv", "queue", "queue_send", "loop", "drain",
                                "fill", "send", "sync", "sync_fill", "sync_send"}]
        /\ QueueTypeOK'
    BY <1>0, <1>1, <1>t, RingKept DEF TypeOK
  <2>q. QED
    BY <1>0, <1>t, <2>1, <2>2, <2>3, <2>4 DEF TypeOK, syncVars, copyVars, idleVars, lifeVars
<1>4. CASE t = OutThread
  <2>1. /\ PlacesAgree' /\ CopiesTracked' /\ RingOK' /\ QueueTypeOK'
        /\ pc'[GethThread] = pc[GethThread]
    BY <1>0, <1>1, <1>i, <1>4, OutMoves
  <2>2. ~drawn => sendbuf'.pixels = Blank /\ AllBlank'
    BY <1>0, <1>1, <1>t DEF ScreenFollows, AllBlank, TypeOK
  <2>3. ScreenFollows'
    BY <1>0, <1>t, <1>i, <1>4, <2>1, <2>2, OutScreen DEF ScreenFollows
  <2>q. QED
    BY <1>3, <2>1, <2>3 DEF Inductive
<1>5. CASE t = GethThread
  <2>1. /\ PlacesAgree' /\ CopiesTracked' /\ RingOK' /\ QueueTypeOK'
        /\ pc'[GethThread] = place /\ QueueLeft' = QueueLeft /\ Clearing' = Clearing
    BY <1>0, <1>1, <1>i, <1>5, TwoThreads, GethMoves
  <2>2. /\ frame'[OutThread] = Blank /\ (held'[GethThread] = Null => frame'[GethThread] = Blank)
        /\ pc'[GethThread] # "none"
    BY <1>0, <1>1, <1>t, <1>i, <2>1 DEF ScreenFollows
  <2>3. ~drawn' => frame'[GethThread] = Blank /\ sendbuf'.pixels = Blank /\ AllBlank'
    BY <1>0, <1>1, <1>t, <1>i DEF ScreenFollows, AllBlank, TypeOK
  <2>4. ASSUME Clearing
        PROVE  /\ sendbuf'.pixels = Blank
               /\ place = "fill" => \A p \in 0 .. sequence_id'[GethThread] - 1 : screen'[p] = Blank
               /\ place = "sync" /\ failures' = 0 => AllBlank'
    <3>1. /\ sendbuf.pixels = Blank /\ sendbuf.sequence = sequence_id[GethThread]
          /\ \A p \in 0 .. sequence_id[GethThread] - 1 : screen[p] = Blank
          /\ sequence_id[GethThread] \in 0 .. Packets - 1 /\ failures \in Nat
          /\ screen \in [0 .. Packets - 1 -> Pictures]
      BY <1>0, <1>t, <1>5, <2>4 DEF ScreenFollows, TypeOK
    <3>2. sendbuf'.pixels = Blank
      BY <1>0, <3>1
    <3>3. CASE failures' = failures
      <4>1. /\ screen' = [screen EXCEPT ![sequence_id[GethThread]] = Blank]
            /\ sequence_id' = [sequence_id EXCEPT ![t] = (@ + 1) % Packets]
            /\ place = IF sequence_id[GethThread] + 1 < Packets THEN "fill" ELSE "sync"
        BY <1>1, <1>5, <3>1, <3>3, TwoThreads
      <4>2. \A p \in 0 .. sequence_id[GethThread] : screen'[p] = Blank
        BY <3>1, <4>1, TwoThreads
      <4>3. place = "fill" => sequence_id'[GethThread] = sequence_id[GethThread] + 1
        BY <1>2, <1>5, <1>t, <3>1, <4>1 DEF TypeOK
      <4>4. place = "sync" => AllBlank'
        BY <3>1, <4>1, <4>2, TwoThreads DEF AllBlank
      <4>q. QED
        BY <3>1, <3>2, <4>2, <4>3, <4>4
    <3>4. CASE failures' = failures + 1
      BY <1>1, <3>1, <3>2, <3>4
    <3>q. QED
      BY <1>1, <3>3, <3>4
  <2>5. QueueLeft <=> Clearing
    BY <1>0, <1>5, <1>i DEF QueueLeft
  <2>6. place # "send" /\ (place \notin {"fill", "send"} => place = "sync")
    BY <1>1, <1>5, TwoThreads
  <2>7. ScreenFollows'
    BY <1>0, <2>1, <2>2, <2>3, <2>4, <2>5, <2>6 DEF ScreenFollows
  <2>q. QED
    BY <1>3, <2>1, <2>7 DEF Inductive
<1>q. QED
  BY <1>4, <1>5, TwoThreads

(* A thread picks and fills a sync frame.                                  *)
LEMMA SyncPreserves ==
  ASSUME Inductive, NEW t \in Threads, PickSync(t) \/ FillSync(t)
  PROVE  Inductive'
<1>0. UNCHANGED <<ring, senderVars, sync_idx, copyVars, idleVars, lifeVars, drawn, failures>>
  BY DEF PickSync, FillSync
<1>t. TypeOK /\ RingOK /\ PlacesAgree /\ CopiesTracked /\ ScreenFollows
  BY DEF Inductive
<1>i. UNCHANGED <<images, held>> /\ UNCHANGED <<frame, sequence_id, sendbuf, screen>>
  BY <1>0 DEF idleVars, copyVars, senderVars
<1>1. PICK place \in {"sync_fill", "sync_send"} :
        /\ pc' = [pc EXCEPT ![t] = place] /\ pc[t] \in {"sync", "sync_fill"}
        /\ \/ pick' = [pick EXCEPT ![t] = sync_idx] /\ UNCHANGED sync
           \/ sync' = [sync EXCEPT ![pick[t]] = sync_idx] /\ UNCHANGED pick
  BY DEF PickSync, FillSync, Go
<1>2. place \in Sending /\ pc[t] \in Sending
  BY <1>1 DEF Sending
<1>3. TypeOK'
  <2>1. pick' \in [Threads -> Colours] /\ sync' \in [Colours -> Colours]
    <3>1. /\ pick \in [Threads -> Colours] /\ sync \in [Colours -> Colours]
          /\ sync_idx \in Colours /\ pick[t] \in Colours
      BY <1>t DEF TypeOK
    <3>2. CASE pick' = [pick EXCEPT ![t] = sync_idx] /\ UNCHANGED sync
      BY <3>1, <3>2
    <3>3. CASE sync' = [sync EXCEPT ![pick[t]] = sync_idx] /\ UNCHANGED pick
      BY <3>1, <3>3
    <3>q. QED
      BY <1>1, <3>2, <3>3
  <2>2. /\ pc' \in [Threads -> {"none", "ended", "recv", "queue", "queue_send", "loop", "drain",
                                "fill", "send", "sync", "sync_fill", "sync_send"}]
        /\ QueueTypeOK'
    BY <1>0, <1>1, <1>t, RingKept DEF TypeOK
  <2>q. QED
    BY <1>0, <1>i, <1>t, <2>1, <2>2 DEF TypeOK, copyVars, idleVars, lifeVars
<1>4. CASE t = OutThread
  <2>1. /\ PlacesAgree' /\ CopiesTracked' /\ RingOK' /\ pc'[GethThread] = pc[GethThread]
    BY <1>0, <1>1, <1>2, <1>i, <1>4, OutMoves
  <2>2. pc[OutThread] \notin {"none", "ended"}
    BY <1>1, <1>4
  <2>3. ScreenFollows'
    BY <1>0, <1>t, <1>i, <1>4, <2>1, <2>2, OutScreen DEF ScreenFollows, AllBlank
  <2>q. QED
    BY <1>3, <2>1, <2>3 DEF Inductive
<1>5. CASE t = GethThread
  <2>1. /\ PlacesAgree' /\ CopiesTracked' /\ RingOK'
        /\ pc'[GethThread] = place /\ QueueLeft' = QueueLeft /\ Clearing' = Clearing
    BY <1>0, <1>1, <1>2, <1>i, <1>5, GethMoves
  <2>2. ScreenFollows'
    BY <1>0, <1>1, <1>t, <1>i, <1>5, <2>1 DEF ScreenFollows, AllBlank
  <2>q. QED
    BY <1>3, <2>1, <2>2 DEF Inductive
<1>q. QED
  BY <1>4, <1>5, TwoThreads

(* A thread has sent its frame; the Ethernet thread frees the copy.        *)
LEMMA SendSyncPreserves ==
  ASSUME Inductive, NEW t \in Threads, SendSync(t)
  PROVE  Inductive'
<1>0. /\ UNCHANGED <<ring, sendbuf, screen, sync, idleVars, lifeVars, drawn>>
      /\ pc[t] = "sync_send" /\ Forgotten(t)
      /\ \/ Cancelled(t) /\ Ends(t) /\ UNCHANGED copyVars
         \/ FrameSent(t)
      /\ \/ UNCHANGED <<sync_idx, failures>>
         \/ sync_idx' = NextColour(sync_idx) /\ UNCHANGED failures
         \/ SendtoFails /\ UNCHANGED sync_idx
  BY DEF SendSync, FrameSent
<1>t. TypeOK /\ RingOK /\ PlacesAgree /\ CopiesTracked /\ ScreenFollows
  BY DEF Inductive
<1>i. UNCHANGED images /\ pc[t] \in Sending
  BY <1>0 DEF idleVars, Sending
<1>1. /\ frame' = [frame EXCEPT ![t] = Blank]
      /\ sequence_id' = [sequence_id EXCEPT ![t] = 0]
      /\ pick' = [pick EXCEPT ![t] = 0]
  BY <1>0 DEF Forgotten
<1>2. failures' \in 0 .. MaxFailures /\ (failures' = 0 => failures = 0)
  <2>1. failures' = failures \/ (failures < MaxFailures /\ failures' = failures + 1)
    BY <1>0 DEF SendtoFails
  <2>2. failures \in 0 .. MaxFailures /\ MaxFailures \in Nat
    BY <1>t, GethConstants DEF TypeOK, GethConstants
  <2>q. QED
    BY <2>1, <2>2
<1>3. /\ frame' \in [Threads -> Pictures] /\ sequence_id' \in [Threads -> 0 .. Packets - 1]
      /\ pick' \in [Threads -> Colours] /\ sync_idx' \in Colours
  <2>1. 0 \in 0 .. Packets - 1 /\ 0 \in Colours /\ Blank \in Pictures
    BY TwoThreads DEF Colours, Pictures
  <2>2. sync_idx' \in Colours
    <3>1. ASSUME NEW n \in Nat \ {0}, NEW x \in 0 .. n - 1
          PROVE  (x + 1) % n \in 0 .. n - 1
      <4>1. PICK a \in Int : a = x + 1
        OBVIOUS
      <4>2. a % n \in 0 .. n - 1
        BY Turn
      <4>q. QED
        BY <4>1, <4>2
    <3>2. sync_idx \in 0 .. SyncFrames - 1
      BY <1>t DEF TypeOK, Colours
    <3>q. QED
      BY <1>0, <3>1, <3>2, TwoThreads DEF NextColour, Colours
  <2>q. QED
    BY <1>1, <1>t, <2>1, <2>2 DEF TypeOK
<1>4. CASE t = OutThread
  <2>1. PICK place \in {"recv", "ended"} : pc' = [pc EXCEPT ![OutThread] = place]
    BY <1>0, <1>4 DEF Ends, FrameSent, Go
  <2>2. UNCHANGED copyVars
    BY <1>0, <1>4 DEF FrameSent
  <2>3. /\ PlacesAgree' /\ CopiesTracked' /\ RingOK' /\ QueueTypeOK'
        /\ pc'[GethThread] = pc[GethThread]
        /\ pc' \in [Threads -> {"none", "ended", "recv", "queue", "queue_send", "loop", "drain",
                                "fill", "send", "sync", "sync_fill", "sync_send"}]
    BY <1>0, <1>4, <1>i, <2>1, <2>2, OutMoves
  <2>4. ScreenFollows'
    <3>1. /\ held'[GethThread] = held[GethThread] /\ UNCHANGED <<screen, drawn, sendbuf>>
          /\ frame'[OutThread] = Blank /\ frame'[GethThread] = frame[GethThread]
          /\ pc[OutThread] \notin {"none", "ended"}
      BY <1>0, <1>1, <1>4, <1>t, <2>2, TwoThreads DEF copyVars, TypeOK
    <3>2. ~drawn => sendbuf'.pixels = Blank /\ AllBlank'
      BY <1>t, <3>1 DEF ScreenFollows, AllBlank
    <3>q. QED
      BY <2>3, <3>1, <3>2, OutScreen
  <2>5. TypeOK'
    BY <1>0, <1>2, <1>3, <1>t, <2>2, <2>3 DEF TypeOK, copyVars, idleVars, lifeVars
  <2>q. QED
    BY <2>3, <2>4, <2>5 DEF Inductive
<1>5. CASE t = GethThread
  <2>0. /\ pc' = [pc EXCEPT ![GethThread] = IF held[GethThread] = Null THEN "ended" ELSE "loop"]
        /\ live' = live \ {held[GethThread]}
        /\ held' = [held EXCEPT ![GethThread] = Null]
    BY <1>0, <1>5, TwoThreads DEF FrameSent, Cancelled, Go
  <2>1. /\ pc'[GethThread] = IF held[GethThread] = Null THEN "ended" ELSE "loop"
        /\ pc'[OutThread] = pc[OutThread]
        /\ held'[GethThread] = Null /\ held'[OutThread] = held[OutThread]
        /\ held' \in [Threads -> Units \cup {Null}] /\ live' \subseteq Units
        /\ frame'[GethThread] = Blank /\ frame'[OutThread] = frame[OutThread]
    BY <1>1, <1>5, <1>t, <2>0, TwoThreads DEF TypeOK
  <2>2. QueueLeft' = Clearing /\ ~Clearing' /\ (Clearing <=> QueueLeft)
    BY <1>5, <1>i, <1>0, <2>1 DEF QueueLeft, Clearing, Sending
  <2>3. /\ PlacesAgree'
        /\ pc' \in [Threads -> {"none", "ended", "recv", "queue", "queue_send", "loop", "drain",
                                "fill", "send", "sync", "sync_fill", "sync_send"}]
    <3>1. PICK place \in {"ended", "loop"} : pc' = [pc EXCEPT ![GethThread] = place]
      BY <2>0
    <3>2. place # "drain" /\ pc[GethThread] \notin {"none", "ended"}
      BY <1>0, <1>5
    <3>3. QueueLeft' => g_geth_thread_state = "STOP"
      BY <1>t, <2>2 DEF PlacesAgree
    <3>q. QED
      BY <1>0, <3>1, <3>2, <3>3, GethPlaces
  <2>4. RingOK' /\ QueueTypeOK' /\ Length' = Length /\ Contents' = Contents /\ is_full' = is_full
        /\ QueuedCopies' = QueuedCopies
    BY <1>0, <1>t, RingKept
  <2>5. CopiesTracked'
    <3>1. live' = QueuedCopies \cup HeldCopies'
      BY <1>t, <2>0, <2>1, TwoThreads DEF CopiesTracked, HeldCopies
    <3>2. \A s \in Threads : held'[s] \notin QueuedCopies
      <4>1. Null \notin QueuedCopies
        <5>1. Contents \in Seq(Units) /\ Len(Contents) = Length
          BY <1>t, RingContents
        <5>q. QED
          BY <5>1, ElementOfSeq, TwoThreads DEF QueuedCopies
      <4>q. QED
        BY <1>t, <2>1, <4>1, TwoThreads DEF CopiesTracked
    <3>3. live' \subseteq 1 .. images'
      BY <1>i, <1>t, <2>0 DEF CopiesTracked
    <3>4. /\ held'[OutThread] # Null => held'[OutThread] = images' /\ held'[GethThread] # images'
          /\ pc'[OutThread] = "queue" => images' \in Units \ live'
      BY <1>i, <1>t, <2>0, <2>1, TwoThreads DEF CopiesTracked, TypeOK
    <3>5. /\ held'[OutThread] # Null <=> pc'[OutThread] = "queue_send"
          /\ pc'[GethThread] # "none" /\ held'[GethThread] = Null
      BY <1>t, <2>1 DEF CopiesTracked
    <3>6. QueueLeft' => Contents = <<>>
      BY <1>t, <2>2 DEF CopiesTracked
    <3>7. SendFits' /\ \A i, j \in 1 .. Length : Contents[i] = Contents[j] => i = j
      BY <1>t, <2>1, <2>4 DEF CopiesTracked, SendFits
    <3>q. QED
      BY <2>4, <3>1, <3>2, <3>3, <3>4, <3>5, <3>6, <3>7 DEF CopiesTracked
  <2>6. ScreenFollows'
    BY <1>0, <1>2, <1>5, <1>t, <2>1, <2>2 DEF ScreenFollows, AllBlank
  <2>7. TypeOK'
    BY <1>0, <1>2, <1>3, <1>t, <2>1, <2>3, <2>4 DEF TypeOK, idleVars, lifeVars
  <2>q. QED
    BY <2>3, <2>4, <2>5, <2>6, <2>7 DEF Inductive
<1>q. QED
  BY <1>4, <1>5, TwoThreads

(* The output thread finds no image: it ends, counts the polls or sends a  *)
(* blank frame.                                                            *)
LEMMA PollPreserves ==
  ASSUME Inductive, Poll
  PROVE  Inductive'
<1>0. /\ UNCHANGED <<ring, syncVars, copyVars, images, time_out_last, lifeVars, drawn, failures>>
      /\ pc[OutThread] = "recv"
  BY DEF Poll
<1>t. TypeOK /\ RingOK /\ PlacesAgree /\ CopiesTracked /\ ScreenFollows
  BY DEF Inductive
<1>1. /\ \/ \E place \in {"ended", "fill"} : pc' = [pc EXCEPT ![OutThread] = place]
         \/ pc' = pc
      /\ \/ UNCHANGED <<frame, sequence_id, sendbuf>>
         \/ /\ frame' = [frame EXCEPT ![OutThread] = Blank]
            /\ sequence_id' = [sequence_id EXCEPT ![OutThread] = 0]
            /\ sendbuf' = [sendbuf EXCEPT !.pixels = Blank]
      /\ UNCHANGED screen
      /\ count_timeout' = count_timeout \/ count_timeout' = 0
           \/ (count_timeout < IdlePolls /\ count_timeout' = count_timeout + 1)
  BY DEF Poll, Ends, Go, StartFrame, senderVars, PollsCounted
<1>2. PICK place \in {"ended", "fill", "recv"} : pc' = [pc EXCEPT ![OutThread] = place]
  <2>1. CASE pc' = pc
    BY <1>0, <1>t, <2>1 DEF TypeOK
  <2>q. QED
    BY <1>1, <2>1
<1>3. /\ PlacesAgree' /\ CopiesTracked' /\ RingOK' /\ QueueTypeOK'
      /\ pc'[GethThread] = pc[GethThread]
      /\ pc' \in [Threads -> {"none", "ended", "recv", "queue", "queue_send", "loop", "drain",
                              "fill", "send", "sync", "sync_fill", "sync_send"}]
  BY <1>0, <1>2, OutMoves DEF Sending
<1>4. /\ frame' \in [Threads -> Pictures] /\ sequence_id' \in [Threads -> 0 .. Packets - 1]
      /\ sendbuf' \in [sequence : 0 .. Packets - 1, pixels : Pictures]
      /\ frame'[OutThread] = Blank /\ frame'[GethThread] = frame[GethThread]
      /\ sendbuf'.pixels = sendbuf.pixels \/ sendbuf'.pixels = Blank
  <2>1. CASE UNCHANGED <<frame, sequence_id, sendbuf>>
    BY <1>t, <2>1 DEF TypeOK, ScreenFollows
  <2>2. CASE /\ frame' = [frame EXCEPT ![OutThread] = Blank]
             /\ sequence_id' = [sequence_id EXCEPT ![OutThread] = 0]
             /\ sendbuf' = [sendbuf EXCEPT !.pixels = Blank]
    <3>1. 0 \in 0 .. Packets - 1 /\ Blank \in Pictures
      BY TwoThreads DEF Pictures
    <3>2. /\ frame \in [Threads -> Pictures] /\ sequence_id \in [Threads -> 0 .. Packets - 1]
          /\ sendbuf \in [sequence : 0 .. Packets - 1, pixels : Pictures]
      BY <1>t DEF TypeOK
    <3>3. /\ frame' \in [Threads -> Pictures]
          /\ frame'[OutThread] = Blank /\ frame'[GethThread] = frame[GethThread]
      BY <2>2, <3>1, <3>2, TwoThreads
    <3>4. sequence_id' \in [Threads -> 0 .. Packets - 1]
      BY <2>2, <3>1, <3>2, TwoThreads
    <3>5. sendbuf' \in [sequence : 0 .. Packets - 1, pixels : Pictures] /\ sendbuf'.pixels = Blank
      BY <2>2, <3>1, <3>2
    <3>q. QED
      BY <3>3, <3>4, <3>5
  <2>q. QED
    BY <1>1, <2>1, <2>2
<1>5. ScreenFollows'
  <2>1. ~drawn => sendbuf'.pixels = Blank /\ AllBlank'
    BY <1>1, <1>4, <1>t DEF ScreenFollows, AllBlank
  <2>2. pc[OutThread] \notin {"none", "ended"} /\ held'[GethThread] = held[GethThread]
    BY <1>0 DEF copyVars
  <2>q. QED
    BY <1>0, <1>3, <1>4, <2>1, <2>2, OutScreen
<1>6. count_timeout' \in 0 .. IdlePolls
  <2>1. count_timeout \in 0 .. IdlePolls /\ IdlePolls \in Nat
    BY <1>t, GethConstants DEF TypeOK, GethConstants
  <2>q. QED
    BY <1>1, <2>1
<1>7. TypeOK'
  BY <1>0, <1>1, <1>3, <1>4, <1>6, <1>t DEF TypeOK, syncVars, copyVars, lifeVars
<1>q. QED
  BY <1>3, <1>5, <1>7 DEF Inductive

(* An image reaches the output thread.                                     *)
LEMMA ImageArrivesPreserves ==
  ASSUME Inductive, ImageArrives
  PROVE  Inductive'
<1>0. /\ UNCHANGED <<ring, senderVars, syncVars, copyVars, time_out_last, lifeVars, drawn,
                     failures>>
      /\ pc[OutThread] = "recv" /\ pc[GethThread] # "none" /\ images < MaxImages
      /\ images' = images + 1 /\ count_timeout' = 0 /\ pc' = [pc EXCEPT ![OutThread] = "queue"]
  BY DEF ImageArrives, Go
<1>t. TypeOK /\ RingOK /\ PlacesAgree /\ CopiesTracked /\ ScreenFollows
  BY DEF Inductive
<1>i. pc[OutThread] \notin {"none", "ended"} /\ UNCHANGED <<held, live>>
      /\ UNCHANGED <<frame, sendbuf, screen, sequence_id>>
  BY <1>0 DEF copyVars, senderVars
<1>1. /\ PlacesAgree' /\ pc'[GethThread] = pc[GethThread] /\ pc'[OutThread] = "queue"
      /\ QueueLeft' = QueueLeft
      /\ pc' \in [Threads -> {"none", "ended", "recv", "queue", "queue_send", "loop", "drain",
                              "fill", "send", "sync", "sync_fill", "sync_send"}]
  BY <1>0, <1>i, OutPlaces
<1>2. ScreenFollows'
  BY <1>0, <1>i, <1>t, <1>1, OutScreen DEF ScreenFollows, AllBlank
<1>3. RingOK' /\ QueueTypeOK' /\ Length' = Length /\ Contents' = Contents /\ is_full' = is_full
      /\ QueuedCopies' = QueuedCopies
  BY <1>0, <1>t, RingKept
<1>4. images' \in Units /\ images' \in 0 .. MaxImages
  BY <1>0, <1>t, TwoThreads, GethConstants DEF TypeOK
<1>5. CopiesTracked'
  <2>1. held[OutThread] = Null
    BY <1>0, <1>t DEF CopiesTracked
  <2>2. live \subseteq 1 .. images' /\ images' \notin live
    BY <1>0, <1>t DEF CopiesTracked, TypeOK
  <2>3. HeldCopies' = HeldCopies
    BY <1>i DEF HeldCopies
  <2>q. QED
    BY <1>0, <1>1, <1>3, <1>4, <1>i, <1>t, <2>1, <2>2, <2>3 DEF CopiesTracked, SendFits
<1>6. TypeOK'
  <2>1. 0 \in 0 .. IdlePolls
    BY GethConstants DEF GethConstants
  <2>q. QED
    BY <1>0, <1>1, <1>3, <1>4, <1>i, <1>t, <2>1 DEF TypeOK, syncVars, lifeVars
<1>q. QED
  BY <1>1, <1>2, <1>3, <1>5, <1>6 DEF Inductive

(* The output thread copies the image, or skips it.                        *)
LEMMA CopyImagePreserves ==
  ASSUME Inductive, CopyImage
  PROVE  Inductive'
<1>0. /\ UNCHANGED <<ring, senderVars, syncVars, idleVars, lifeVars, drawn, failures>>
      /\ pc[OutThread] = "queue"
  BY DEF CopyImage
<1>t. TypeOK /\ RingOK /\ PlacesAgree /\ CopiesTracked /\ ScreenFollows
  BY DEF Inductive
<1>i. /\ pc[OutThread] \notin {"none", "ended"} /\ UNCHANGED images
      /\ UNCHANGED <<frame, sendbuf, screen, sequence_id>>
  BY <1>0 DEF idleVars, senderVars
<1>3. RingOK' /\ QueueTypeOK' /\ Length' = Length /\ Contents' = Contents /\ is_full' = is_full
      /\ QueuedCopies' = QueuedCopies
  BY <1>0, <1>t, RingKept
<1>4. CASE pc' = [pc EXCEPT ![OutThread] = "recv"] /\ UNCHANGED copyVars
  <2>1. /\ PlacesAgree' /\ pc'[GethThread] = pc[GethThread] /\ pc'[OutThread] = "recv"
        /\ QueueLeft' = QueueLeft
        /\ pc' \in [Threads -> {"none", "ended", "recv", "queue", "queue_send", "loop", "drain",
                                "fill", "send", "sync", "sync_fill", "sync_send"}]
    BY <1>0, <1>4, <1>i, OutPlaces DEF copyVars
  <2>2. ScreenFollows'
    BY <1>0, <1>4, <1>i, <1>t, <2>1, OutScreen DEF ScreenFollows, AllBlank, copyVars
  <2>3. CopiesTracked'
    BY <1>0, <1>4, <1>i, <1>t, <2>1, CopiesKept DEF copyVars, CopiesTracked
  <2>4. TypeOK'
    BY <1>0, <1>3, <1>4, <1>i, <1>t, <2>1 DEF TypeOK, syncVars, lifeVars, copyVars, idleVars
  <2>q. QED
    BY <1>3, <2>1, <2>2, <2>3, <2>4 DEF Inductive
<1>5. CASE /\ ~is_full /\ live' = live \cup {images}
           /\ held' = [held EXCEPT ![OutThread] = images]
           /\ pc' = [pc EXCEPT ![OutThread] = "queue_send"]
  <2>1. /\ held'[OutThread] = images /\ held'[GethThread] = held[GethThread]
        /\ images \in Units /\ images \notin live /\ images \in 0 .. MaxImages
        /\ held' \in [Threads -> Units \cup {Null}] /\ live' \subseteq Units
    BY <1>0, <1>5, <1>t, TwoThreads DEF CopiesTracked, TypeOK
  <2>2. /\ PlacesAgree' /\ pc'[GethThread] = pc[GethThread] /\ pc'[OutThread] = "queue_send"
        /\ QueueLeft' = QueueLeft
        /\ pc' \in [Threads -> {"none", "ended", "recv", "queue", "queue_send", "loop", "drain",
                                "fill", "send", "sync", "sync_fill", "sync_send"}]
    BY <1>0, <1>5, <1>i, <2>1, OutPlaces
  <2>3. ScreenFollows'
    BY <1>0, <1>i, <1>t, <2>1, <2>2, OutScreen DEF ScreenFollows, AllBlank
  <2>4. CopiesTracked'
    <3>1. held[GethThread] # images /\ images \notin QueuedCopies
      BY <1>t, <2>1, TwoThreads DEF CopiesTracked, HeldCopies
    <3>2. HeldCopies' = HeldCopies \cup {images}
      <4>1. held[OutThread] = Null
        BY <1>0, <1>t DEF CopiesTracked
      <4>q. QED
        BY <2>1, <4>1, TwoThreads DEF HeldCopies
    <3>3. live' = QueuedCopies' \cup HeldCopies' /\ live' \subseteq 1 .. images'
      BY <1>3, <1>5, <1>i, <1>t, <2>1, <3>2, TwoThreads DEF CopiesTracked
    <3>4. \A t \in Threads : held'[t] \notin QueuedCopies'
      BY <1>3, <1>t, <2>1, <3>1, TwoThreads DEF CopiesTracked
    <3>q. QED
      BY <1>3, <1>5, <1>i, <1>t, <2>1, <2>2, <3>1, <3>3, <3>4, TwoThreads
      DEF CopiesTracked, SendFits
  <2>5. TypeOK'
    BY <1>0, <1>3, <1>i, <1>t, <2>1, <2>2 DEF TypeOK, syncVars, lifeVars, idleVars
  <2>q. QED
    BY <1>3, <2>2, <2>3, <2>4, <2>5 DEF Inductive
<1>q. QED
  BY <1>4, <1>5 DEF CopyImage, Go, SeemsToFit, Img_Queue_Is_Full

(* Which copies are queued after one was sent ...                          *)
LEMMA QueuedAfterSend ==
  ASSUME RingOK, NEW u \in Units, Contents' = Append(Contents, u), Length' = Length + 1
  PROVE  /\ QueuedCopies' = QueuedCopies \cup {u}
         /\ (\A i, j \in 1 .. Length : Contents[i] = Contents[j] => i = j)
              /\ u \notin QueuedCopies
              => \A i, j \in 1 .. Length' : Contents'[i] = Contents'[j] => i = j
<1>1. /\ Length \in Nat /\ Contents'[Length + 1] = u
      /\ \A i \in 1 .. Length : Contents'[i] = Contents[i]
  BY RingContents, AppendProperties
<1>2. /\ 1 .. Length + 1 = 1 .. Length \cup {Length + 1}
      /\ QueuedCopies' = {Contents'[i] : i \in 1 .. Length + 1}
      /\ QueuedCopies = {Contents[i] : i \in 1 .. Length}
  BY <1>1 DEF QueuedCopies
<1>3. QueuedCopies' = QueuedCopies \cup {u}
  <2>1. ASSUME NEW x \in QueuedCopies'
        PROVE  x \in QueuedCopies \cup {u}
    <3>1. PICK i \in 1 .. Length + 1 : x = Contents'[i]
      BY <1>2
    <3>q. QED
      BY <1>1, <1>2, <3>1
  <2>2. ASSUME NEW x \in QueuedCopies
        PROVE  x \in QueuedCopies'
    <3>1. PICK i \in 1 .. Length : x = Contents[i]
      BY <1>2
    <3>q. QED
      BY <1>1, <1>2, <3>1
  <2>3. u \in QueuedCopies'
    BY <1>1, <1>2
  <2>q. QED
    BY <2>1, <2>2, <2>3
<1>4. ASSUME \A i, j \in 1 .. Length : Contents[i] = Contents[j] => i = j, u \notin QueuedCopies,
             NEW i \in 1 .. Length + 1, NEW j \in 1 .. Length + 1, Contents'[i] = Contents'[j]
      PROVE  i = j
  <2>1. CASE i \in 1 .. Length /\ j \in 1 .. Length
    BY <1>1, <1>4, <2>1
  <2>2. CASE i = Length + 1 /\ j \in 1 .. Length
    BY <1>1, <1>2, <1>4, <2>2
  <2>3. CASE i \in 1 .. Length /\ j = Length + 1
    BY <1>1, <1>2, <1>4, <2>3
  <2>q. QED
    BY <1>2, <2>1, <2>2, <2>3
<1>q. QED
  BY <1>3, <1>4

(* ... and after one was received.                                         *)
LEMMA QueuedAfterRecv ==
  ASSUME RingOK, Contents # <<>>, Contents' = Tail(Contents), Length' = Length - 1,
         \A i, j \in 1 .. Length : Contents[i] = Contents[j] => i = j
  PROVE  /\ Head(Contents) \in QueuedCopies /\ Head(Contents) \in Units
         /\ QueuedCopies' = QueuedCopies \ {Head(Contents)}
         /\ \A i, j \in 1 .. Length' : Contents'[i] = Contents'[j] => i = j
<1>1. /\ Length \in Nat /\ Length > 0 /\ Head(Contents) = Contents[1] /\ Head(Contents) \in Units
      /\ \A i \in 1 .. Length - 1 : Contents'[i] = Contents[i + 1]
  <2>1. /\ Contents \in Seq(Units) /\ Len(Contents) = Length /\ Length \in Nat /\ Length # 0
    BY RingContents
  <2>q. QED
    BY <2>1, HeadTailProperties
<1>2. /\ \A i \in 1 .. Length - 1 : i + 1 \in 1 .. Length /\ i + 1 # 1
      /\ \A i \in 1 .. Length : i # 1 => i - 1 \in 1 .. Length - 1 /\ (i - 1) + 1 = i
      /\ 1 \in 1 .. Length
  BY <1>1
<1>3. \A i \in 1 .. Length : i # 1 => Contents'[i - 1] = Contents[i]
  BY <1>1, <1>2
<1>4. /\ QueuedCopies' = {Contents'[i] : i \in 1 .. Length - 1}
      /\ QueuedCopies = {Contents[i] : i \in 1 .. Length}
  BY DEF QueuedCopies
<1>5. ASSUME NEW x \in QueuedCopies'
      PROVE  x \in QueuedCopies \ {Head(Contents)}
  <2>1. PICK i \in 1 .. Length - 1 : x = Contents'[i]
    BY <1>4
  <2>2. x = Contents[i + 1] /\ i + 1 \in 1 .. Length /\ i + 1 # 1
    BY <1>1, <1>2, <2>1
  <2>3. x # Contents[1]
    BY <1>2, <2>2
  <2>q. QED
    BY <1>1, <1>4, <2>2, <2>3
<1>6. ASSUME NEW x \in QueuedCopies \ {Head(Contents)}
      PROVE  x \in QueuedCopies'
  <2>1. PICK i \in 1 .. Length : x = Contents[i] /\ i # 1
    BY <1>1, <1>4
  <2>2. i - 1 \in 1 .. Length - 1 /\ x = Contents'[i - 1]
    BY <1>2, <1>3, <2>1
  <2>q. QED
    BY <1>4, <2>2
<1>7. \A i, j \in 1 .. Length - 1 : Contents'[i] = Contents'[j] => i = j
  <2>1. SUFFICES ASSUME NEW i \in 1 .. Length - 1, NEW j \in 1 .. Length - 1,
                        Contents'[i] = Contents'[j]
                 PROVE  i = j
    OBVIOUS
  <2>2. PICK x, y : x = i + 1 /\ y = j + 1
    OBVIOUS
  <2>3. x \in 1 .. Length /\ y \in 1 .. Length /\ Contents[x] = Contents[y]
    BY <1>1, <1>2, <2>1, <2>2
  <2>4. x = y
    BY <2>3
  <2>q. QED
    BY <2>2, <2>4
<1>8. Head(Contents) \in QueuedCopies
  BY <1>1, <1>2, <1>4
<1>q. QED
  BY <1>1, <1>5, <1>6, <1>7, <1>8

(* The output thread queues its copy.                                      *)
LEMMA QueueCopyPreserves ==
  ASSUME Inductive, QueueCopy
  PROVE  Inductive'
<1>0. /\ UNCHANGED <<senderVars, syncVars, images, count_timeout, lifeVars, drawn, failures>>
      /\ pc[OutThread] = "queue_send" /\ pc' = [pc EXCEPT ![OutThread] = "recv"]
      /\ Img_Queue_Send(held[OutThread]) /\ held' = [held EXCEPT ![OutThread] = Null]
  BY DEF QueueCopy, Go
<1>t. TypeOK /\ RingOK /\ PlacesAgree /\ CopiesTracked /\ ScreenFollows
  BY DEF Inductive
<1>i. /\ pc[OutThread] \notin {"none", "ended"}
      /\ UNCHANGED <<frame, sendbuf, screen, sequence_id>>
  BY <1>0 DEF senderVars
<1>1. PICK u \in Units : u = held[OutThread] /\ u = images /\ u \notin QueuedCopies
  BY <1>0, <1>t, TwoThreads DEF CopiesTracked, TypeOK
<1>2. /\ RingOK' /\ Contents' = Append(Contents, u) /\ result' = Ok /\ Length' = Length + 1
  <2>1. ~is_full
    BY <1>0, <1>t DEF CopiesTracked, SendFits
  <2>q. QED
    BY <1>0, <1>1, <1>t, <2>1, SendRing
<1>3. time_out_last' = TRUE /\ live' = live
  BY <1>2 DEF QueueCopy
<1>4. /\ held'[OutThread] = Null /\ held'[GethThread] = held[GethThread]
      /\ held' \in [Threads -> Units \cup {Null}]
  BY <1>0, <1>t, TwoThreads DEF TypeOK
<1>5. /\ PlacesAgree' /\ pc'[GethThread] = pc[GethThread] /\ pc'[OutThread] = "recv"
      /\ QueueLeft' = QueueLeft
      /\ pc' \in [Threads -> {"none", "ended", "recv", "queue", "queue_send", "loop", "drain",
                              "fill", "send", "sync", "sync_fill", "sync_send"}]
  BY <1>0, <1>i, <1>4, OutPlaces
<1>6. ScreenFollows'
  BY <1>0, <1>i, <1>t, <1>4, <1>5, OutScreen DEF ScreenFollows, AllBlank
<1>7. /\ QueuedCopies' = QueuedCopies \cup {u}
      /\ \A i, j \in 1 .. Length' : Contents'[i] = Contents'[j] => i = j
  BY <1>1, <1>2, <1>t, QueuedAfterSend DEF CopiesTracked
<1>8. CopiesTracked'
  <2>1. HeldCopies = HeldCopies' \cup {u}
    BY <1>1, <1>4, TwoThreads DEF HeldCopies
  <2>2. live' = QueuedCopies' \cup HeldCopies' /\ live' \subseteq 1 .. images'
    BY <1>0, <1>3, <1>7, <1>t, <2>1 DEF CopiesTracked
  <2>3. Null \notin QueuedCopies /\ held[GethThread] # u /\ Null # u
    <3>1. Contents \in Seq(Units) /\ Len(Contents) = Length
      BY <1>t, RingContents
    <3>q. QED
      BY <1>1, <1>t, <3>1, ElementOfSeq, TwoThreads DEF QueuedCopies, CopiesTracked
  <2>4. \A t \in Threads : held'[t] \notin QueuedCopies'
    BY <1>4, <1>7, <1>t, <2>3, TwoThreads DEF CopiesTracked
  <2>5. ~QueueLeft'
    BY <1>5, <1>i, OutRuns
  <2>q. QED
    BY <1>0, <1>4, <1>5, <1>7, <1>t, <2>2, <2>4, <2>5 DEF CopiesTracked, SendFits
<1>9. TypeOK'
  BY <1>0, <1>2, <1>3, <1>4, <1>5, <1>i, <1>t DEF TypeOK, RingOK, syncVars, lifeVars
<1>q. QED
  BY <1>2, <1>5, <1>6, <1>8, <1>9 DEF Inductive

(* The Ethernet thread sees whether it has to stop.                        *)
LEMMA CheckStatePreserves ==
  ASSUME Inductive, CheckState
  PROVE  Inductive'
<1>0. /\ UNCHANGED <<ring, senderVars, syncVars, copyVars, idleVars, lifeVars, drawn, failures>>
      /\ pc[GethThread] = "loop"
  BY DEF CheckState
<1>t. TypeOK /\ RingOK /\ PlacesAgree /\ CopiesTracked /\ ScreenFollows
  BY DEF Inductive
<1>1. PICK place \in {"recv", "drain"} :
        /\ pc' = [pc EXCEPT ![GethThread] = place]
        /\ place = "drain" => g_geth_thread_state = "STOP"
  BY <1>t DEF CheckState, Go, TypeOK
<1>2. /\ held[GethThread] = Null /\ pc'[GethThread] = place /\ UNCHANGED <<live, held, images>>
      /\ place \notin Sending /\ pc[GethThread] \notin Sending
  BY <1>0, <1>1, <1>t, TwoThreads DEF CopiesTracked, Sending, TypeOK, copyVars, idleVars
<1>3. ~QueueLeft' /\ ~Clearing' /\ ~QueueLeft /\ ~Clearing
  BY <1>0, <1>1, <1>2 DEF QueueLeft, Clearing
<1>4. /\ PlacesAgree' /\ pc'[OutThread] = pc[OutThread]
      /\ pc' \in [Threads -> {"none", "ended", "recv", "queue", "queue_send", "loop", "drain",
                              "fill", "send", "sync", "sync_fill", "sync_send"}]
  <2>1. pc[GethThread] \notin {"none", "ended"}
    BY <1>0
  <2>q. QED
    BY <1>0, <1>1, <1>3, <2>1, GethPlaces
<1>5. CopiesTracked' /\ RingOK' /\ QueueTypeOK'
  BY <1>0, <1>1, <1>2, <1>3, <1>4, CopiesKept
<1>6. ScreenFollows'
  BY <1>0, <1>1, <1>2, <1>3, <1>t DEF ScreenFollows, AllBlank, senderVars
<1>7. TypeOK'
  BY <1>0, <1>4, <1>5, <1>t DEF TypeOK, senderVars, syncVars, copyVars, idleVars, lifeVars
<1>q. QED
  BY <1>4, <1>5, <1>6, <1>7 DEF Inductive

(* A queued copy is no thread's and no Null.                               *)
LEMMA QueuedUnits ==
  ASSUME RingOK
  PROVE  QueuedCopies \subseteq Units /\ Null \notin QueuedCopies
<1>1. Contents \in Seq(Units) /\ Len(Contents) = Length
  BY RingContents
<1>q. QED
  BY <1>1, ElementOfSeq, TwoThreads DEF QueuedCopies

(* A thread begins a frame.                                                *)
LEMMA FrameStarts ==
  ASSUME TypeOK, NEW t \in Threads, NEW picture \in Pictures, StartFrame(t, picture)
  PROVE  /\ pc' = [pc EXCEPT ![t] = "fill"]
         /\ frame' = [frame EXCEPT ![t] = picture] /\ frame' \in [Threads -> Pictures]
         /\ sequence_id' = [sequence_id EXCEPT ![t] = 0]
         /\ sequence_id' \in [Threads -> 0 .. Packets - 1]
         /\ sendbuf' \in [sequence : 0 .. Packets - 1, pixels : Pictures]
         /\ picture = Blank => sendbuf'.pixels = Blank
         /\ picture # Blank => sendbuf' = sendbuf
<1>1. 0 \in 0 .. Packets - 1 /\ Blank \in Pictures
  BY TwoThreads DEF Pictures
<1>2. /\ frame \in [Threads -> Pictures] /\ sequence_id \in [Threads -> 0 .. Packets - 1]
      /\ sendbuf \in [sequence : 0 .. Packets - 1, pixels : Pictures]
  BY DEF TypeOK
<1>3. /\ pc' = [pc EXCEPT ![t] = "fill"]
      /\ frame' = [frame EXCEPT ![t] = picture] /\ sequence_id' = [sequence_id EXCEPT ![t] = 0]
  BY DEF StartFrame, Go
<1>4. frame' \in [Threads -> Pictures] /\ sequence_id' \in [Threads -> 0 .. Packets - 1]
  BY <1>1, <1>2, <1>3
<1>5. CASE picture = Blank
  <2>1. sendbuf' = [sendbuf EXCEPT !.pixels = Blank]
    BY <1>5 DEF StartFrame
  <2>2. sendbuf' \in [sequence : 0 .. Packets - 1, pixels : Pictures] /\ sendbuf'.pixels = Blank
    BY <1>1, <1>2, <2>1
  <2>q. QED
    BY <1>3, <1>4, <1>5, <2>2
<1>6. CASE picture # Blank
  <2>1. sendbuf' = sendbuf
    BY <1>6 DEF StartFrame
  <2>q. QED
    BY <1>2, <1>3, <1>4, <1>6, <2>1
<1>q. QED
  BY <1>5, <1>6

(* The Ethernet thread takes a copy out of the queue.                      *)
LEMMA RecvCopyPreserves ==
  ASSUME Inductive, RecvCopy
  PROVE  Inductive'
<1>0. /\ UNCHANGED <<syncVars, live, idleVars, lifeVars, failures>>
      /\ pc[GethThread] = "recv" /\ Img_Queue_Recv
  BY DEF RecvCopy
<1>t. TypeOK /\ RingOK /\ PlacesAgree /\ CopiesTracked /\ ScreenFollows
  BY DEF Inductive
<1>i. UNCHANGED images /\ pc[GethThread] \notin {"none", "ended"}
  BY <1>0 DEF idleVars
<1>r. RingOK' /\ QueueTypeOK'
  BY <1>0, <1>t, RecvRing DEF RingOK
<1>h. held[GethThread] = Null /\ ~QueueLeft
  BY <1>0, <1>t DEF CopiesTracked, Sending, QueueLeft, Clearing
<1>1. CASE Contents = <<>>
  <2>1. Contents' = Contents /\ result' = Null /\ Length' = Length
    BY <1>0, <1>1, <1>t, RecvRing
  <2>2. pc' = [pc EXCEPT ![GethThread] = "loop"] /\ UNCHANGED <<senderVars, held, drawn>>
    BY <2>1 DEF RecvCopy, Go
  <2>3. pc'[GethThread] = "loop"
    BY <1>t, <2>2, TwoThreads DEF TypeOK
  <2>4. ~QueueLeft' /\ ~Clearing'
    BY <2>3 DEF QueueLeft, Clearing, Sending
  <2>5. /\ PlacesAgree' /\ pc'[OutThread] = pc[OutThread]
        /\ pc' \in [Threads -> {"none", "ended", "recv", "queue", "queue_send", "loop", "drain",
                                "fill", "send", "sync", "sync_fill", "sync_send"}]
    BY <1>0, <1>i, <2>2, <2>4, GethPlaces
  <2>6. QueuedCopies' = QueuedCopies /\ HeldCopies' = HeldCopies
    BY <2>1, <2>2 DEF QueuedCopies, HeldCopies
  <2>7. is_full' = FALSE \/ is_full' = is_full
    BY <1>0 DEF Img_Queue_Recv
  <2>8. CopiesTracked'
    BY <1>0, <1>h, <1>i, <1>t, <2>1, <2>2, <2>3, <2>4, <2>5, <2>6, <2>7 DEF CopiesTracked, SendFits
  <2>9. ScreenFollows'
    BY <1>0, <1>h, <1>t, <2>2, <2>3, <2>4 DEF ScreenFollows, AllBlank, senderVars
  <2>10. TypeOK'
    BY <1>0, <1>r, <1>t, <2>2, <2>5 DEF TypeOK, senderVars, syncVars, idleVars, lifeVars
  <2>q. QED
    BY <1>r, <2>5, <2>8, <2>9, <2>10 DEF Inductive
<1>2. CASE Contents # <<>>
  <2>1. PICK u \in Units :
          /\ Contents' = Tail(Contents) /\ result' = u /\ Length' = Length - 1
          /\ u \in QueuedCopies /\ QueuedCopies' = QueuedCopies \ {u}
          /\ \A i, j \in 1 .. Length' : Contents'[i] = Contents'[j] => i = j
    <3>1. Contents' = Tail(Contents) /\ result' = Head(Contents) /\ Length' = Length - 1
      BY <1>0, <1>2, <1>t, RecvRing
    <3>2. \A i, j \in 1 .. Length : Contents[i] = Contents[j] => i = j
      BY <1>t DEF CopiesTracked
    <3>q. QED
      BY <1>2, <1>t, <3>1, <3>2, QueuedAfterRecv
  <2>2. u # Null /\ u \in Pictures /\ u # Blank
    BY TwoThreads DEF Pictures
  <2>3. /\ held' = [held EXCEPT ![GethThread] = u] /\ drawn' = TRUE
        /\ StartFrame(GethThread, u) /\ UNCHANGED screen
    BY <2>1, <2>2 DEF RecvCopy
  <2>4. /\ held'[GethThread] = u /\ held'[OutThread] = held[OutThread]
        /\ held' \in [Threads -> Units \cup {Null}]
    BY <1>t, <2>3, TwoThreads DEF TypeOK
  <2>5. /\ pc' = [pc EXCEPT ![GethThread] = "fill"]
        /\ frame' = [frame EXCEPT ![GethThread] = u] /\ frame' \in [Threads -> Pictures]
        /\ sequence_id' \in [Threads -> 0 .. Packets - 1]
        /\ sendbuf' \in [sequence : 0 .. Packets - 1, pixels : Pictures]
    BY <1>t, <2>2, <2>3, TwoThreads, FrameStarts
  <2>6. frame'[OutThread] = frame[OutThread] /\ pc'[GethThread] = "fill"
    BY <1>t, <2>5, TwoThreads DEF TypeOK
  <2>7. ~QueueLeft' /\ ~Clearing' /\ "fill" \in Sending
    BY <2>2, <2>4, <2>6 DEF QueueLeft, Clearing, Sending
  <2>8. /\ PlacesAgree' /\ pc'[OutThread] = pc[OutThread]
        /\ pc' \in [Threads -> {"none", "ended", "recv", "queue", "queue_send", "loop", "drain",
                                "fill", "send", "sync", "sync_fill", "sync_send"}]
    BY <1>0, <1>i, <2>5, <2>7, GethPlaces
  <2>9. CopiesTracked'
    <3>1. HeldCopies = HeldCopies' \ {u} /\ u \in HeldCopies'
      <4>1. held[OutThread] # u
        BY <1>t, <2>1, TwoThreads DEF CopiesTracked
      <4>q. QED
        BY <1>h, <2>2, <2>4, <4>1, TwoThreads DEF HeldCopies
    <3>2. live' = QueuedCopies' \cup HeldCopies'
      BY <1>0, <1>t, <2>1, <3>1 DEF CopiesTracked
    <3>3. \A t \in Threads : held'[t] \notin QueuedCopies'
      BY <1>t, <2>1, <2>4, TwoThreads DEF CopiesTracked
    <3>4. held[OutThread] # Null => held[OutThread] = images /\ u # images
      BY <1>t, <2>1, TwoThreads DEF CopiesTracked
    <3>5. is_full' = FALSE
      BY <1>0, <1>2, <1>t, RingContents DEF Img_Queue_Recv
    <3>6. /\ SendFits'
          /\ held'[OutThread] # Null <=> pc'[OutThread] = "queue_send"
          /\ pc'[OutThread] = "queue" => images' \in Units \ live'
          /\ live' \subseteq 1 .. images'
      BY <1>0, <1>i, <1>t, <2>4, <2>8, <3>5 DEF CopiesTracked, SendFits
    <3>q. QED
      BY <1>i, <2>1, <2>4, <2>6, <2>7, <3>2, <3>3, <3>4, <3>6 DEF CopiesTracked
  <2>10. ScreenFollows'
    BY <1>t, <2>2, <2>3, <2>4, <2>6, <2>7 DEF ScreenFollows
  <2>11. TypeOK'
    <3>1. drawn' \in BOOLEAN /\ screen' \in [0 .. Packets - 1 -> Pictures]
      BY <1>t, <2>3 DEF TypeOK
    <3>q. QED
      BY <1>0, <1>r, <1>t, <2>4, <2>5, <2>8, <3>1 DEF TypeOK, syncVars, idleVars, lifeVars
  <2>q. QED
    BY <1>r, <2>8, <2>9, <2>10, <2>11 DEF Inductive
<1>q. QED
  BY <1>1, <1>2

(* The Ethernet thread frees what is left in the queue, clears the screen  *)
(* if it ever drew on it, and ends.                                        *)
LEMMA DrainPreserves ==
  ASSUME Inductive, Drain
  PROVE  Inductive'
<1>0. /\ UNCHANGED <<syncVars, held, idleVars, lifeVars, drawn, failures>>
      /\ pc[GethThread] = "drain" /\ Img_Queue_Recv
  BY DEF Drain
<1>t. TypeOK /\ RingOK /\ PlacesAgree /\ CopiesTracked /\ ScreenFollows
  BY DEF Inductive
<1>i. UNCHANGED images /\ pc[GethThread] \notin {"none", "ended"}
  BY <1>0 DEF idleVars
<1>r. RingOK' /\ QueueTypeOK'
  BY <1>0, <1>t, RecvRing DEF RingOK
<1>h. /\ held[GethThread] = Null /\ ~QueueLeft /\ g_geth_thread_state = "STOP"
      /\ pc[OutThread] \in {"none", "ended"} /\ held[OutThread] = Null
  BY <1>0, <1>t DEF CopiesTracked, PlacesAgree, Sending, QueueLeft, Clearing
<1>k. HeldCopies' = HeldCopies
  BY <1>0 DEF HeldCopies
<1>1. CASE Contents = <<>>
  <2>1. Contents' = Contents /\ result' = Null /\ Length' = Length
    BY <1>0, <1>1, <1>t, RecvRing
  <2>2. /\ IF drawn THEN StartFrame(GethThread, Blank) /\ UNCHANGED screen
            ELSE Go(GethThread, "ended") /\ UNCHANGED senderVars
        /\ live' = live
    BY <2>1 DEF Drain, ClearScreen, LeaveScreen, Ends
  <2>3. PICK place \in {"ended", "fill"} :
          /\ pc' = [pc EXCEPT ![GethThread] = place] /\ UNCHANGED screen
          /\ frame' \in [Threads -> Pictures] /\ sequence_id' \in [Threads -> 0 .. Packets - 1]
          /\ sendbuf' \in [sequence : 0 .. Packets - 1, pixels : Pictures]
          /\ frame'[OutThread] = Blank /\ frame'[GethThread] = Blank
          /\ place = "ended" => ~drawn /\ sendbuf' = sendbuf
          /\ place = "fill" => /\ drawn /\ sendbuf'.pixels = Blank
                              /\ sequence_id'[GethThread] = 0
    <3>1. CASE drawn
      <4>1. StartFrame(GethThread, Blank) /\ UNCHANGED screen
        BY <2>2, <3>1
      <4>2. Blank \in Pictures
        BY DEF Pictures
      <4>3. /\ pc' = [pc EXCEPT ![GethThread] = "fill"]
            /\ frame' = [frame EXCEPT ![GethThread] = Blank] /\ frame' \in [Threads -> Pictures]
            /\ sequence_id' = [sequence_id EXCEPT ![GethThread] = 0]
            /\ sequence_id' \in [Threads -> 0 .. Packets - 1]
            /\ sendbuf' \in [sequence : 0 .. Packets - 1, pixels : Pictures]
            /\ sendbuf'.pixels = Blank
        BY <1>t, <4>1, <4>2, TwoThreads, FrameStarts
      <4>4. frame'[OutThread] = Blank /\ frame'[GethThread] = Blank /\ sequence_id'[GethThread] = 0
        BY <1>t, <4>3, TwoThreads DEF TypeOK, ScreenFollows
      <4>q. QED
        BY <3>1, <4>1, <4>3, <4>4
    <3>2. CASE ~drawn
      <4>1. pc' = [pc EXCEPT ![GethThread] = "ended"] /\ UNCHANGED senderVars
        BY <2>2, <3>2 DEF Go
      <4>q. QED
        BY <1>h, <1>t, <3>2, <4>1 DEF senderVars, TypeOK, ScreenFollows
    <3>q. QED
      BY <3>1, <3>2
  <2>4. pc'[GethThread] = place
    BY <1>t, <2>3, TwoThreads DEF TypeOK
  <2>5. /\ PlacesAgree' /\ pc'[OutThread] = pc[OutThread]
        /\ pc' \in [Threads -> {"none", "ended", "recv", "queue", "queue_send", "loop", "drain",
                                "fill", "send", "sync", "sync_fill", "sync_send"}]
    <3>1. place \in {"ended"} \cup Sending /\ place # "drain"
      BY DEF Sending
    <3>q. QED
      BY <1>0, <1>h, <1>i, <2>3, <3>1, GethPlaces
  <2>6. QueuedCopies' = QueuedCopies
    BY <2>1 DEF QueuedCopies
  <2>7. CopiesTracked'
    <3>1. pc'[OutThread] \notin {"queue", "queue_send"} /\ pc'[GethThread] # "none"
      BY <1>h, <2>4, <2>5
    <3>q. QED
      BY <1>0, <1>1, <1>h, <1>i, <1>k, <1>t, <2>1, <2>2, <2>6, <3>1 DEF CopiesTracked, SendFits
  <2>8. ScreenFollows'
    <3>1. AllBlank' = AllBlank
      BY <2>3 DEF AllBlank
    <3>2. place = "ended" => AllBlank' /\ sendbuf'.pixels = Blank /\ ~Clearing'
      BY <1>t, <2>3, <2>4, <3>1 DEF ScreenFollows, Clearing, Sending
    <3>3. place = "fill" => \A p \in 0 .. sequence_id'[GethThread] - 1 : screen'[p] = Blank
      BY <2>3
    <3>q. QED
      BY <1>0, <2>3, <2>4, <3>2, <3>3 DEF ScreenFollows
  <2>9. TypeOK'
    BY <1>0, <1>r, <1>t, <2>2, <2>3, <2>5 DEF TypeOK, syncVars, idleVars, lifeVars
  <2>q. QED
    BY <1>r, <2>5, <2>7, <2>8, <2>9 DEF Inductive
<1>2. CASE Contents # <<>>
  <2>1. PICK u \in Units :
          /\ Contents' = Tail(Contents) /\ result' = u /\ Length' = Length - 1
          /\ u \in QueuedCopies /\ QueuedCopies' = QueuedCopies \ {u}
          /\ \A i, j \in 1 .. Length' : Contents'[i] = Contents'[j] => i = j
    <3>1. Contents' = Tail(Contents) /\ result' = Head(Contents) /\ Length' = Length - 1
      BY <1>0, <1>2, <1>t, RecvRing
    <3>2. \A i, j \in 1 .. Length : Contents[i] = Contents[j] => i = j
      BY <1>t DEF CopiesTracked
    <3>q. QED
      BY <1>2, <1>t, <3>1, <3>2, QueuedAfterRecv
  <2>2. live' = live \ {u} /\ UNCHANGED <<pc, senderVars>>
    BY <2>1, TwoThreads DEF Drain, FreedByDrain
  <2>3. QueueLeft' = QueueLeft /\ Clearing' = Clearing
    BY <1>0, <2>2 DEF QueueLeft, Clearing
  <2>4. PlacesAgree'
    BY <1>0, <1>t, <2>2, <2>3 DEF PlacesAgree, lifeVars
  <2>5. CopiesTracked'
    <3>1. u \notin HeldCopies
      BY <1>t, <2>1, TwoThreads DEF CopiesTracked, HeldCopies
    <3>2. live' = QueuedCopies' \cup HeldCopies' /\ live' \subseteq 1 .. images'
      BY <1>i, <1>k, <1>t, <2>1, <2>2, <3>1 DEF CopiesTracked
    <3>3. \A t \in Threads : held'[t] \notin QueuedCopies'
      BY <1>0, <1>t, <2>1 DEF CopiesTracked
    <3>q. QED
      BY <1>0, <1>h, <1>i, <1>t, <2>1, <2>2, <2>3, <3>2, <3>3 DEF CopiesTracked, SendFits
  <2>6. ScreenFollows'
    BY <1>0, <1>t, <2>2, <2>3 DEF ScreenFollows, AllBlank, senderVars
  <2>7. TypeOK'
    BY <1>0, <1>r, <1>t, <2>2 DEF TypeOK, senderVars, syncVars, idleVars, lifeVars
  <2>q. QED
    BY <1>r, <2>4, <2>5, <2>6, <2>7 DEF Inductive
<1>q. QED
  BY <1>1, <1>2

(* Vo_Dmx_Init and Vo_Dmx_Deinit take one step further.                    *)
LEMMA LifePreserves ==
  ASSUME Inductive,
         CreateOut \/ CreateGeth \/ CallDeinit \/ CancelOut \/ JoinOut \/ StopGeth \/ JoinGeth,
         UNCHANGED <<ring, senderVars, syncVars, copyVars, idleVars, drawn, failures>>
  PROVE  Inductive'
<1>t. TypeOK /\ RingOK /\ PlacesAgree /\ CopiesTracked /\ ScreenFollows
  BY DEF Inductive
<1>i. /\ UNCHANGED <<live, held, images, frame, sequence_id, sendbuf, screen>>
      /\ RingOK' /\ QueueTypeOK'
  BY <1>t, RingKept DEF copyVars, idleVars, senderVars
<1>1. /\ pc' \in [Threads -> {"none", "ended", "recv", "queue", "queue_send", "loop", "drain",
                              "fill", "send", "sync", "sync_fill", "sync_send"}]
      /\ \/ pc' = pc
         \/ /\ pc[OutThread] = "none" /\ pc'[OutThread] = "recv"
            /\ pc[GethThread] = "none" /\ pc'[GethThread] = "none"
         \/ /\ pc[GethThread] = "none" /\ pc'[GethThread] = "loop"
            /\ pc'[OutThread] = pc[OutThread]
  BY <1>t, TwoThreads
  DEF PlacesAgree, TypeOK, CreateOut, CreateGeth, CallDeinit, CancelOut, JoinOut, StopGeth,
      JoinGeth, Go
<1>2. QueueLeft' = QueueLeft /\ Clearing' = Clearing
  BY <1>1, <1>i DEF QueueLeft, Clearing, Sending
<1>3. TypeOK'
  <2>1. /\ player' \in {"create_out", "create_geth", "running", "cancel", "join_out", "stop",
                        "join_geth", "closed"}
        /\ cancelled' \in BOOLEAN /\ g_geth_thread_state' \in {"RUN", "STOP"}
    BY <1>t
    DEF TypeOK, CreateOut, CreateGeth, CallDeinit, CancelOut, JoinOut, StopGeth, JoinGeth
  <2>q. QED
    BY <1>1, <1>i, <1>t, <2>1 DEF TypeOK, syncVars, idleVars
<1>4. PlacesAgree'
  <2>1. CASE CreateOut
    BY <1>1, <1>2, <1>t, <2>1, TwoThreads DEF PlacesAgree, CreateOut, Go, TypeOK
  <2>2. CASE CreateGeth
    BY <1>1, <1>2, <1>t, <2>2, TwoThreads
    DEF PlacesAgree, CreateGeth, Go, TypeOK, QueueLeft, Clearing, Sending
  <2>3. CASE CallDeinit \/ CancelOut
    BY <1>2, <1>t, <2>3 DEF PlacesAgree, CallDeinit, CancelOut
  <2>4. CASE JoinOut
    BY <1>2, <1>t, <2>4 DEF PlacesAgree, JoinOut
  <2>5. CASE StopGeth \/ JoinGeth
    BY <1>2, <1>t, <2>5 DEF PlacesAgree, StopGeth, JoinGeth
  <2>q. QED
    BY <2>1, <2>2, <2>3, <2>4, <2>5
<1>5. CopiesTracked'
  <2>1. /\ pc'[OutThread] = "queue_send" <=> pc[OutThread] = "queue_send"
        /\ pc'[OutThread] = "queue" => pc[OutThread] = "queue"
        /\ held[GethThread] # Null => pc'[GethThread] \in Sending
        /\ pc'[GethThread] = "none" => pc[GethThread] = "none"
    BY <1>1, <1>t DEF CopiesTracked, Sending
  <2>q. QED
    BY <1>2, <1>i, <2>1, CopiesKept
<1>6. ScreenFollows'
  <2>1. /\ pc'[GethThread] = pc[GethThread]
           \/ pc'[GethThread] = "loop"
        /\ Clearing => pc' = pc /\ AllBlank' = AllBlank
    BY <1>1, <1>i DEF Clearing, Sending, AllBlank
  <2>2. QueueLeft => pc'[GethThread] = pc[GethThread]
    BY <1>1 DEF QueueLeft, Clearing, Sending
  <2>q. QED
    BY <1>2, <1>i, <1>t, <2>1, <2>2 DEF ScreenFollows, AllBlank
<1>q. QED
  BY <1>3, <1>4, <1>5, <1>6, <1>i DEF Inductive

(* The link starts well.                                                   *)
LEMMA InitInductive ==
  ASSUME Init
  PROVE  Inductive
<1>1. RingOK /\ Contents = <<>> /\ Length = 0 /\ QueueTypeOK
  BY InitRing, RingContents DEF Init, RingOK
<1>2. /\ 0 \in 0 .. Packets - 1 /\ 0 \in Colours /\ Blank \in Pictures /\ 0 \in 0 .. IdlePolls
      /\ 0 \in 0 .. MaxImages /\ 0 \in 0 .. MaxFailures
  BY TwoThreads, GethConstants DEF Colours, Pictures, GethConstants
<1>3. /\ pc = [t \in Threads |-> "none"] /\ held = [t \in Threads |-> Null]
      /\ frame = [t \in Threads |-> Blank] /\ screen = [p \in 0 .. Packets - 1 |-> Blank]
      /\ sendbuf = [sequence |-> 0, pixels |-> Blank] /\ live = {} /\ images = 0
      /\ player = "create_out" /\ drawn = FALSE
  BY DEF Init
<1>4. ~QueueLeft /\ ~Clearing /\ AllBlank
  BY <1>3, TwoThreads DEF QueueLeft, Clearing, Sending, AllBlank
<1>5. TypeOK
  BY <1>1, <1>2 DEF Init, TypeOK
<1>6. PlacesAgree
  BY <1>3, <1>4, TwoThreads DEF PlacesAgree
<1>7. CopiesTracked
  <2>1. QueuedCopies = {} /\ HeldCopies = {}
    BY <1>1, <1>3 DEF QueuedCopies, HeldCopies
  <2>q. QED
    BY <1>1, <1>3, <1>4, <2>1, TwoThreads DEF CopiesTracked, SendFits
<1>8. ScreenFollows
  BY <1>3, <1>4, TwoThreads DEF ScreenFollows
<1>q. QED
  BY <1>1, <1>5, <1>6, <1>7, <1>8 DEF Inductive

(* Every step of the link preserves the inductive invariant.               *)
LEMMA NextInductive ==
  ASSUME Inductive, [Next]_vars
  PROVE  Inductive'
<1>1. CASE UNCHANGED vars
  <2>1. /\ UNCHANGED <<ring, senderVars, syncVars, copyVars, idleVars, lifeVars, pc, drawn,
                       failures>>
        /\ UNCHANGED <<live, held, images>>
    BY <1>1 DEF vars, copyVars, idleVars
  <2>2. QueueLeft' = QueueLeft /\ Clearing' = Clearing /\ AllBlank' = AllBlank
    BY <2>1 DEF QueueLeft, Clearing, AllBlank, senderVars
  <2>3. CopiesTracked' /\ RingOK' /\ QueueTypeOK'
    BY <2>1, <2>2, CopiesKept DEF Inductive, CopiesTracked
  <2>4. PlacesAgree' /\ ScreenFollows'
    BY <2>1, <2>2 DEF Inductive, PlacesAgree, ScreenFollows, lifeVars, senderVars
  <2>5. TypeOK'
    BY <2>1, <2>3 DEF Inductive, TypeOK, senderVars, syncVars, lifeVars, idleVars
  <2>q. QED
    BY <2>3, <2>4, <2>5 DEF Inductive
<1>2. CASE OutStep
  BY <1>2, TwoThreads, PollPreserves, ImageArrivesPreserves, CopyImagePreserves, QueueCopyPreserves,
     FillPreserves, SendPacketPreserves, SyncPreserves, SendSyncPreserves
  DEF OutStep, SendFrame
<1>3. CASE GethStep
  BY <1>3, TwoThreads, CheckStatePreserves, RecvCopyPreserves, DrainPreserves,
     FillPreserves, SendPacketPreserves, SyncPreserves, SendSyncPreserves
  DEF GethStep, SendFrame
<1>4. CASE Life
  BY <1>4, LifePreserves DEF Life
<1>5. CASE /\ CallDeinit
           /\ UNCHANGED <<ring, senderVars, syncVars, copyVars, idleVars, drawn, failures>>
  BY <1>5, LifePreserves
<1>q. QED
  BY <1>1, <1>2, <1>3, <1>4, <1>5 DEF Next

(* The inductive invariant of the link.                                    *)
THEOREM InductiveHolds == Spec => []Inductive
<1>1. Init => Inductive
  BY InitInductive
<1>2. Inductive /\ [Next]_vars => Inductive'
  BY NextInductive
<1>q. QED
  BY <1>1, <1>2, PTL DEF Spec

(***************************************************************************)
(* What the invariant says about the link                                  *)
(***************************************************************************)

(* What f numbers one to one has as many members as f's domain.            *)
LEMMA OneToOne ==
  ASSUME NEW S, IsFiniteSet(S), NEW T, NEW f \in [S -> T],
         \A x, y \in S : f[x] = f[y] => x = y, \A z \in T : \E x \in S : f[x] = z
  PROVE  IsFiniteSet(T) /\ Cardinality(T) = Cardinality(S)
<1>1. f \in Surjection(S, T) /\ f \in Injection(S, T)
  BY DEF Surjection, Injection, IsInjective
<1>q. QED
  BY <1>1, FS_Surjection

(* Every copy is owned once, and counted once.                             *)
LEMMA InductiveOwned ==
  ASSUME Inductive
  PROVE  CopiesOwned
<1>t. TypeOK /\ RingOK /\ PlacesAgree /\ CopiesTracked
  BY DEF Inductive
<1>1. IsFiniteSet(QueuedCopies) /\ Cardinality(QueuedCopies) = Length
  <2>1. /\ Length \in Nat /\ QueuedCopies = {Contents[i] : i \in 1 .. Length}
        /\ Contents = [i \in 1 .. Length |-> pp_unit[(pos_recv + i - 1) % Size]]
    BY <1>t, RingContents DEF QueuedCopies, Contents
  <2>2. Contents \in [1 .. Length -> QueuedCopies]
    BY <2>1
  <2>3. IsFiniteSet(1 .. Length) /\ Cardinality(1 .. Length) = Length
    BY <2>1, FS_Interval
  <2>4. \A i, j \in 1 .. Length : Contents[i] = Contents[j] => i = j
    BY <1>t DEF CopiesTracked
  <2>5. \A z \in QueuedCopies : \E i \in 1 .. Length : Contents[i] = z
    BY <2>1
  <2>q. QED
    BY <2>2, <2>3, <2>4, <2>5, OneToOne
<1>2. /\ IsFiniteSet(HeldCopies)
      /\ Cardinality(HeldCopies) = Cardinality({t \in Threads : held[t] # Null})
  <2> DEFINE Holders == {t \in Threads : held[t] # Null}
             f == [t \in Holders |-> held[t]]
  <2>1. IsFiniteSet(Holders)
    <3>1. IsFiniteSet(Threads)
      <4>1. IsFiniteSet({OutThread})
        BY FS_Singleton
      <4>2. IsFiniteSet({OutThread} \cup {GethThread})
        BY <4>1, FS_AddElement
      <4>3. Threads = {OutThread} \cup {GethThread}
        BY TwoThreads
      <4>q. QED
        BY <4>2, <4>3
    <3>2. Holders \in SUBSET Threads
      OBVIOUS
    <3>q. QED
      BY <3>1, <3>2, FS_Subset
  <2>2. HeldCopies = {held[t] : t \in Holders}
    BY DEF HeldCopies
  <2>3. f \in [Holders -> HeldCopies] /\ \A z \in HeldCopies : \E t \in Holders : f[t] = z
    BY <2>2
  <2>4. \A s, t \in Holders : f[s] = f[t] => s = t
    BY <1>t, TwoThreads DEF CopiesTracked
  <2> HIDE DEF f, Holders
  <2>5. Cardinality(HeldCopies) = Cardinality(Holders) /\ IsFiniteSet(HeldCopies)
    BY <2>1, <2>3, <2>4, OneToOne
  <2>q. QED
    BY <2>5 DEF Holders
<1>3. Cardinality(live) = Length + Cardinality({t \in Threads : held[t] # Null})
  <2>1. QueuedCopies \cap HeldCopies = {}
    BY <1>t DEF CopiesTracked, HeldCopies
  <2>2. live = QueuedCopies \cup HeldCopies /\ Length \in Nat
    BY <1>t, RingContents DEF CopiesTracked
  <2>3. /\ Cardinality(live) = Cardinality(QueuedCopies) + Cardinality(HeldCopies) - Cardinality({})
        /\ Cardinality(HeldCopies) \in Nat
    <3>1. Cardinality(HeldCopies) \in Nat
      BY <1>2, FS_CardinalityType
    <3>2. Cardinality(QueuedCopies \cup HeldCopies)
            = Cardinality(QueuedCopies) + Cardinality(HeldCopies)
                - Cardinality(QueuedCopies \cap HeldCopies)
      BY <1>1, <1>2, FS_Union
    <3>q. QED
      BY <2>1, <2>2, <3>1, <3>2
  <2>q. QED
    BY <1>1, <1>2, <2>2, <2>3, FS_EmptySet
<1>4. player = "closed" => live = {}
  <2>1. SUFFICES ASSUME player = "closed"
                 PROVE  live = {}
    OBVIOUS
  <2>2. pc[GethThread] \in {"none", "ended"} /\ pc[OutThread] \in {"none", "ended"}
    BY <1>t, <2>1 DEF PlacesAgree
  <2>3. HeldCopies = {}
    BY <1>t, <2>2, TwoThreads DEF CopiesTracked, HeldCopies, Sending
  <2>4. CASE pc[GethThread] = "ended"
    <3>1. Contents = <<>> /\ Length = 0
      BY <1>t, <2>4, RingContents DEF CopiesTracked, QueueLeft
    <3>2. QueuedCopies = {}
      BY <3>1 DEF QueuedCopies
    <3>q. QED
      BY <1>t, <2>3, <3>2 DEF CopiesTracked
  <2>5. CASE pc[GethThread] = "none"
    <3>1. live \subseteq 1 .. 0
      BY <1>t, <2>5 DEF CopiesTracked
    <3>q. QED
      BY <3>1
  <2>q. QED
    BY <2>2, <2>4, <2>5
<1>q. QED
  BY <1>3, <1>4, <1>t DEF CopiesOwned, CopiesTracked

(* Every copy of an image is with the ring or with one thread until it is  *)
(* freed, once, and none is left when Vo_Dmx_Deinit returns.               *)
THEOREM CopiesOwnedHolds == Spec => []CopiesOwned
<1>1. Inductive => CopiesOwned
  BY InductiveOwned
<1>q. QED
  BY <1>1, InductiveHolds, PTL

(* The display shows nothing when the link is closed, unless a packet was  *)
(* lost.                                                                   *)
THEOREM ScreenClearedHolds == Spec => []ScreenCleared
<1>1. Inductive => ScreenCleared
  <2>1. SUFFICES ASSUME Inductive, player = "closed", failures = 0
                 PROVE  \A p \in DOMAIN screen : screen[p] = Blank
    BY DEF ScreenCleared
  <2>2. TypeOK /\ PlacesAgree /\ ScreenFollows
    BY <2>1 DEF Inductive
  <2>3. pc[GethThread] \in {"none", "ended"} /\ DOMAIN screen = 0 .. Packets - 1
    BY <2>1, <2>2 DEF PlacesAgree, TypeOK
  <2>4. AllBlank
    BY <2>1, <2>2, <2>3 DEF ScreenFollows, QueueLeft
  <2>q. QED
    BY <2>3, <2>4 DEF AllBlank
<1>q. QED
  BY <1>1, InductiveHolds, PTL

(***************************************************************************)
(* The ring implements the queue                                           *)
(***************************************************************************)

(* Each call of the ring is a call of the queue, with the same result.     *)
LEMMA RingCalls ==
  ASSUME RingOK,
         (\E unit \in Units : Img_Queue_Send(unit)) \/ Img_Queue_Recv \/ UNCHANGED queueVars
  PROVE  RingOK' /\ [Fifo!Next]_<<Contents, result>>
<1>c. Len(Contents) < Size <=> ~is_full
  BY RingContents
<1>1. CASE \E unit \in Units : Img_Queue_Send(unit)
  <2>1. PICK unit \in Units : Img_Queue_Send(unit)
    BY <1>1
  <2>2. RingOK' /\ Fifo!Send(unit)
    BY <1>c, <2>1, SendRing DEF Fifo!Send
  <2>q. QED
    BY <2>2 DEF Fifo!Next
<1>2. CASE Img_Queue_Recv
  <2>1. RingOK' /\ Fifo!Recv
    BY <1>2, RecvRing DEF Fifo!Recv
  <2>q. QED
    BY <2>1 DEF Fifo!Next
<1>3. CASE UNCHANGED queueVars
  BY <1>3, RingKept DEF queueVars, ring
<1>q. QED
  BY <1>1, <1>2, <1>3

(* The ring buffer alone, called in any order: a bounded FIFO queue of any *)
(* size and any units.                                                     *)
THEOREM RingIsFifo == QueueSpec => ImplementsFifo
<1>1. QueueInit => RingOK /\ Fifo!Init
  BY InitRing DEF QueueInit, Fifo!Init
<1>2. RingOK /\ [QueueNext]_queueVars => RingOK' /\ [Fifo!Next]_<<Contents, result>>
  BY RingCalls DEF QueueNext
<1>q. QED
  BY <1>1, <1>2, PTL DEF QueueSpec, ImplementsFifo, Fifo!Spec

(* The queue between the threads of the link, whatever they do with it.    *)
THEOREM FifoImplemented == Spec => ImplementsFifo
<1>1. Init => Fifo!Init
  BY InitRing DEF Init, QueueInit, Fifo!Init
<1>2. Inductive /\ [Next]_vars => [Fifo!Next]_<<Contents, result>>
  <2>1. SUFFICES ASSUME Inductive, [Next]_vars
                 PROVE  (\E unit \in Units : Img_Queue_Send(unit)) \/ Img_Queue_Recv
                          \/ UNCHANGED queueVars
    BY RingCalls DEF Inductive
  <2>2. CASE QueueCopy
    <3>1. held[OutThread] \in Units
      BY <2>1, <2>2, TwoThreads DEF Inductive, TypeOK, CopiesTracked, QueueCopy
    <3>q. QED
      BY <2>2, <3>1 DEF QueueCopy
  <2>3. CASE RecvCopy \/ Drain
    BY <2>3 DEF RecvCopy, Drain
  <2>4. CASE OutStep /\ ~QueueCopy
    BY <2>4 DEF OutStep, Poll, ImageArrives, CopyImage, SendFrame, Fill, SendPacket, PickSync,
      FillSync, SendSync, ring
  <2>5. CASE GethStep /\ ~(RecvCopy \/ Drain)
    BY <2>5 DEF GethStep, CheckState, SendFrame, Fill, SendPacket, PickSync, FillSync, SendSync,
      ring
  <2>6. CASE Life \/ (CallDeinit /\ UNCHANGED ring) \/ UNCHANGED vars
    BY <2>6 DEF Life, vars, ring
  <2>q. QED
    BY <2>1, <2>2, <2>3, <2>4, <2>5, <2>6 DEF Next
<1>q. QED
  BY <1>1, <1>2, InductiveHolds, PTL DEF Spec, ImplementsFifo, Fifo!Spec

=============================================================================
