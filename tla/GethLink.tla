------------------------------ MODULE GethLink ------------------------------
(***************************************************************************)
(* The Ethernet output of the image pipeline (lq/vo_dmx_geth.c) and the    *)
(* part of its life cycle in lq/vo_dmx.c that starts and stops it.         *)
(*                                                                         *)
(*   _thread_rgb_out -> Vo_Geth_queue -> ring of copies -> _thread_Geth_out*)
(*                                                                         *)
(* Both threads send to the display: the Ethernet thread the images and,   *)
(* when it ends, a blank frame; the output thread a blank frame whenever   *)
(* no image came for a while.  They share the send buffer, the sync frames *)
(* and the index of the next sync frame, and no lock.                      *)
(*                                                                         *)
(* Init is the state after Vo_Geth_Init succeeded, with the output option  *)
(* set to Ethernet, before Vo_Dmx_Init creates the two threads.            *)
(***************************************************************************)
EXTENDS ImgQueue, FiniteSets

CONSTANTS
  Packets,       \* packets of a frame: pixels by pixels per packet
  MaxImages,     \* bound: images that reach the output thread
  MaxFailures,   \* bound: sendto fails
  SyncFrames,    \* sync frames, one per colour: 3 in the code
  IdlePolls      \* polls without an image before a blank frame, 20 in the code

ASSUME GethConstants ==
  /\ MaxImages \in Nat /\ Units = 1 .. MaxImages
  /\ Packets \in Nat \ {0}
  /\ MaxFailures \in Nat
  /\ SyncFrames \in Nat \ {0}
  /\ IdlePolls \in Nat

Blank == 0
Pictures == Units \cup {Blank}

OutThread == "rgb_out"
GethThread == "geth_out"
Threads == {OutThread, GethThread}

Colours == 0 .. SyncFrames - 1

VARIABLES
  player,        \* where Vo_Dmx_Init and Vo_Dmx_Deinit are
  cancelled,     \* pthread_cancel was called for the output thread
  g_geth_thread_state,
  pc,            \* where each thread is
  frame,         \* the picture each thread is sending
  sequence_id,   \* the next packet of that frame
  pick,          \* the sync frame each thread has picked
  images,        \* images that have reached the output thread
  live,          \* the copies that are allocated
  held,          \* the copy each thread has a pointer to
  count_timeout,
  time_out_last, \* an image was queued before: out-fps control may skip one
  drawn,         \* the Ethernet thread knows the size of an image (out_w, out_h)
  sendbuf,       \* the shared send buffer: sequence id and pixels
  sync,          \* _frame_sync: the colour each names and has the gamma of
  sync_idx,      \* _frame_sync_idx
  screen,        \* what the display last got for each part of the picture
  failures       \* history: number of failed sendto

ring == queueVars
senderVars == <<frame, sequence_id, sendbuf, screen>>
syncVars == <<pick, sync, sync_idx>>
copyVars == <<live, held>>
idleVars == <<images, count_timeout, time_out_last>>
lifeVars == <<player, cancelled, g_geth_thread_state>>
vars == <<ring, senderVars, syncVars, copyVars, idleVars, lifeVars, pc, drawn, failures>>

Init ==
  /\ QueueInit
  /\ player = "create_out" /\ cancelled = FALSE /\ g_geth_thread_state = "STOP"
  /\ pc = [t \in Threads |-> "none"]
  /\ frame = [t \in Threads |-> Blank]
  /\ sequence_id = [t \in Threads |-> 0]
  /\ pick = [t \in Threads |-> 0]
  /\ images = 0 /\ live = {} /\ held = [t \in Threads |-> Null]
  /\ count_timeout = 0 /\ time_out_last = FALSE /\ drawn = FALSE
  /\ sendbuf = [sequence |-> 0, pixels |-> Blank]
  /\ sync = [c \in Colours |-> c]
  /\ sync_idx = 0
  /\ screen = [p \in 0 .. Packets - 1 |-> Blank]
  /\ failures = 0

Go(t, place) == pc' = [pc EXCEPT ![t] = place]

(***************************************************************************)
(* Sending a frame: _Vo_Geth_SendRGB, _Vo_Geth_SendRGB_Blank and           *)
(* _Vo_Geth_SendSync.  sendto is a cancellation point of the output thread.*)
(***************************************************************************)

(* The output thread ends at a cancellation point, whatever it was doing.  *)
Cancelled(t) == t = OutThread /\ cancelled

Ends(t) == Go(t, "ended")

(* The locals of a thread that has sent its frame have no use any more.    *)
Forgotten(t) ==
  /\ frame' = [frame EXCEPT ![t] = Blank]
  /\ sequence_id' = [sequence_id EXCEPT ![t] = 0]
  /\ pick' = [pick EXCEPT ![t] = 0]

(* SendRGB_Blank clears the pixels once, before it builds the first packet.*)
StartFrame(t, picture) ==
  /\ frame' = [frame EXCEPT ![t] = picture]
  /\ sequence_id' = [sequence_id EXCEPT ![t] = 0]
  /\ IF picture = Blank THEN sendbuf' = [sendbuf EXCEPT !.pixels = Blank] ELSE UNCHANGED sendbuf
  /\ Go(t, "fill")

Fill(t) ==
  /\ pc[t] = "fill"
  /\ sendbuf' = [sequence |-> sequence_id[t],
                 pixels |-> IF frame[t] = Blank THEN sendbuf.pixels ELSE frame[t]]
  /\ Go(t, "send")
  /\ UNCHANGED <<ring, frame, sequence_id, screen, syncVars, copyVars, idleVars, lifeVars,
                 drawn, failures>>

SendtoFails == failures < MaxFailures /\ failures' = failures + 1

(* A packet that cannot be sent ends the frame; the sync frame follows.    *)
SendPacket(t) ==
  /\ pc[t] = "send"
  /\ \/ /\ Cancelled(t)
        /\ Ends(t)
        /\ UNCHANGED <<sequence_id, screen, failures>>
     \/ /\ ~Cancelled(t)
        /\ screen' = [screen EXCEPT ![sendbuf.sequence] = sendbuf.pixels]
        /\ sequence_id' = [sequence_id EXCEPT ![t] = (@ + 1) % Packets]
        /\ Go(t, IF sequence_id[t] + 1 < Packets THEN "fill" ELSE "sync")
        /\ UNCHANGED failures
     \/ /\ ~Cancelled(t)
        /\ SendtoFails
        /\ Go(t, "sync")
        /\ UNCHANGED <<sequence_id, screen>>
  /\ UNCHANGED <<ring, frame, sendbuf, syncVars, copyVars, idleVars, lifeVars, drawn>>

(* The gamma table of the sync frame is that of the colour the index has   *)
(* when it is read again; so is the colour the frame names.                *)
PickSync(t) ==
  /\ pc[t] = "sync"
  /\ pick' = [pick EXCEPT ![t] = sync_idx]
  /\ Go(t, "sync_fill")
  /\ UNCHANGED <<ring, senderVars, sync, sync_idx, copyVars, idleVars, lifeVars, drawn, failures>>

FillSync(t) ==
  /\ pc[t] = "sync_fill"
  /\ sync' = [sync EXCEPT ![pick[t]] = sync_idx]
  /\ Go(t, "sync_send")
  /\ UNCHANGED <<ring, senderVars, pick, sync_idx, copyVars, idleVars, lifeVars, drawn, failures>>

NextColour(idx) == (idx + 1) % SyncFrames

(* Where a thread goes when its frame is out: the output thread polls      *)
(* again; the Ethernet thread frees the copy it sent, or was clearing the  *)
(* screen and ends.                                                        *)
FrameSent(t) ==
  /\ Forgotten(t)
  /\ IF t = OutThread THEN Go(t, "recv") /\ UNCHANGED copyVars
     ELSE /\ Go(t, IF held[t] = Null THEN "ended" ELSE "loop")
          /\ live' = live \ {held[t]}
          /\ held' = [held EXCEPT ![t] = Null]

SendSync(t) ==
  /\ pc[t] = "sync_send"
  /\ \/ Cancelled(t) /\ Ends(t) /\ Forgotten(t) /\ UNCHANGED <<sync_idx, failures, copyVars>>
     \/ ~Cancelled(t) /\ sync_idx' = NextColour(sync_idx) /\ FrameSent(t) /\ UNCHANGED failures
     \/ ~Cancelled(t) /\ SendtoFails /\ FrameSent(t) /\ UNCHANGED sync_idx
  /\ UNCHANGED <<ring, sendbuf, screen, sync, idleVars, lifeVars, drawn>>

SendFrame(t) ==
  \/ Fill(t) \/ SendPacket(t)
  \/ PickSync(t) \/ FillSync(t) \/ SendSync(t)

(***************************************************************************)
(* _thread_rgb_out and Vo_Geth_queue                                       *)
(***************************************************************************)

PollsForgotten == 0

PollsCounted == count_timeout + 1

(* No image: after a few polls the output thread draws a blank frame.  The *)
(* sleep of a poll is a cancellation point.                                *)
Poll ==
  /\ pc[OutThread] = "recv"
  /\ \/ /\ cancelled
        /\ Ends(OutThread)
        /\ UNCHANGED <<count_timeout, senderVars>>
     \/ /\ ~cancelled /\ count_timeout < IdlePolls
        /\ count_timeout' = PollsCounted
        /\ UNCHANGED <<pc, senderVars>>
     \/ /\ ~cancelled /\ count_timeout = IdlePolls
        /\ count_timeout' = 0
        /\ StartFrame(OutThread, Blank)
        /\ UNCHANGED screen
  /\ UNCHANGED <<ring, syncVars, copyVars, images, time_out_last, lifeVars, drawn, failures>>

(* The converters have an image for the output thread.  There is none      *)
(* before Vo_Dmx_Init is done: the player queues no frame until then.      *)
ImageArrives ==
  /\ pc[OutThread] = "recv" /\ pc[GethThread] # "none"
  /\ images < MaxImages
  /\ images' = images + 1
  /\ count_timeout' = 0
  /\ Go(OutThread, "queue")
  /\ UNCHANGED <<ring, senderVars, syncVars, copyVars, time_out_last, lifeVars, drawn, failures>>

AlwaysRoom == TRUE

(* is_full is read without the mutex of the queue.                         *)
SeemsToFit == ~Img_Queue_Is_Full

(* The image is copied, or skipped: because of the frame rate, because the *)
(* queue is full or because there is no memory.                            *)
CopyImage ==
  /\ pc[OutThread] = "queue"
  /\ \/ /\ SeemsToFit
        /\ live' = live \cup {images}
        /\ held' = [held EXCEPT ![OutThread] = images]
        /\ Go(OutThread, "queue_send")
     \/ Go(OutThread, "recv") /\ UNCHANGED copyVars
  /\ UNCHANGED <<ring, senderVars, syncVars, idleVars, lifeVars, drawn, failures>>

(* A copy that cannot be sent is freed.                                    *)
QueueCopy ==
  /\ pc[OutThread] = "queue_send"
  /\ Img_Queue_Send(held[OutThread])
  /\ held' = [held EXCEPT ![OutThread] = Null]
  /\ IF result' = Ok
       THEN time_out_last' = TRUE /\ UNCHANGED live
       ELSE live' = live \ {held[OutThread]} /\ UNCHANGED time_out_last
  /\ Go(OutThread, "recv")
  /\ UNCHANGED <<senderVars, syncVars, images, count_timeout, lifeVars, drawn, failures>>

(***************************************************************************)
(* _thread_Geth_out                                                        *)
(***************************************************************************)

CheckState ==
  /\ pc[GethThread] = "loop"
  /\ Go(GethThread, IF g_geth_thread_state = "RUN" THEN "recv" ELSE "drain")
  /\ UNCHANGED <<ring, senderVars, syncVars, copyVars, idleVars, lifeVars, drawn, failures>>

RecvCopy ==
  /\ pc[GethThread] = "recv"
  /\ Img_Queue_Recv
  /\ IF result' = Null
       THEN Go(GethThread, "loop") /\ UNCHANGED <<senderVars, held, drawn>>
       ELSE /\ held' = [held EXCEPT ![GethThread] = result']
            /\ drawn' = TRUE
            /\ StartFrame(GethThread, result')
            /\ UNCHANGED screen
  /\ UNCHANGED <<syncVars, live, idleVars, lifeVars, failures>>

LeaveScreen ==
  Ends(GethThread) /\ UNCHANGED senderVars

ClearScreen ==
  IF drawn THEN StartFrame(GethThread, Blank) /\ UNCHANGED screen
  ELSE LeaveScreen

KeepCopies == {}

(* The copies left in the queue, freed one by one.                         *)
FreedByDrain == {result'}

Drain ==
  /\ pc[GethThread] = "drain"
  /\ Img_Queue_Recv
  /\ IF result' = Null
       THEN ClearScreen /\ UNCHANGED live
       ELSE live' = live \ FreedByDrain /\ UNCHANGED <<pc, senderVars>>
  /\ UNCHANGED <<syncVars, held, idleVars, lifeVars, drawn, failures>>

(***************************************************************************)
(* Vo_Dmx_Init from step 11 on, and Vo_Dmx_Deinit.  A thread that cannot   *)
(* be created makes Vo_Dmx_Init call Vo_Dmx_Deinit.                        *)
(***************************************************************************)

CreateOut ==
  /\ player = "create_out"
  /\ \/ Go(OutThread, "recv") /\ player' = "create_geth"
     \/ player' = "stop" /\ UNCHANGED pc
  /\ UNCHANGED <<cancelled, g_geth_thread_state>>

CreateGeth ==
  /\ player = "create_geth"
  /\ g_geth_thread_state' = "RUN"
  /\ \/ Go(GethThread, "loop") /\ player' = "running"
     \/ player' = "cancel" /\ UNCHANGED pc
  /\ UNCHANGED cancelled

CallDeinit ==
  /\ player = "running"
  /\ player' = "cancel"
  /\ UNCHANGED <<cancelled, g_geth_thread_state, pc>>

CancelOut ==
  /\ player = "cancel"
  /\ cancelled' = TRUE
  /\ player' = "join_out"
  /\ UNCHANGED <<g_geth_thread_state, pc>>

JoinOut ==
  /\ player = "join_out" /\ pc[OutThread] = "ended"
  /\ player' = "stop"
  /\ UNCHANGED <<cancelled, g_geth_thread_state, pc>>

StopForgotten ==
  /\ player = "stop"
  /\ player' = "join_geth"
  /\ UNCHANGED <<cancelled, g_geth_thread_state, pc>>

StopGeth ==
  /\ player = "stop"
  /\ g_geth_thread_state' = "STOP"
  /\ player' = "join_geth"
  /\ UNCHANGED <<cancelled, pc>>

JoinGeth ==
  /\ player = "join_geth" /\ pc[GethThread] \in {"none", "ended"}
  /\ player' = "closed"
  /\ UNCHANGED <<cancelled, g_geth_thread_state, pc>>

Life ==
  /\ CreateOut \/ CreateGeth \/ CancelOut \/ JoinOut \/ StopGeth \/ JoinGeth
  /\ UNCHANGED <<ring, senderVars, syncVars, copyVars, idleVars, drawn, failures>>

OutStep == Poll \/ ImageArrives \/ CopyImage \/ QueueCopy \/ SendFrame(OutThread)

GethStep == CheckState \/ RecvCopy \/ Drain \/ SendFrame(GethThread)

Next ==
  \/ OutStep \/ GethStep \/ Life
  \/ CallDeinit /\ UNCHANGED <<ring, senderVars, syncVars, copyVars, idleVars, drawn, failures>>

Spec == Init /\ [][Next]_vars

(* The threads run, and Vo_Dmx_Init and Vo_Dmx_Deinit return; nobody has   *)
(* to call them.                                                           *)
FairSpec == Spec /\ WF_vars(OutStep) /\ WF_vars(GethStep) /\ WF_vars(Life)

(***************************************************************************)
(* Properties                                                              *)
(***************************************************************************)

QueuedCopies == {Contents[i] : i \in 1 .. Length}

HeldCopies == {held[t] : t \in Threads} \ {Null}

(* The ranges of the variables.                                            *)
TypeOK ==
  /\ QueueTypeOK
  /\ player \in {"create_out", "create_geth", "running", "cancel", "join_out", "stop",
                 "join_geth", "closed"}
  /\ cancelled \in BOOLEAN /\ g_geth_thread_state \in {"RUN", "STOP"}
  /\ pc \in [Threads -> {"none", "ended", "recv", "queue", "queue_send", "loop", "drain", "fill",
                         "send", "sync", "sync_fill", "sync_send"}]
  /\ frame \in [Threads -> Pictures]
  /\ sequence_id \in [Threads -> 0 .. Packets - 1]
  /\ pick \in [Threads -> Colours]
  /\ images \in 0 .. MaxImages
  /\ live \subseteq Units
  /\ held \in [Threads -> Units \cup {Null}]
  /\ count_timeout \in 0 .. IdlePolls /\ time_out_last \in BOOLEAN /\ drawn \in BOOLEAN
  /\ sendbuf \in [sequence : 0 .. Packets - 1, pixels : Pictures]
  /\ sync \in [Colours -> Colours]
  /\ sync_idx \in Colours
  /\ screen \in [0 .. Packets - 1 -> Pictures]
  /\ failures \in 0 .. MaxFailures

(* Vo_Geth_queue looks at is_full without the mutex, copies the image, and *)
(* only then sends it: the queue has room all the same, and the error it   *)
(* logs as "is full err!!!!" does not occur.                               *)
SendFits == pc[OutThread] = "queue_send" => ~is_full

(* Every copy is either queued or with one thread until it is freed, and   *)
(* is freed once; a copy that was made can be queued; and none is left     *)
(* when Vo_Dmx_Deinit returns, wherever it cancelled the output thread.    *)
CopiesOwned ==
  /\ TypeOK
  /\ SendFits
  /\ live = QueuedCopies \cup HeldCopies
  /\ Cardinality(live) = Length + Cardinality({t \in Threads : held[t] # Null})
  /\ player = "closed" => live = {}

(* When the link is closed the display shows nothing, unless a packet was  *)
(* lost.                                                                   *)
ScreenCleared == player = "closed" /\ failures = 0 => \A p \in DOMAIN screen : screen[p] = Blank

(* When no image comes any more the display goes blank and stays so,       *)
(* although the blank frame may overtake images that are still queued and  *)
(* both threads fill the same buffer (vo_dmx.c: "draw blank every 100ms if *)
(* no image out").                                                         *)
GoesBlank == <>[](player = "running") => <>[](\A p \in DOMAIN screen : screen[p] = Blank)

(* Vo_Dmx_Deinit returns: both threads end when they are told to.          *)
DeinitEnds == player = "cancel" ~> player = "closed"

(* A sync frame carries the gamma table of the colour it names             *)
(* (vo_dmx_geth.c: "3 sync frame: 0-r, 1-g, 2-b").                         *)
SyncTables ==
  \A t \in Threads : pc[t] = "sync_send" =>
    sync[pick[t]] = pick[t]

(***************************************************************************)
(* The inductive invariant behind the safety properties                    *)
(***************************************************************************)

Sending == {"fill", "send", "sync", "sync_fill", "sync_send"}

(* The Ethernet thread sends the blank frame that clears the screen.       *)
Clearing == pc[GethThread] \in Sending /\ held[GethThread] = Null

QueueLeft == pc[GethThread] = "ended" \/ Clearing

(* Vo_Dmx_Deinit tells the Ethernet thread to stop only when the output    *)
(* thread is gone.                                                         *)
PlacesAgree ==
  /\ pc[OutThread] \in {"none", "ended", "recv", "queue", "queue_send"} \cup Sending
  /\ pc[GethThread] \in {"none", "ended", "loop", "recv", "drain"} \cup Sending
  /\ player = "create_out" => pc[OutThread] = "none"
  /\ player \in {"create_out", "create_geth"} => pc[GethThread] = "none"
  /\ pc[GethThread] # "none" /\ g_geth_thread_state = "STOP"
       => player \in {"join_geth", "closed"}
  /\ pc[GethThread] = "drain" \/ QueueLeft => g_geth_thread_state = "STOP"
  /\ player \in {"stop", "join_geth", "closed"} => pc[OutThread] \in {"none", "ended"}
  /\ player = "closed" => pc[GethThread] \in {"none", "ended"}

(* Images are numbered as they arrive, so a new copy is no old one.        *)
CopiesTracked ==
  /\ SendFits
  /\ \A i, j \in 1 .. Length : Contents[i] = Contents[j] => i = j
  /\ held[OutThread] # Null <=> pc[OutThread] = "queue_send"
  /\ held[GethThread] # Null => pc[GethThread] \in Sending
  /\ held[OutThread] # Null => held[OutThread] = images /\ held[GethThread] # images
  /\ \A t \in Threads : held[t] \notin QueuedCopies
  /\ live = QueuedCopies \cup HeldCopies /\ live \subseteq 1 .. images
  /\ pc[OutThread] = "queue" => images \in Units \ live
  /\ pc[GethThread] = "none" => images = 0
  /\ QueueLeft => Contents = <<>>

AllBlank == \A p \in 0 .. Packets - 1 : screen[p] = Blank

(* How far the screen is cleared.                                          *)
ScreenFollows ==
  /\ frame[OutThread] = Blank
  /\ held[GethThread] = Null => frame[GethThread] = Blank
  /\ pc[GethThread] = "none" => ~drawn
  /\ ~drawn => frame[GethThread] = Blank /\ sendbuf.pixels = Blank /\ AllBlank
  /\ Clearing => sendbuf.pixels = Blank
  /\ Clearing /\ pc[GethThread] \in {"fill", "send"} =>
       \A p \in 0 .. sequence_id[GethThread] - 1 : screen[p] = Blank
  /\ Clearing /\ pc[GethThread] = "send" => sendbuf.sequence = sequence_id[GethThread]
  /\ QueueLeft /\ pc[GethThread] \notin {"fill", "send"} /\ failures = 0 => AllBlank

Inductive == TypeOK /\ RingOK /\ PlacesAgree /\ CopiesTracked /\ ScreenFollows

=============================================================================
