--------------------------- MODULE VoQueueProofs ---------------------------
(***************************************************************************)
(* Theorems about VoQueue.  Inductive is the inductive invariant of the VO *)
(* thread and the player; each region of the code preserves it (one lemma  *)
(* per region), and the safety properties follow from it.                  *)
(***************************************************************************)
EXTENDS VoQueue, TLAPS

(***************************************************************************)
(* What the operations on frames, calls and points in time keep            *)
(***************************************************************************)

(* Whatever frame a reset keeps, it is not repeated again.                 *)
LEMMA ForgetFramesKeeps ==
  ASSUME NEW frame \in Frames \cup {None}, ForgetFrames(frame)
  PROVE  /\ frame_queued' = None /\ current_frame' \in Frames \cup {None}
         /\ frame = None => current_frame' = None
         /\ frame # None => /\ current_frame' # None /\ current_frame'.params = frame.params
                            /\ current_frame'.left = 0
<1>1. frame_queued' = None /\ (frame = None => current_frame' = None)
  BY DEF ForgetFrames
<1>2. CASE frame # None
  <2> DEFINE kept == [frame EXCEPT !.left = 0, !.synced = FALSE]
  <2>1. kept \in Frames /\ kept.params = frame.params /\ kept.left = 0
    <3>1. frame \in Frames /\ 0 \in 0 .. MaxVsyncs /\ FALSE \in BOOLEAN
      BY <1>2, ConstantsAssumption DEF ConstantsAssumption
    <3>2. [frame EXCEPT !.left = 0] \in Frames
      BY <3>1 DEF Frames
    <3>3. kept = [[frame EXCEPT !.left = 0] EXCEPT !.synced = FALSE]
      OBVIOUS
    <3>q. QED
      BY <3>1, <3>2, <3>3 DEF Frames
  <2>2. current_frame' = kept
    BY <1>2 DEF ForgetFrames
  <2>3. None \notin Frames
    BY ConstantsAssumption DEF ConstantsAssumption
  <2> HIDE DEF kept
  <2>q. QED
    BY <1>1, <1>2, <2>1, <2>2, <2>3
<1>q. QED
  BY <1>1, <1>2

(* A frame that is shown once more, or not, is still a frame.              *)
LEMMA CountDownKeeps ==
  ASSUME NEW frame \in Frames
  PROVE  LET shown == [frame EXCEPT !.left = CountDown(@)]
         IN  shown \in Frames /\ shown # None /\ shown.params = frame.params
BY ConstantsAssumption DEF ConstantsAssumption, Frames, CountDown

(* Time does not change what a frame is.                                   *)
LEMMA NearerKeeps ==
  ASSUME NEW frame \in Frames \cup {None}
  PROVE  /\ Nearer(frame) \in Frames \cup {None}
         /\ Nearer(frame) = None <=> frame = None
         /\ frame # None => /\ Nearer(frame).params = frame.params
                            /\ Nearer(frame).left = frame.left
BY ConstantsAssumption DEF ConstantsAssumption, Frames, Nearer, Closer

(* Two points in time that come closer keep their order.                   *)
LEMMA CloserKeeps ==
  ASSUME NEW t \in Times
  PROVE  /\ Closer(t) \in Times
         /\ Closer(t) = None <=> t = None
         /\ Closer(t) # 0 => t # 0
         /\ \A u \in Times : t # None /\ u # None /\ t <= u => Closer(t) <= Closer(u)
BY ConstantsAssumption DEF ConstantsAssumption, Times, Closer

(* What the player asks for is a call that is pending.                     *)
LEMMA CallTyped ==
  ASSUME NEW kind \in {"reconfig", "control", "destroy"}, NEW p \in AllParams \cup {None},
         NEW then, Call(kind, p, then)
  PROVE  /\ call' \in Calls /\ player' = "signal" /\ after' = then
         /\ ~call'.done /\ call'.kind = kind /\ call'.params = p
BY DEF Call, Calls

(***************************************************************************)
(* The steps of the VO thread                                              *)
(***************************************************************************)

(* A call runs; a reconfiguration forgets every frame.                     *)
LEMMA RunCallPreserves ==
  ASSUME Inductive, RunCall
  PROVE  Inductive'
<1>1. /\ TypeOK /\ ControlTyped /\ CallPending /\ ReadyKept /\ FramesMatch
      /\ PoolMatches /\ NothingMissed
  BY DEF Inductive
<1>2. TypeOK'
  <2>1. call' \in Calls
    BY <1>1 DEF TypeOK, Calls, RunCall
  <2>2. params' \in AllParams \cup {None}
    BY <1>1 DEF TypeOK, Calls, RunCall, RunReconfig
  <2>3. frame_queued' \in Frames \cup {None} /\ current_frame' \in Frames \cup {None}
    BY <1>1, ForgetFramesKeeps DEF TypeOK, RunCall, RunReconfig, frameVars
  <2>q. QED
    BY <1>1, <2>1, <2>2, <2>3
       DEF TypeOK, RunCall, RunReconfig, ForgetFrames, frameVars, threadVars, sleepVars
<1>3. ControlTyped'
  BY <1>1 DEF ControlTyped, RunCall, sleepVars, threadVars
<1>4. CallPending'
  BY <1>1 DEF CallPending, RunCall, RunReconfig
<1>5. ReadyKept'
  BY <1>1 DEF ReadyKept, CallPending, RunCall
<1>6. FramesMatch'
  BY <1>1 DEF FramesMatch, RunCall, RunReconfig, ForgetFrames, frameVars, threadVars
<1>7. PoolMatches'
  BY <1>1, ConstantsAssumption
     DEF ConstantsAssumption, PoolMatches, CallPending, Changing, RunCall, RunReconfig,
         ForgetFrames, frameVars
<1>8. NothingMissed'
  BY DEF NothingMissed, Awaits, Waiting, RunCall, threadVars
<1>q. QED
  BY <1>2, <1>3, <1>4, <1>5, <1>6, <1>7, <1>8 DEF Inductive

(* No call is left: the thread goes on, or ends.                           *)
LEMMA ProcessedPreserves ==
  ASSUME Inductive, Processed
  PROVE  Inductive'
<1>1. /\ TypeOK /\ ControlTyped /\ CallPending /\ ReadyKept /\ FramesMatch
      /\ PoolMatches /\ NothingMissed
  BY DEF Inductive
<1>2. TypeOK' /\ CallPending' /\ ReadyKept' /\ PoolMatches'
  BY <1>1
     DEF TypeOK, CallPending, ReadyKept, PoolMatches, Changing, Processed, frameVars, sleepVars,
         playerVars
<1>3. ControlTyped'
  BY <1>1 DEF ControlTyped, Places, Rendering, Processed, sleepVars, playerVars
<1>4. FramesMatch'
  BY <1>1 DEF FramesMatch, Processed, frameVars
<1>5. NothingMissed'
  BY DEF NothingMissed, Awaits, Waiting, Processed, playerVars
<1>q. QED
  BY <1>2, <1>3, <1>4, <1>5 DEF Inductive

(* The frame that is taken, or shown again, has the current parameters.    *)
LEMMA RenderFramePreserves ==
  ASSUME Inductive, RenderFrame
  PROVE  Inductive'
<1>1. /\ TypeOK /\ ControlTyped /\ CallPending /\ ReadyKept /\ FramesMatch
      /\ PoolMatches /\ NothingMissed
  BY DEF Inductive
<1>s. \/ UNCHANGED <<frame_queued, current_frame>> /\ pc' = "reread"
      \/ /\ pc' \in {"draw", "loop_end"} /\ frame_queued' = None
         /\ current_frame' \in Frames /\ current_frame' # None
         /\ current_frame'.params = params
  <2>1. CASE frame_queued # None /\ StartFrame(frame_queued)
    <3>1. frame_queued \in Frames /\ frame_queued.params = params
      BY <1>1, <2>1 DEF TypeOK, FramesMatch
    <3>q. QED
      BY <2>1, <3>1, CountDownKeeps DEF StartFrame
  <2>2. CASE frame_queued = None /\ Repeats /\ StartFrame(current_frame)
    <3>1. current_frame \in Frames /\ current_frame.params = params
      BY <1>1, <2>2 DEF TypeOK, FramesMatch, Repeats
    <3>q. QED
      BY <2>2, <3>1, CountDownKeeps DEF StartFrame
  <2>q. QED
    BY <2>1, <2>2 DEF RenderFrame
<1>2. TypeOK'
  <2>1. frame_queued' \in Frames \cup {None} /\ current_frame' \in Frames \cup {None}
    BY <1>1, <1>s DEF TypeOK
  <2>2. asleep' \subseteq {"vo", "player"}
    BY <1>1 DEF TypeOK, RenderFrame, StartFrame, FrameDone
  <2>q. QED
    BY <1>1, <2>1, <2>2 DEF TypeOK, RenderFrame, TakenFresh, playerVars
<1>3. ControlTyped'
  BY <1>1 DEF ControlTyped, Places, Rendering, RenderFrame, StartFrame, FrameDone, playerVars
<1>4. CallPending'
  BY <1>1 DEF CallPending, RenderFrame, playerVars
<1>5. ReadyKept'
  <2>1. CASE player = "ready"
    <3>1. frame_queued = None /\ ~Repeats
      BY <1>1, <2>1, ConstantsAssumption
         DEF ConstantsAssumption, ReadyKept, Repeats, TypeOK, Frames
    <3>2. UNCHANGED <<frame_queued, current_frame>>
      BY <3>1 DEF RenderFrame
    <3>q. QED
      BY <1>1, <3>2 DEF ReadyKept, RenderFrame, playerVars
  <2>2. CASE player # "ready"
    BY <2>2 DEF ReadyKept, RenderFrame, playerVars
  <2>q. QED
    BY <2>1, <2>2
<1>6. FramesMatch'
  BY <1>1, <1>s DEF FramesMatch, RenderFrame
<1>7. PoolMatches'
  BY <1>1 DEF PoolMatches, Changing, RenderFrame, Repeats, playerVars
<1>8. NothingMissed'
  BY <1>1
     DEF NothingMissed, Unnotified, Awaits, Rendering, Waiting, RenderFrame, StartFrame,
         playerVars
<1>q. QED
  BY <1>2, <1>3, <1>4, <1>5, <1>6, <1>7, <1>8 DEF Inductive

(* What is drawn is the current frame.                                     *)
LEMMA DrawFramePreserves ==
  ASSUME Inductive, DrawFrame
  PROVE  Inductive'
<1>1. /\ TypeOK /\ ControlTyped /\ CallPending /\ ReadyKept /\ FramesMatch
      /\ PoolMatches /\ NothingMissed
  BY DEF Inductive
<1>2. TypeOK'
  <2>1. current_frame \in Frames /\ current_frame.params \in Params
    BY <1>1 DEF TypeOK, FramesMatch, DrawFrame, Frames
  <2>q. QED
    BY <1>1, <2>1 DEF TypeOK, DrawFrame, frameVars, sleepVars, playerVars
<1>3. ControlTyped'
  BY <1>1 DEF ControlTyped, Places, Rendering, DrawFrame, sleepVars, playerVars
<1>4. CallPending' /\ ReadyKept' /\ PoolMatches'
  BY <1>1 DEF CallPending, ReadyKept, PoolMatches, Changing, DrawFrame, frameVars, playerVars
<1>5. FramesMatch'
  BY <1>1 DEF FramesMatch, DrawFrame, frameVars
<1>6. NothingMissed'
  BY <1>1
     DEF NothingMissed, Unnotified, Awaits, Rendering, Waiting, DrawFrame, sleepVars, playerVars
<1>q. QED
  BY <1>2, <1>3, <1>4, <1>5, <1>6 DEF Inductive

(* After a flip the thread works on, so it will not sleep.                 *)
LEMMA FlipPagePreserves ==
  ASSUME Inductive, FlipPage
  PROVE  Inductive'
<1>1. /\ TypeOK /\ ControlTyped /\ CallPending /\ ReadyKept /\ FramesMatch
      /\ PoolMatches /\ NothingMissed
  BY DEF Inductive
<1>2. TypeOK'
  BY <1>1 DEF TypeOK, FlipPage, Shows, ScreenFresh, FrameDone, playerVars
<1>3. ControlTyped'
  BY <1>1 DEF ControlTyped, Places, Rendering, FlipPage, FrameDone, playerVars
<1>4. CallPending' /\ ReadyKept' /\ PoolMatches'
  BY <1>1 DEF CallPending, ReadyKept, PoolMatches, Changing, FlipPage, playerVars
<1>5. FramesMatch'
  BY <1>1 DEF FramesMatch, FlipPage
<1>6. NothingMissed'
  BY <1>1 DEF NothingMissed, Unnotified, Awaits, Rendering, Waiting, FlipPage, playerVars
<1>q. QED
  BY <1>2, <1>3, <1>4, <1>5, <1>6 DEF Inductive

(* A frame that is queued now was announced.                               *)
LEMMA ReadQueuedPreserves ==
  ASSUME Inductive, ReadQueued
  PROVE  Inductive'
<1>1. /\ TypeOK /\ ControlTyped /\ CallPending /\ ReadyKept /\ FramesMatch
      /\ PoolMatches /\ NothingMissed
  BY DEF Inductive
<1>2. TypeOK' /\ CallPending' /\ ReadyKept' /\ PoolMatches'
  BY <1>1
     DEF TypeOK, CallPending, ReadyKept, PoolMatches, Changing, ReadQueued, frameVars,
         sleepVars, playerVars
<1>3. ControlTyped'
  BY <1>1 DEF ControlTyped, Places, Rendering, ReadQueued, sleepVars, playerVars
<1>4. FramesMatch'
  BY <1>1 DEF FramesMatch, ReadQueued, frameVars
<1>5. NothingMissed'
  BY <1>1
     DEF NothingMissed, Unnotified, Awaits, Rendering, Waiting, ReadQueued, frameVars,
         sleepVars, playerVars
<1>q. QED
  BY <1>2, <1>3, <1>4, <1>5 DEF Inductive

(* What is read from the queued frame only tells whether to work on.       *)
LEMMA ReadSyncedPreserves ==
  ASSUME Inductive, ReadSynced
  PROVE  Inductive'
<1>1. /\ TypeOK /\ ControlTyped /\ CallPending /\ ReadyKept /\ FramesMatch
      /\ PoolMatches /\ NothingMissed
  BY DEF Inductive
<1>2. TypeOK' /\ CallPending' /\ ReadyKept' /\ PoolMatches'
  BY <1>1
     DEF TypeOK, CallPending, ReadyKept, PoolMatches, Changing, ReadSynced, frameVars,
         sleepVars, playerVars
<1>3. ControlTyped'
  BY <1>1 DEF ControlTyped, Places, Rendering, ReadSynced, sleepVars, playerVars
<1>4. FramesMatch'
  BY <1>1 DEF FramesMatch, ReadSynced, frameVars
<1>5. NothingMissed'
  BY <1>1
     DEF NothingMissed, Unnotified, Awaits, Rendering, Waiting, ReadSynced, frameVars,
         sleepVars, playerVars
<1>q. QED
  BY <1>2, <1>3, <1>4, <1>5 DEF Inductive

(* The timeout is not later than the time the player is to be woken.       *)
LEMMA LoopEndPreserves ==
  ASSUME Inductive, LoopEnd
  PROVE  Inductive'
<1>1. /\ TypeOK /\ ControlTyped /\ CallPending /\ ReadyKept /\ FramesMatch
      /\ PoolMatches /\ NothingMissed
  BY DEF Inductive
<1>2. TypeOK'
  BY <1>1, ConstantsAssumption
     DEF ConstantsAssumption, TypeOK, Times, LoopEnd, frameVars, sleepVars, playerVars
<1>3. ControlTyped'
  BY <1>1 DEF ControlTyped, Places, Waiting, LoopEnd, sleepVars, playerVars
<1>4. CallPending' /\ ReadyKept' /\ PoolMatches'
  BY <1>1 DEF CallPending, ReadyKept, PoolMatches, Changing, LoopEnd, frameVars, playerVars
<1>5. FramesMatch'
  BY <1>1 DEF FramesMatch, LoopEnd, frameVars
<1>6. NothingMissed'
  BY <1>1
     DEF NothingMissed, Unnotified, Awaits, Rendering, Waiting, LoopEnd, frameVars, sleepVars,
         playerVars
<1>q. QED
  BY <1>2, <1>3, <1>4, <1>5, <1>6 DEF Inductive

(* The current frame is drawn again.                                       *)
LEMMA DoRedrawPreserves ==
  ASSUME Inductive, DoRedraw
  PROVE  Inductive'
<1>1. /\ TypeOK /\ ControlTyped /\ CallPending /\ ReadyKept /\ FramesMatch
      /\ PoolMatches /\ NothingMissed
  BY DEF Inductive
<1>2. TypeOK'
  <2>1. current_frame # None => current_frame.params \in Params
    BY <1>1 DEF TypeOK, Frames
  <2>2. drawing' \in Params \cup {None} /\ wait_until' = None
    BY <1>1, <2>1 DEF TypeOK, DoRedraw
  <2>q. QED
    BY <1>1, <2>2 DEF TypeOK, DoRedraw, sleepVars, playerVars, Times
<1>3. ControlTyped'
  BY <1>1 DEF ControlTyped, Places, DoRedraw, sleepVars, playerVars
<1>4. CallPending' /\ ReadyKept' /\ PoolMatches'
  BY <1>1 DEF CallPending, ReadyKept, PoolMatches, Changing, DoRedraw, playerVars
<1>5. FramesMatch'
  BY <1>1 DEF FramesMatch, DoRedraw
<1>6. NothingMissed'
  BY <1>1 DEF NothingMissed, Unnotified, Awaits, Waiting, DoRedraw, sleepVars, playerVars
<1>q. QED
  BY <1>2, <1>3, <1>4, <1>5, <1>6 DEF Inductive

(* After a redraw the thread starts again.                                 *)
LEMMA RedrawFlipPreserves ==
  ASSUME Inductive, RedrawFlip
  PROVE  Inductive'
<1>1. /\ TypeOK /\ ControlTyped /\ CallPending /\ ReadyKept /\ FramesMatch
      /\ PoolMatches /\ NothingMissed
  BY DEF Inductive
<1>2. TypeOK'
  BY <1>1 DEF TypeOK, RedrawFlip, ScreenFresh, sleepVars, playerVars
<1>3. ControlTyped'
  BY <1>1 DEF ControlTyped, Places, RedrawFlip, sleepVars, playerVars
<1>4. CallPending' /\ ReadyKept' /\ PoolMatches'
  BY <1>1 DEF CallPending, ReadyKept, PoolMatches, Changing, RedrawFlip, frameVars, playerVars
<1>5. FramesMatch'
  BY <1>1 DEF FramesMatch, RedrawFlip, frameVars
<1>6. NothingMissed'
  BY DEF NothingMissed, Awaits, Rendering, Waiting, RedrawFlip
<1>q. QED
  BY <1>2, <1>3, <1>4, <1>5, <1>6 DEF Inductive

(* On the condition variable the thread sleeps only if nothing woke it.    *)
LEMMA WaitCondPreserves ==
  ASSUME Inductive, WaitCond
  PROVE  Inductive'
<1>1. /\ TypeOK /\ ControlTyped /\ CallPending /\ ReadyKept /\ FramesMatch
      /\ PoolMatches /\ NothingMissed
  BY DEF Inductive
<1>2. TypeOK'
  BY <1>1 DEF TypeOK, Times, WaitCond, frameVars, playerVars
<1>3. ControlTyped'
  BY <1>1 DEF ControlTyped, Places, Waiting, WaitCond, playerVars
<1>4. CallPending' /\ ReadyKept' /\ PoolMatches'
  BY <1>1 DEF CallPending, ReadyKept, PoolMatches, Changing, WaitCond, frameVars, playerVars
<1>5. FramesMatch'
  BY <1>1 DEF FramesMatch, WaitCond, frameVars
<1>6. NothingMissed'
  BY <1>1
     DEF NothingMissed, Unnotified, Awaits, Rendering, Waiting, WaitCond, frameVars, playerVars
<1>q. QED
  BY <1>2, <1>3, <1>4, <1>5, <1>6 DEF Inductive

(* The wait on the condition variable ends.                                *)
LEMMA CondEndsPreserves ==
  ASSUME Inductive, CondEnds
  PROVE  Inductive'
<1>1. /\ TypeOK /\ ControlTyped /\ CallPending /\ ReadyKept /\ FramesMatch
      /\ PoolMatches /\ NothingMissed
  BY DEF Inductive
<1>2. TypeOK'
  BY <1>1 DEF TypeOK, Times, CondEnds, frameVars, playerVars
<1>3. ControlTyped'
  BY <1>1 DEF ControlTyped, Places, CondEnds, playerVars
<1>4. CallPending' /\ ReadyKept' /\ PoolMatches'
  BY <1>1 DEF CallPending, ReadyKept, PoolMatches, Changing, CondEnds, frameVars, playerVars
<1>5. FramesMatch'
  BY <1>1 DEF FramesMatch, CondEnds, frameVars
<1>6. NothingMissed'
  BY DEF NothingMissed, Awaits, Rendering, Waiting, CondEnds
<1>q. QED
  BY <1>2, <1>3, <1>4, <1>5, <1>6 DEF Inductive

(* The poll ends.                                                          *)
LEMMA PollEndsPreserves ==
  ASSUME Inductive, PollEnds
  PROVE  Inductive'
<1>1. /\ TypeOK /\ ControlTyped /\ CallPending /\ ReadyKept /\ FramesMatch
      /\ PoolMatches /\ NothingMissed
  BY DEF Inductive
<1>2. TypeOK' /\ CallPending' /\ ReadyKept' /\ PoolMatches'
  BY <1>1
     DEF TypeOK, CallPending, ReadyKept, PoolMatches, Changing, PollEnds, frameVars, playerVars
<1>3. ControlTyped'
  BY <1>1 DEF ControlTyped, Places, PollEnds, playerVars
<1>4. FramesMatch'
  BY <1>1 DEF FramesMatch, PollEnds, frameVars
<1>5. NothingMissed'
  BY DEF NothingMissed, Awaits, Rendering, Waiting, PollEnds
<1>q. QED
  BY <1>2, <1>3, <1>4, <1>5 DEF Inductive

(* The thread clears the wakeup, and starts again.                         *)
LEMMA PolledPreserves ==
  ASSUME Inductive, Polled
  PROVE  Inductive'
<1>1. /\ TypeOK /\ ControlTyped /\ CallPending /\ ReadyKept /\ FramesMatch
      /\ PoolMatches /\ NothingMissed
  BY DEF Inductive
<1>2. TypeOK'
  BY <1>1 DEF TypeOK, Times, Polled, frameVars, playerVars
<1>3. ControlTyped'
  BY <1>1 DEF ControlTyped, Places, Polled, playerVars
<1>4. CallPending' /\ ReadyKept' /\ PoolMatches'
  BY <1>1 DEF CallPending, ReadyKept, PoolMatches, Changing, Polled, frameVars, playerVars
<1>5. FramesMatch'
  BY <1>1 DEF FramesMatch, Polled, frameVars
<1>6. NothingMissed'
  BY DEF NothingMissed, Awaits, Rendering, Waiting, Polled
<1>q. QED
  BY <1>2, <1>3, <1>4, <1>5, <1>6 DEF Inductive

(* The thread ends.                                                        *)
LEMMA ExitPreserves ==
  ASSUME Inductive, Exit
  PROVE  Inductive'
<1>1. /\ TypeOK /\ ControlTyped /\ CallPending /\ ReadyKept /\ FramesMatch
      /\ PoolMatches /\ NothingMissed
  BY DEF Inductive
<1>2. TypeOK'
  BY <1>1 DEF TypeOK, Exit, ForgetFrames, sleepVars, playerVars
<1>3. ControlTyped'
  BY <1>1 DEF ControlTyped, Places, Exit, sleepVars, playerVars
<1>4. CallPending'
  BY <1>1 DEF CallPending, Exit, playerVars
<1>5. ReadyKept'
  BY <1>1 DEF ReadyKept, Exit, ForgetFrames, playerVars
<1>6. FramesMatch'
  BY <1>1 DEF FramesMatch, Exit, ForgetFrames
<1>7. PoolMatches'
  BY <1>1 DEF PoolMatches, Changing, Exit, ForgetFrames, playerVars
<1>8. NothingMissed'
  BY DEF NothingMissed, Awaits, Rendering, Waiting, Exit
<1>q. QED
  BY <1>2, <1>3, <1>4, <1>5, <1>6, <1>7, <1>8 DEF Inductive

(***************************************************************************)
(* The steps of the player                                                 *)
(***************************************************************************)

(* The call is announced to the thread.                                    *)
LEMMA SignalPreserves ==
  ASSUME Inductive, Signal
  PROVE  Inductive'
<1>1. /\ TypeOK /\ ControlTyped /\ CallPending /\ ReadyKept /\ FramesMatch
      /\ PoolMatches /\ NothingMissed
  BY DEF Inductive
<1>2. TypeOK'
  BY <1>1 DEF TypeOK, Signal, WakeupLocked, frameVars, threadVars
<1>3. ControlTyped'
  BY <1>1 DEF ControlTyped, PlayerPlaces, Signal, WakeupLocked, threadVars
<1>4. CallPending'
  BY <1>1 DEF CallPending, Signal
<1>5. ReadyKept'
  BY DEF ReadyKept, Signal
<1>6. FramesMatch'
  BY <1>1 DEF FramesMatch, Signal, frameVars, threadVars
<1>7. PoolMatches'
  BY <1>1 DEF PoolMatches, Changing, Signal, frameVars
<1>8. NothingMissed'
  BY DEF NothingMissed, Unnotified, Signal, WakeupLocked
<1>q. QED
  BY <1>2, <1>3, <1>4, <1>5, <1>6, <1>7, <1>8 DEF Inductive

(* The call was done, and has done what the player goes on from.           *)
LEMMA ReturnedPreserves ==
  ASSUME Inductive, Returned
  PROVE  Inductive'
<1>1. /\ TypeOK /\ ControlTyped /\ CallPending /\ ReadyKept /\ FramesMatch
      /\ PoolMatches /\ NothingMissed
  BY DEF Inductive
<1>2. TypeOK'
  <2>1. call' \in Calls
    BY DEF Returned, NoCall, Calls
  <2>q. QED
    BY <1>1, <2>1 DEF TypeOK, Returned, frameVars, sleepVars, threadVars
<1>3. ControlTyped'
  BY <1>1 DEF ControlTyped, PlayerPlaces, Returned, sleepVars, threadVars
<1>4. CallPending'
  BY <1>1 DEF CallPending, Returned, NoCall
<1>5. ReadyKept'
  BY <1>1 DEF ReadyKept, ControlTyped, Returned
<1>6. FramesMatch'
  BY <1>1 DEF FramesMatch, Returned, frameVars, threadVars
<1>7. PoolMatches'
  BY <1>1 DEF PoolMatches, Changing, Returned, frameVars
<1>8. NothingMissed'
  BY <1>1
     DEF NothingMissed, Unnotified, Awaits, Returned, NoCall, frameVars, sleepVars, threadVars
<1>q. QED
  BY <1>2, <1>3, <1>4, <1>5, <1>6, <1>7, <1>8 DEF Inductive

(* vo_set_paused, when the user pauses or unpauses.                        *)
LEMMA PausePlayerPreserves ==
  ASSUME Inductive, PausePlayer
  PROVE  Inductive'
<1>1. /\ TypeOK /\ ControlTyped /\ CallPending /\ ReadyKept /\ FramesMatch
      /\ PoolMatches /\ NothingMissed
  BY DEF Inductive
<1>2. TypeOK'
  <2>1. None \in AllParams \cup {None}
    BY DEF AllParams
  <2>2. Call("control", None, "run")
    BY DEF PausePlayer
  <2>3. call' \in Calls
    BY <2>1, <2>2, CallTyped
  <2>q. QED
    BY <1>1, <2>3
       DEF TypeOK, PausePlayer, frameVars, sleepVars, threadVars
<1>3. ControlTyped'
  BY <1>1 DEF ControlTyped, PlayerPlaces, PausePlayer, Call, sleepVars, threadVars
<1>4. CallPending'
  BY DEF CallPending, PausePlayer, Call
<1>5. ReadyKept'
  BY DEF ReadyKept, PausePlayer, Call
<1>6. FramesMatch'
  BY <1>1 DEF FramesMatch, PausePlayer, frameVars, threadVars
<1>7. PoolMatches'
  BY <1>1 DEF PoolMatches, Changing, PausePlayer
<1>8. NothingMissed'
  BY <1>1
     DEF NothingMissed, Unnotified, Awaits, PausePlayer, Call, frameVars, sleepVars, threadVars
<1>q. QED
  BY <1>2, <1>3, <1>4, <1>5, <1>6, <1>7, <1>8 DEF Inductive

(* A redraw is announced unless one was before.                            *)
LEMMA HandleOsdRedrawPreserves ==
  ASSUME Inductive, HandleOsdRedraw
  PROVE  Inductive'
<1>1. /\ TypeOK /\ ControlTyped /\ CallPending /\ ReadyKept /\ FramesMatch
      /\ PoolMatches /\ NothingMissed
  BY DEF Inductive
<1>2. TypeOK'
  BY <1>1 DEF TypeOK, HandleOsdRedraw, VoRedraw, WakeupLocked, frameVars, sleepVars, threadVars
<1>3. ControlTyped'
  BY <1>1 DEF ControlTyped, HandleOsdRedraw, VoRedraw, WakeupLocked, sleepVars, threadVars
<1>4. CallPending'
  BY <1>1 DEF CallPending, HandleOsdRedraw, VoRedraw
<1>5. ReadyKept'
  BY DEF ReadyKept, HandleOsdRedraw, VoRedraw
<1>6. FramesMatch'
  BY <1>1 DEF FramesMatch, HandleOsdRedraw, VoRedraw, frameVars, threadVars
<1>7. PoolMatches'
  BY <1>1 DEF PoolMatches, Changing, HandleOsdRedraw, VoRedraw
<1>8. NothingMissed'
  BY <1>1
     DEF NothingMissed, Unnotified, Awaits, HandleOsdRedraw, VoRedraw, WakeupLocked, frameVars,
         sleepVars, threadVars
<1>q. QED
  BY <1>2, <1>3, <1>4, <1>5, <1>6, <1>7, <1>8 DEF Inductive

(* The same for the window without a video.                                *)
LEMMA WindowRedrawPreserves ==
  ASSUME Inductive, WindowRedraw
  PROVE  Inductive'
<1>1. /\ TypeOK /\ ControlTyped /\ CallPending /\ ReadyKept /\ FramesMatch
      /\ PoolMatches /\ NothingMissed
  BY DEF Inductive
<1>2. TypeOK'
  BY <1>1 DEF TypeOK, WindowRedraw, VoRedraw, WakeupLocked, frameVars, sleepVars, threadVars
<1>3. ControlTyped'
  BY <1>1
     DEF ControlTyped, PlayerPlaces, WindowRedraw, VoRedraw, WakeupLocked, sleepVars, threadVars
<1>4. CallPending'
  BY <1>1 DEF CallPending, WindowRedraw, VoRedraw
<1>5. ReadyKept'
  BY DEF ReadyKept, WindowRedraw, VoRedraw
<1>6. FramesMatch'
  BY <1>1 DEF FramesMatch, WindowRedraw, VoRedraw, frameVars, threadVars
<1>7. PoolMatches'
  BY <1>1 DEF PoolMatches, Changing, WindowRedraw, VoRedraw
<1>8. NothingMissed'
  BY <1>1
     DEF NothingMissed, Unnotified, Awaits, WindowRedraw, VoRedraw, WakeupLocked, frameVars,
         sleepVars, threadVars
<1>q. QED
  BY <1>2, <1>3, <1>4, <1>5, <1>6, <1>7, <1>8 DEF Inductive

(* A reset forgets what was queued, and keeps the current frame.           *)
LEMMA SeekPreserves ==
  ASSUME Inductive, Seek
  PROVE  Inductive'
<1>1. /\ TypeOK /\ ControlTyped /\ CallPending /\ ReadyKept /\ FramesMatch
      /\ PoolMatches /\ NothingMissed
  BY DEF Inductive
<1>2. TypeOK'
  <2>1. frame_queued' \in Frames \cup {None} /\ current_frame' \in Frames \cup {None}
    BY <1>1, ForgetFramesKeeps DEF TypeOK, Seek, ResetVideoState
  <2>2. call' \in Calls
    BY <1>1 DEF TypeOK, Seek
  <2>q. QED
    BY <1>1, <2>1, <2>2
       DEF TypeOK, Seek, ResetVideoState, ForgetFrames, WakeupLocked, threadVars
<1>3. ControlTyped'
  BY <1>1 DEF ControlTyped, Seek, ResetVideoState, WakeupLocked, threadVars
<1>4. CallPending'
  BY <1>1 DEF CallPending, Seek
<1>5. ReadyKept'
  BY DEF ReadyKept, Seek
<1>6. FramesMatch'
  <2>1. ForgetFrames(current_frame)
    BY DEF Seek, ResetVideoState
  <2>2. /\ frame_queued' = None
        /\ current_frame' = None <=> current_frame = None
        /\ current_frame # None => current_frame'.params = current_frame.params
    BY <1>1, <2>1, ForgetFramesKeeps DEF TypeOK
  <2>q. QED
    BY <1>1, <2>2 DEF FramesMatch, Seek, threadVars
<1>7. PoolMatches'
  BY <1>1 DEF PoolMatches, Changing, Seek
<1>8. NothingMissed'
  BY DEF NothingMissed, Unnotified, Seek, ResetVideoState, WakeupLocked
<1>q. QED
  BY <1>2, <1>3, <1>4, <1>5, <1>6, <1>7, <1>8 DEF Inductive

(* The window without a video has parameters of its own.                   *)
LEMMA ForceWindowPreserves ==
  ASSUME Inductive, ForceWindow
  PROVE  Inductive'
<1>1. /\ TypeOK /\ ControlTyped /\ CallPending /\ ReadyKept /\ FramesMatch
      /\ PoolMatches /\ NothingMissed
  BY DEF Inductive
<1>2. TypeOK'
  <2>1. Forced \in AllParams \cup {None}
    BY DEF AllParams
  <2>2. Call("reconfig", Forced, "window")
    BY DEF ForceWindow
  <2>3. call' \in Calls
    BY <2>1, <2>2, CallTyped
  <2>q. QED
    BY <1>1, <2>3
       DEF TypeOK, ForceWindow, frameVars, sleepVars, threadVars
<1>3. ControlTyped'
  BY <1>1 DEF ControlTyped, PlayerPlaces, ForceWindow, Call, sleepVars, threadVars
<1>4. CallPending'
  BY ConstantsAssumption DEF ConstantsAssumption, CallPending, ForceWindow, Call
<1>5. ReadyKept'
  BY DEF ReadyKept, ForceWindow, Call
<1>6. FramesMatch'
  BY <1>1 DEF FramesMatch, ForceWindow, frameVars, threadVars
<1>7. PoolMatches'
  BY <1>1 DEF PoolMatches, Changing, ForceWindow
<1>8. NothingMissed'
  BY <1>1
     DEF NothingMissed, Unnotified, Awaits, ForceWindow, Call, frameVars, sleepVars, threadVars
<1>q. QED
  BY <1>2, <1>3, <1>4, <1>5, <1>6, <1>7, <1>8 DEF Inductive

(* The end of the video output is asked for.                               *)
LEMMA VoDestroyPreserves ==
  ASSUME Inductive, VoDestroy
  PROVE  Inductive'
<1>1. /\ TypeOK /\ ControlTyped /\ CallPending /\ ReadyKept /\ FramesMatch
      /\ PoolMatches /\ NothingMissed
  BY DEF Inductive
<1>2. TypeOK'
  <2>1. frame_queued' \in Frames \cup {None} /\ current_frame' \in Frames \cup {None}
    BY <1>1, ForgetFramesKeeps DEF TypeOK, VoDestroy, ResetVideoState
  <2>2. call' \in Calls
    BY CallTyped DEF VoDestroy, AllParams
  <2>q. QED
    BY <1>1, <2>1, <2>2
       DEF TypeOK, VoDestroy, ResetVideoState, ForgetFrames, WakeupLocked, threadVars
<1>3. ControlTyped'
  BY <1>1
     DEF ControlTyped, PlayerPlaces, VoDestroy, ResetVideoState, WakeupLocked, Call, threadVars
<1>4. CallPending'
  BY DEF CallPending, VoDestroy, Call
<1>5. ReadyKept'
  BY DEF ReadyKept, VoDestroy, Call
<1>6. FramesMatch'
  <2>1. ForgetFrames(current_frame)
    BY DEF VoDestroy, ResetVideoState
  <2>2. /\ frame_queued' = None
        /\ current_frame' = None <=> current_frame = None
        /\ current_frame # None => current_frame'.params = current_frame.params
    BY <1>1, <2>1, ForgetFramesKeeps DEF TypeOK
  <2>q. QED
    BY <1>1, <2>2 DEF FramesMatch, VoDestroy, threadVars
<1>7. PoolMatches'
  BY <1>1 DEF PoolMatches, Changing, VoDestroy
<1>8. NothingMissed'
  BY DEF NothingMissed, Unnotified, VoDestroy, ResetVideoState, WakeupLocked
<1>q. QED
  BY <1>2, <1>3, <1>4, <1>5, <1>6, <1>7, <1>8 DEF Inductive

(* The window is paused.                                                   *)
LEMMA WindowOpenedPreserves ==
  ASSUME Inductive, WindowOpened
  PROVE  Inductive'
<1>1. /\ TypeOK /\ ControlTyped /\ CallPending /\ ReadyKept /\ FramesMatch
      /\ PoolMatches /\ NothingMissed
  BY DEF Inductive
<1>2. TypeOK'
  <2>1. None \in AllParams \cup {None}
    BY DEF AllParams
  <2>2. Call("control", None, "window_paused")
    BY DEF WindowOpened
  <2>3. call' \in Calls
    BY <2>1, <2>2, CallTyped
  <2>q. QED
    BY <1>1, <2>3
       DEF TypeOK, WindowOpened, frameVars, sleepVars, threadVars
<1>3. ControlTyped'
  BY <1>1 DEF ControlTyped, PlayerPlaces, WindowOpened, Call, sleepVars, threadVars
<1>4. CallPending'
  BY DEF CallPending, WindowOpened, Call
<1>5. ReadyKept'
  BY DEF ReadyKept, WindowOpened, Call
<1>6. FramesMatch'
  BY <1>1 DEF FramesMatch, WindowOpened, frameVars, threadVars
<1>7. PoolMatches'
  BY <1>1 DEF PoolMatches, Changing, WindowOpened
<1>8. NothingMissed'
  BY <1>1
     DEF NothingMissed, Unnotified, Awaits, WindowOpened, Call, frameVars, sleepVars, threadVars
<1>q. QED
  BY <1>2, <1>3, <1>4, <1>5, <1>6, <1>7, <1>8 DEF Inductive

(* The decoder has an image, or the end.                                   *)
LEMMA DecodePreserves ==
  ASSUME Inductive, Decode
  PROVE  Inductive'
<1>1. /\ TypeOK /\ ControlTyped /\ CallPending /\ ReadyKept /\ FramesMatch
      /\ PoolMatches /\ NothingMissed
  BY DEF Inductive
<1>2. TypeOK'
  BY <1>1 DEF TypeOK, Decode, frameVars, sleepVars, threadVars
<1>3. ControlTyped' /\ FramesMatch' /\ PoolMatches' /\ NothingMissed'
  BY <1>1
     DEF ControlTyped, FramesMatch, PoolMatches, NothingMissed, Unnotified, Awaits, Changing,
         Decode, frameVars, sleepVars, threadVars
<1>4. CallPending'
  BY <1>1 DEF CallPending, Decode, WritesVideo
<1>5. ReadyKept'
  BY DEF ReadyKept, Decode, WritesVideo
<1>q. QED
  BY <1>2, <1>3, <1>4, <1>5 DEF Inductive

(* The old frame is displayed to its end.                                  *)
LEMMA AwaitOldFramePreserves ==
  ASSUME Inductive, AwaitOldFrame
  PROVE  Inductive'
<1>1. /\ TypeOK /\ ControlTyped /\ CallPending /\ ReadyKept /\ FramesMatch
      /\ PoolMatches /\ NothingMissed
  BY DEF Inductive
<1>2. /\ TypeOK' /\ ControlTyped' /\ CallPending' /\ ReadyKept'
      /\ FramesMatch' /\ PoolMatches' /\ NothingMissed'
  BY <1>1
     DEF TypeOK, ControlTyped, CallPending, ReadyKept, FramesMatch, PoolMatches, NothingMissed,
         Unnotified, Awaits, Changing, AwaitOldFrame, frameVars, sleepVars, threadVars,
         playerVars
<1>q. QED
  BY <1>2 DEF Inductive

(* The VO is to be reconfigured to what was decoded.                       *)
LEMMA ReconfigPreserves ==
  ASSUME Inductive, Reconfig
  PROVE  Inductive'
<1>1. /\ TypeOK /\ ControlTyped /\ CallPending /\ ReadyKept /\ FramesMatch
      /\ PoolMatches /\ NothingMissed
  BY DEF Inductive
<1>2. TypeOK'
  <2>1. next \in AllParams \cup {None}
    BY <1>1 DEF AllParams, Reconfig
  <2>2. Call("reconfig", next, "reconfigured")
    BY DEF Reconfig
  <2>3. call' \in Calls
    BY <2>1, <2>2, CallTyped
  <2>q. QED
    BY <1>1, <2>3
       DEF TypeOK, Reconfig, frameVars, sleepVars, threadVars
<1>3. ControlTyped'
  BY <1>1 DEF ControlTyped, PlayerPlaces, Reconfig, Call, sleepVars, threadVars
<1>4. CallPending'
  BY ConstantsAssumption DEF ConstantsAssumption, CallPending, Reconfig, Call
<1>5. ReadyKept'
  BY DEF ReadyKept, Reconfig, Call
<1>6. FramesMatch'
  BY <1>1 DEF FramesMatch, Reconfig, frameVars, threadVars
<1>7. PoolMatches'
  BY <1>1 DEF PoolMatches, Changing, Reconfig, WritesVideo
<1>8. NothingMissed'
  BY <1>1
     DEF NothingMissed, Unnotified, Awaits, Reconfig, Call, frameVars, sleepVars, threadVars
<1>q. QED
  BY <1>2, <1>3, <1>4, <1>5, <1>6, <1>7, <1>8 DEF Inductive

(* The VO has the parameters of what was decoded.                          *)
LEMMA InitVoPreserves ==
  ASSUME Inductive, InitVo
  PROVE  Inductive'
<1>1. /\ TypeOK /\ ControlTyped /\ CallPending /\ ReadyKept /\ FramesMatch
      /\ PoolMatches /\ NothingMissed
  BY DEF Inductive
<1>2. TypeOK'
  <2>1. None \in AllParams \cup {None}
    BY DEF AllParams
  <2>2. Call("control", None, "pipeline")
    BY DEF InitVo
  <2>3. call' \in Calls
    BY <2>1, <2>2, CallTyped
  <2>q. QED
    BY <1>1, <2>3
       DEF TypeOK, InitVo, frameVars, sleepVars, threadVars
<1>3. ControlTyped'
  BY <1>1 DEF ControlTyped, PlayerPlaces, InitVo, Call, sleepVars, threadVars
<1>4. CallPending'
  BY <1>1 DEF CallPending, InitVo, Call
<1>5. ReadyKept'
  BY DEF ReadyKept, InitVo, Call
<1>6. FramesMatch'
  BY <1>1 DEF FramesMatch, InitVo, frameVars, threadVars
<1>7. PoolMatches'
  BY <1>1 DEF PoolMatches, Changing, InitVo, Call, frameVars
<1>8. NothingMissed'
  BY <1>1 DEF NothingMissed, Unnotified, Awaits, InitVo, Call, frameVars, sleepVars, threadVars
<1>q. QED
  BY <1>2, <1>3, <1>4, <1>5, <1>6, <1>7, <1>8 DEF Inductive

(* The VO has no parameters.                                               *)
LEMMA ReconfigFailedPreserves ==
  ASSUME Inductive, ReconfigFailed
  PROVE  Inductive'
<1>1. /\ TypeOK /\ ControlTyped /\ CallPending /\ ReadyKept /\ FramesMatch
      /\ PoolMatches /\ NothingMissed
  BY DEF Inductive
<1>2. TypeOK'
  <2>1. frame_queued' \in Frames \cup {None} /\ current_frame' \in Frames \cup {None}
    BY <1>1, ForgetFramesKeeps DEF TypeOK, ReconfigFailed, ResetVideoState
  <2>2. call' \in Calls
    BY CallTyped DEF ReconfigFailed, AllParams
  <2>q. QED
    BY <1>1, <2>1, <2>2
       DEF TypeOK, ReconfigFailed, ResetVideoState, ForgetFrames, WakeupLocked, threadVars
<1>3. ControlTyped'
  BY <1>1
     DEF ControlTyped, PlayerPlaces, ReconfigFailed, ResetVideoState, WakeupLocked, Call,
         threadVars
<1>4. CallPending'
  BY ConstantsAssumption DEF ConstantsAssumption, CallPending, ReconfigFailed, Call
<1>5. ReadyKept'
  BY DEF ReadyKept, ReconfigFailed, Call
<1>6. FramesMatch'
  <2>1. ForgetFrames(current_frame)
    BY DEF ReconfigFailed, ResetVideoState
  <2>2. /\ frame_queued' = None
        /\ current_frame' = None <=> current_frame = None
        /\ current_frame # None => current_frame'.params = current_frame.params
    BY <1>1, <2>1, ForgetFramesKeeps DEF TypeOK
  <2>q. QED
    BY <1>1, <2>2 DEF FramesMatch, ReconfigFailed, threadVars
<1>7. PoolMatches'
  BY ConstantsAssumption DEF ConstantsAssumption, PoolMatches, ReconfigFailed
<1>8. NothingMissed'
  BY DEF NothingMissed, Unnotified, ReconfigFailed, ResetVideoState, WakeupLocked
<1>q. QED
  BY <1>2, <1>3, <1>4, <1>5, <1>6, <1>7, <1>8 DEF Inductive

(* The pipeline takes the parameters the VO has.                           *)
LEMMA ChangePipelinePreserves ==
  ASSUME Inductive, ChangePipeline
  PROVE  Inductive'
<1>1. /\ TypeOK /\ ControlTyped /\ CallPending /\ ReadyKept /\ FramesMatch
      /\ PoolMatches /\ NothingMissed
  BY DEF Inductive
<1>2. TypeOK'
  <2>1. pool' \in Params \cup {None}
    <3>1. params = next
      BY <1>1 DEF CallPending, ChangePipeline
    <3>2. next \in Params \cup {"eof", None} /\ params \in AllParams \cup {None}
      BY <1>1 DEF TypeOK
    <3>3. next \in Params \cup {None}
      BY <3>1, <3>2, ConstantsAssumption DEF ConstantsAssumption, AllParams
    <3>q. QED
      BY <3>3 DEF ChangePipeline
  <2>q. QED
    BY <1>1, <2>1 DEF TypeOK, ChangePipeline, frameVars, sleepVars, threadVars
<1>3. ControlTyped'
  BY <1>1 DEF ControlTyped, PlayerPlaces, ChangePipeline, sleepVars, threadVars
<1>4. CallPending'
  BY <1>1 DEF CallPending, ChangePipeline
<1>5. ReadyKept'
  BY DEF ReadyKept, ChangePipeline
<1>6. FramesMatch'
  BY <1>1 DEF FramesMatch, ChangePipeline, frameVars, threadVars
<1>7. PoolMatches'
  BY <1>1 DEF PoolMatches, CallPending, ChangePipeline
<1>8. NothingMissed'
  BY <1>1
     DEF NothingMissed, Unnotified, Awaits, ChangePipeline, frameVars, sleepVars, threadVars
<1>q. QED
  BY <1>2, <1>3, <1>4, <1>5, <1>6, <1>7, <1>8 DEF Inductive

(* The player is ready only if the VO takes a frame.                       *)
LEMMA VoIsReadyPreserves ==
  ASSUME Inductive, NEW pts \in -1 .. MaxDelay, VoIsReady(pts)
  PROVE  Inductive'
<1>1. /\ TypeOK /\ ControlTyped /\ CallPending /\ ReadyKept /\ FramesMatch
      /\ PoolMatches /\ NothingMissed
  BY DEF Inductive
<1>2. TypeOK'
  <2>1. wakeup_pts' \in Times
    BY <1>1 DEF TypeOK, VoIsReady, Times
  <2>2. asleep' \subseteq {"vo", "player"}
    BY <1>1 DEF TypeOK, VoIsReady, WakeupLocked, sleepVars
  <2>q. QED
    BY <1>1, <2>1, <2>2 DEF TypeOK, VoIsReady, frameVars, threadVars
<1>3. ControlTyped'
  BY <1>1 DEF ControlTyped, PlayerPlaces, VoIsReady, WakeupLocked, sleepVars, threadVars
<1>4. CallPending'
  BY <1>1 DEF CallPending, VoIsReady, WritesVideo
<1>5. ReadyKept'
  <2>1. next = params /\ next \in Params
    BY <1>1, ConstantsAssumption DEF ConstantsAssumption, TypeOK, VoIsReady, AllParams
  <2>2. player' = "ready" => Takes
    BY DEF VoIsReady, WritesVideo
  <2>q. QED
    BY <2>1, <2>2 DEF ReadyKept, Takes, VoIsReady, frameVars
<1>6. FramesMatch'
  BY <1>1 DEF FramesMatch, VoIsReady, frameVars, threadVars
<1>7. PoolMatches'
  BY <1>1 DEF PoolMatches, Changing, VoIsReady, WritesVideo
<1>8. NothingMissed'
  BY <1>1
     DEF NothingMissed, Unnotified, Awaits, VoIsReady, WritesVideo, WakeupLocked, frameVars,
         sleepVars, threadVars
<1>q. QED
  BY <1>2, <1>3, <1>4, <1>5, <1>6, <1>7, <1>8 DEF Inductive

(* The queued frame has the current parameters, and is announced.          *)
LEMMA VoQueueFramePreserves ==
  ASSUME Inductive, NEW time \in FrameTimes, VoQueueFrame(time)
  PROVE  Inductive'
<1>1. /\ TypeOK /\ ControlTyped /\ CallPending /\ ReadyKept /\ FramesMatch
      /\ PoolMatches /\ NothingMissed
  BY DEF Inductive
<1>2. TypeOK'
  <2>1. next \in Params
    BY <1>1 DEF ReadyKept, VoQueueFrame
  <2>2. frame_queued' \in Frames
    <3>1. time.synced \in BOOLEAN /\ time.left \in 0 .. MaxVsyncs /\ time.end \in 0 .. MaxDelay
      <4>1. 1 \in 0 .. MaxVsyncs /\ 0 \in 0 .. MaxDelay
        BY ConstantsAssumption DEF ConstantsAssumption
      <4>2. \/ time \in [synced : {TRUE}, left : 0 .. MaxVsyncs, end : {0}]
            \/ time \in [synced : {FALSE}, left : {1}, end : 0 .. MaxDelay]
        BY DEF FrameTimes
      <4>q. QED
        BY <4>1, <4>2
    <3>q. QED
      BY <2>1, <3>1 DEF VoQueueFrame, Frames
  <2>3. wakeup_pts' \in Times
    BY ConstantsAssumption DEF ConstantsAssumption, VoQueueFrame, WakeupAt, FrameTimes, Times
  <2>q. QED
    BY <1>1, <2>2, <2>3 DEF TypeOK, VoQueueFrame, WakeupLocked, threadVars
<1>3. ControlTyped'
  BY <1>1 DEF ControlTyped, PlayerPlaces, VoQueueFrame, WakeupLocked, threadVars
<1>4. CallPending'
  BY <1>1 DEF CallPending, VoQueueFrame
<1>5. ReadyKept'
  BY DEF ReadyKept, VoQueueFrame
<1>6. FramesMatch'
  BY <1>1 DEF FramesMatch, ReadyKept, VoQueueFrame, threadVars
<1>7. PoolMatches'
  BY <1>1 DEF PoolMatches, Changing, VoQueueFrame
<1>8. NothingMissed'
  BY DEF NothingMissed, Unnotified, VoQueueFrame, WakeupLocked
<1>q. QED
  BY <1>2, <1>3, <1>4, <1>5, <1>6, <1>7, <1>8 DEF Inductive

(* The player waits for the frame to be shown.                             *)
LEMMA VoWaitFramePreserves ==
  ASSUME Inductive, VoWaitFrame
  PROVE  Inductive'
<1>1. /\ TypeOK /\ ControlTyped /\ CallPending /\ ReadyKept /\ FramesMatch
      /\ PoolMatches /\ NothingMissed
  BY DEF Inductive
<1>2. TypeOK'
  BY <1>1 DEF TypeOK, VoWaitFrame, frameVars, threadVars
<1>3. ControlTyped'
  BY <1>1 DEF ControlTyped, PlayerPlaces, VoWaitFrame, threadVars
<1>4. CallPending'
  BY <1>1 DEF CallPending, VoWaitFrame
<1>5. ReadyKept'
  BY DEF ReadyKept, VoWaitFrame
<1>6. FramesMatch'
  BY <1>1 DEF FramesMatch, VoWaitFrame, frameVars, threadVars
<1>7. PoolMatches'
  BY <1>1 DEF PoolMatches, Changing, VoWaitFrame
<1>8. NothingMissed'
  BY <1>1 DEF NothingMissed, Unnotified, Awaits, VoWaitFrame, frameVars, threadVars
<1>q. QED
  BY <1>2, <1>3, <1>4, <1>5, <1>6, <1>7, <1>8 DEF Inductive

(* The thread has ended.                                                   *)
LEMMA JoinedPreserves ==
  ASSUME Inductive, Joined
  PROVE  Inductive'
<1>1. /\ TypeOK /\ ControlTyped /\ CallPending /\ ReadyKept /\ FramesMatch
      /\ PoolMatches /\ NothingMissed
  BY DEF Inductive
<1>2. TypeOK'
  BY <1>1 DEF TypeOK, Joined, frameVars, sleepVars, threadVars
<1>3. ControlTyped'
  BY <1>1 DEF ControlTyped, PlayerPlaces, Joined, sleepVars, threadVars
<1>4. CallPending'
  BY <1>1 DEF CallPending, Joined
<1>5. ReadyKept'
  BY DEF ReadyKept, Joined
<1>6. FramesMatch'
  BY <1>1 DEF FramesMatch, Joined, frameVars, threadVars
<1>7. PoolMatches'
  BY DEF PoolMatches, Joined
<1>8. NothingMissed'
  BY <1>1 DEF NothingMissed, Unnotified, Awaits, Joined, frameVars, sleepVars, threadVars
<1>q. QED
  BY <1>2, <1>3, <1>4, <1>5, <1>6, <1>7, <1>8 DEF Inductive

(***************************************************************************)
(* Time                                                                    *)
(***************************************************************************)

(* Time brings the timeout and the time to wake the player closer alike.   *)
LEMMA TickPreserves ==
  ASSUME Inductive, Tick
  PROVE  Inductive'
<1>1. /\ TypeOK /\ ControlTyped /\ CallPending /\ ReadyKept /\ FramesMatch
      /\ PoolMatches /\ NothingMissed
  BY DEF Inductive
<1>s. /\ frame_queued' = Nearer(frame_queued) /\ current_frame' = Nearer(current_frame)
      /\ wakeup_pts' = Closer(wakeup_pts) /\ wait_until' = Closer(wait_until)
      /\ UNCHANGED <<params, hasframe, hasframe_rendered, rendering, dropped_frame,
                     request_redraw, send_reset, paused, terminate, need_wakeup, wakeup_pipe,
                     asleep, event_fd, pc, working, drawing, player, call, after, next,
                     player_paused, syncing, pool, fresh>>
  BY DEF Tick, sleepVars, playerVars
<1>n. /\ frame_queued \in Frames \cup {None} /\ current_frame \in Frames \cup {None}
      /\ wakeup_pts \in Times /\ wait_until \in Times
  BY <1>1 DEF TypeOK
<1>2. TypeOK'
  <2>1. /\ frame_queued' \in Frames \cup {None} /\ current_frame' \in Frames \cup {None}
        /\ wakeup_pts' \in Times /\ wait_until' \in Times
    BY <1>s, <1>n, NearerKeeps, CloserKeeps
  <2>q. QED
    BY <1>1, <1>s, <2>1 DEF TypeOK
<1>3. ControlTyped' /\ CallPending'
  BY <1>1 DEF ControlTyped, CallPending, Tick, sleepVars, playerVars
<1>4. ReadyKept'
  BY <1>1, <1>s, <1>n, NearerKeeps DEF ReadyKept
<1>5. FramesMatch'
  BY <1>1, <1>s, <1>n, NearerKeeps DEF FramesMatch
<1>6. PoolMatches'
  BY <1>1, <1>s, <1>n, NearerKeeps DEF PoolMatches, Changing
<1>7. NothingMissed'
  <2>1. Closer(wait_until) # 0 => wait_until # 0
    BY <1>n, CloserKeeps
  <2>2. wakeup_pts = None \/ (wait_until # None /\ wait_until <= wakeup_pts)
        => Closer(wakeup_pts) = None
           \/ (Closer(wait_until) # None /\ Closer(wait_until) <= Closer(wakeup_pts))
    BY <1>n, CloserKeeps
  <2>3. frame_queued = None => frame_queued' = None
    BY <1>s, <1>n, NearerKeeps
  <2>q. QED
    BY <1>1, <1>s, <2>1, <2>2, <2>3 DEF NothingMissed, Unnotified, Awaits
<1>q. QED
  BY <1>2, <1>3, <1>4, <1>5, <1>6, <1>7 DEF Inductive

(* Nothing changes.                                                        *)
LEMMA StutterPreserves ==
  ASSUME Inductive, UNCHANGED vars
  PROVE  Inductive'
<1>1. /\ TypeOK /\ ControlTyped /\ CallPending /\ ReadyKept /\ FramesMatch
      /\ PoolMatches /\ NothingMissed
  BY DEF Inductive
<1>2. /\ TypeOK' /\ ControlTyped' /\ CallPending' /\ ReadyKept'
      /\ FramesMatch' /\ PoolMatches' /\ NothingMissed'
  BY <1>1
     DEF TypeOK, ControlTyped, CallPending, ReadyKept, FramesMatch, PoolMatches, NothingMissed,
         Unnotified, Awaits, Changing, vars, frameVars, sleepVars, threadVars, playerVars
<1>q. QED
  BY <1>2 DEF Inductive

(***************************************************************************)
(* The theorems                                                            *)
(***************************************************************************)

(* The VO starts idle, the player decoding.                                *)
LEMMA InitInductive == Init => Inductive
<1>1. SUFFICES ASSUME Init
               PROVE  Inductive
  OBVIOUS
<1>2. TypeOK
  BY <1>1 DEF Init, TypeOK, Times, Calls, NoCall
<1>3. ControlTyped /\ CallPending
  BY <1>1, ConstantsAssumption
     DEF ConstantsAssumption, Init, NoCall, ControlTyped, CallPending, Places, PlayerPlaces
<1>4. ReadyKept /\ FramesMatch /\ PoolMatches
  BY <1>1 DEF Init, ReadyKept, FramesMatch, PoolMatches
<1>5. NothingMissed
  BY <1>1 DEF Init, NothingMissed, Awaits, Rendering, Waiting
<1>q. QED
  BY <1>2, <1>3, <1>4, <1>5 DEF Inductive

(* The inductive invariant of the VO thread and the player, for any        *)
(* parameters, pause states, delays and numbers of vsyncs.                 *)
THEOREM InductiveHolds == Spec => []Inductive
<1>1. Init => Inductive
  BY InitInductive
<1>2. Inductive /\ [Next]_vars => Inductive'
  <2>1. SUFFICES ASSUME Inductive, [Next]_vars
                 PROVE  Inductive'
    OBVIOUS
  <2>2. CASE ThreadStep
    BY <2>1, <2>2, RunCallPreserves, ProcessedPreserves, RenderFramePreserves,
       DrawFramePreserves, FlipPagePreserves, ReadQueuedPreserves, ReadSyncedPreserves,
       LoopEndPreserves, DoRedrawPreserves, RedrawFlipPreserves, WaitCondPreserves,
       CondEndsPreserves, PollEndsPreserves, PolledPreserves, ExitPreserves
       DEF ThreadStep
  <2>3. CASE PlayerInside
    BY <2>1, <2>3, SignalPreserves, ReturnedPreserves, WindowOpenedPreserves,
       WindowRedrawPreserves, InitVoPreserves, ReconfigFailedPreserves,
       ChangePipelinePreserves, VoQueueFramePreserves, VoWaitFramePreserves, JoinedPreserves,
       VoDestroyPreserves
       DEF PlayerInside
  <2>4. CASE PlayerChoice
    BY <2>1, <2>4, PausePlayerPreserves, HandleOsdRedrawPreserves, SeekPreserves,
       ForceWindowPreserves, VoDestroyPreserves, DecodePreserves, AwaitOldFramePreserves,
       ReconfigPreserves, VoIsReadyPreserves
       DEF PlayerChoice
  <2>5. CASE CondEnds \/ PollEnds \/ Tick \/ Destroyed \/ UNCHANGED vars
    BY <2>1, <2>5, CondEndsPreserves, PollEndsPreserves, TickPreserves, StutterPreserves
       DEF Destroyed
  <2>q. QED
    BY <2>1, <2>2, <2>3, <2>4, <2>5 DEF Next
<1>q. QED
  BY <1>1, <1>2, PTL DEF Spec

(* vo_queue_frame's assertions hold: what vo_is_ready_for_frame has told   *)
(* the player is so until it queues the frame.                             *)
THEOREM QueueAssertsHolds == Spec => []QueueAsserts
<1>1. Inductive => QueueAsserts
  BY ConstantsAssumption DEF ConstantsAssumption, Inductive, QueueAsserts, ReadyKept
<1>q. QED
  BY <1>1, InductiveHolds, PTL

(* The VO thread never sleeps on a call, a frame, a reset or a redraw, nor *)
(* past the time it is to wake the player, with either way to wait.        *)
THEOREM NoLostWakeupHolds == Spec => []NoLostWakeup
<1>1. Inductive => NoLostWakeup
  <2>1. SUFFICES ASSUME Inductive, VoSleeps
                 PROVE  /\ frame_queued = None /\ ~send_reset /\ ~terminate
                        /\ player = "signal" \/ (call.done /\ ~request_redraw)
                        /\ wakeup_pts = None
                           \/ (wait_until # None /\ wait_until <= wakeup_pts)
    BY DEF NoLostWakeup
  <2>2. Unnotified /\ Awaits /\ ~terminate
    BY <2>1 DEF Inductive, ControlTyped, VoSleeps, Unnotified, Awaits, Waiting
  <2>q. QED
    BY <2>1, <2>2 DEF Inductive, NothingMissed, Awaits
<1>q. QED
  BY <1>1, InductiveHolds, PTL

(* What the driver draws has the parameters the image pipeline works with, *)
(* whoever of the VO thread and the player has changed them last.          *)
THEOREM DrawsMatchPoolHolds == Spec => []DrawsMatchPool
<1>1. Inductive => DrawsMatchPool
  <2>1. SUFFICES ASSUME Inductive, drawing # None, pool # None
                 PROVE  drawing = pool
    BY DEF DrawsMatchPool
  <2>2. current_frame # None /\ drawing = params
    BY <2>1 DEF Inductive, FramesMatch
  <2>3. drawing \in Params
    BY <2>1 DEF Inductive, TypeOK
  <2>q. QED
    BY <2>1, <2>2, <2>3 DEF Inductive, PoolMatches
<1>q. QED
  BY <1>1, InductiveHolds, PTL

(***************************************************************************)
(* Frames of before a reset                                                *)
(***************************************************************************)

(* After a reset there is no frame left that was not there before.         *)
LEMMA ForgetFramesFresh ==
  ASSUME NEW frame \in Frames \cup {None}, ForgetFrames(frame)
  PROVE  FreshMatches'
<1>1. /\ fresh' = {} /\ frame_queued' = None /\ ~hasframe_rendered'
  BY DEF ForgetFrames
<1>2. current_frame' = None \/ current_frame'.left = 0
  BY ForgetFramesKeeps
<1>q. QED
  BY <1>1, <1>2 DEF FreshMatches, RenderedSinceReset

(* Most steps leave the frames alone, and neither take nor show one.       *)
LEMMA FreshKept ==
  ASSUME FreshMatches, UNCHANGED frameVars,
         pc' \in {"draw", "flip"} <=> pc \in {"draw", "flip"}
  PROVE  FreshMatches'
BY DEF FreshMatches, RenderedSinceReset, frameVars

(* The frame that is taken was queued since the last reset.                *)
LEMMA RenderFrameFresh ==
  ASSUME Inductive, FreshMatches, RenderFrame
  PROVE  FreshMatches' /\ (pc' = "draw" => "current" \in fresh')
<1>1. TypeOK
  BY DEF Inductive
<1>2. CASE frame_queued # None /\ StartFrame(frame_queued) /\ fresh' = TakenFresh
  <2>1. "queued" \in fresh /\ hasframe
    BY <1>2 DEF FreshMatches
  <2>2. "current" \in fresh' /\ ("screen" \in fresh' <=> "screen" \in fresh)
    BY <1>2, <2>1 DEF TakenFresh
  <2>3. frame_queued' = None /\ hasframe' = hasframe
    BY <1>2 DEF StartFrame, RenderFrame
  <2>4. RenderedSinceReset'
    BY <1>2, <2>2 DEF FreshMatches, RenderedSinceReset, StartFrame, RenderFrame
  <2>q. QED
    BY <2>1, <2>2, <2>3, <2>4 DEF FreshMatches
<1>3. CASE frame_queued = None /\ Repeats /\ StartFrame(current_frame) /\ UNCHANGED fresh
  <2>1. "current" \in fresh /\ hasframe
    BY <1>3 DEF FreshMatches, Repeats
  <2>2. frame_queued' = None /\ hasframe' = hasframe /\ fresh' = fresh
    BY <1>3 DEF StartFrame, RenderFrame
  <2>3. RenderedSinceReset'
    BY <1>3, <2>1 DEF FreshMatches, RenderedSinceReset, StartFrame, RenderFrame
  <2>q. QED
    BY <2>1, <2>2, <2>3 DEF FreshMatches
<1>4. CASE frame_queued = None /\ ~Repeats /\ pc' = "reread"
           /\ UNCHANGED <<frame_queued, current_frame, hasframe_rendered, fresh>>
  BY <1>4 DEF FreshMatches, RenderedSinceReset, RenderFrame
<1>q. QED
  BY <1>2, <1>3, <1>4 DEF RenderFrame

(* What comes on the screen is a new frame if the current one is.          *)
LEMMA ShownFresh ==
  ASSUME FreshMatches, FlipPage \/ RedrawFlip
  PROVE  FreshMatches' /\ ("screen" \in fresh => "screen" \in fresh')
<1>1. /\ fresh' = ScreenFresh
      /\ UNCHANGED <<frame_queued, current_frame, hasframe, hasframe_rendered>>
  BY DEF FlipPage, Shows, RedrawFlip
<1>2. /\ "queued" \in fresh' <=> "queued" \in fresh
      /\ "current" \in fresh' <=> "current" \in fresh
      /\ "screen" \in fresh' <=> "current" \in fresh
      /\ fresh' # {} => fresh # {}
  BY <1>1 DEF ScreenFresh
<1>3. hasframe_rendered => "current" \in fresh
  BY DEF FreshMatches, RenderedSinceReset
<1>4. pc' \notin {"draw", "flip"}
  BY DEF FlipPage, RedrawFlip
<1>q. QED
  BY <1>1, <1>2, <1>3, <1>4 DEF FreshMatches, RenderedSinceReset

(* The frame that is queued is a new one.                                  *)
LEMMA VoQueueFrameFresh ==
  ASSUME FreshMatches, NEW time, VoQueueFrame(time)
  PROVE  FreshMatches' /\ ("screen" \in fresh => "screen" \in fresh')
BY DEF FreshMatches, RenderedSinceReset, VoQueueFrame, threadVars

(* Time shows no frame.                                                    *)
LEMMA TickFresh ==
  ASSUME Inductive, FreshMatches, Tick
  PROVE  FreshMatches' /\ fresh' = fresh
<1>1. frame_queued \in Frames \cup {None} /\ current_frame \in Frames \cup {None}
  BY DEF Inductive, TypeOK
<1>2. /\ frame_queued' # None => frame_queued # None
      /\ current_frame' # None => current_frame # None /\ current_frame'.left = current_frame.left
  BY <1>1, NearerKeeps DEF Tick
<1>q. QED
  BY <1>2 DEF FreshMatches, RenderedSinceReset, Tick

(* A step that is none of those that touch frames.                         *)
LeavesFrames ==
  /\ UNCHANGED frameVars
  /\ pc' \in {"draw", "flip"} <=> pc \in {"draw", "flip"}

(* A step that forgets all frames but, at most, the current one.           *)
Resets == \E frame \in {None, current_frame} : ForgetFrames(frame)

(* Which steps take, show, queue or forget a frame.                        *)
LEMMA FrameSteps ==
  ASSUME [Next]_vars
  PROVE  \/ LeavesFrames /\ (pc = "render" => pc' # "draw")
         \/ Resets /\ pc # "render"
         \/ Resets /\ pc' = pc
         \/ RenderFrame \/ FlipPage \/ RedrawFlip \/ DoRedraw \/ Tick
         \/ \E time \in FrameTimes : VoQueueFrame(time)
<1>1. CASE RunCall
  BY <1>1 DEF RunCall, RunReconfig, Resets, LeavesFrames, threadVars
<1>2. CASE Exit
  BY <1>2 DEF Exit, Resets
<1>3. CASE Seek \/ VoDestroy \/ ReconfigFailed
  BY <1>3 DEF Seek, VoDestroy, ReconfigFailed, ResetVideoState, Resets, threadVars
<1>4. CASE \/ Processed \/ DrawFrame \/ ReadQueued \/ ReadSynced \/ LoopEnd \/ WaitCond
           \/ CondEnds \/ PollEnds \/ Polled
  BY <1>4
     DEF LeavesFrames, Processed, DrawFrame, ReadQueued, ReadSynced, LoopEnd, WaitCond,
         CondEnds, PollEnds, Polled
<1>5. CASE \/ Signal \/ Returned \/ WindowOpened \/ WindowRedraw \/ InitVo \/ ChangePipeline
           \/ VoWaitFrame \/ Joined
  BY <1>5
     DEF LeavesFrames, Signal, Returned, WindowOpened, WindowRedraw, VoRedraw, InitVo,
         ChangePipeline, VoWaitFrame, Joined, threadVars
<1>6. CASE \/ PausePlayer \/ HandleOsdRedraw \/ ForceWindow \/ Decode \/ AwaitOldFrame \/ Reconfig
           \/ \E pts \in -1 .. MaxDelay : VoIsReady(pts)
  BY <1>6
     DEF LeavesFrames, PausePlayer, HandleOsdRedraw, VoRedraw, ForceWindow, Decode,
         AwaitOldFrame, Reconfig, VoIsReady, threadVars
<1>7. CASE UNCHANGED vars
  BY <1>7 DEF LeavesFrames, vars, threadVars
<1>q. QED
  BY <1>1, <1>2, <1>3, <1>4, <1>5, <1>6, <1>7
     DEF Next, ThreadStep, PlayerInside, PlayerChoice, Destroyed

(* A redraw is not counted as the first frame of anything.                 *)
LEMMA DoRedrawLeaves ==
  ASSUME DoRedraw
  PROVE  /\ UNCHANGED <<frame_queued, current_frame, hasframe, hasframe_rendered, fresh>>
         /\ pc \notin {"draw", "flip", "render"} /\ pc' \notin {"draw", "flip"}
BY DEF DoRedraw

(* Every step keeps the new frames apart from the old ones, takes new ones *)
(* only, and replaces a new one on the screen by an old one only when it   *)
(* forgets them all.                                                       *)
LEMMA StepFresh ==
  ASSUME Inductive, FreshMatches, [Next]_vars
  PROVE  /\ FreshMatches'
         /\ pc = "render" /\ pc' = "draw" => "current" \in fresh'
         /\ "screen" \in fresh /\ "screen" \notin fresh' => hasframe /\ ~hasframe'
<1>1. CASE LeavesFrames /\ (pc = "render" => pc' # "draw")
  BY <1>1, FreshKept DEF LeavesFrames, frameVars
<1>2. CASE Resets /\ (pc # "render" \/ pc' = pc)
  <2>1. PICK frame \in {None, current_frame} : ForgetFrames(frame)
    BY <1>2 DEF Resets
  <2>2. frame \in Frames \cup {None}
    BY DEF Inductive, TypeOK
  <2>3. FreshMatches'
    BY <2>1, <2>2, ForgetFramesFresh
  <2>4. ~hasframe' /\ ("screen" \in fresh => hasframe)
    BY <2>1 DEF ForgetFrames, FreshMatches
  <2>q. QED
    BY <1>2, <2>3, <2>4
<1>3. CASE RenderFrame
  <2>1. "screen" \in fresh => "screen" \in fresh'
    BY <1>3 DEF RenderFrame, TakenFresh
  <2>q. QED
    BY <1>3, <2>1, RenderFrameFresh
<1>4. CASE FlipPage \/ RedrawFlip
  BY <1>4, ShownFresh DEF FlipPage, RedrawFlip
<1>5. CASE DoRedraw
  BY <1>5, DoRedrawLeaves DEF FreshMatches, RenderedSinceReset
<1>6. CASE Tick
  BY <1>6, TickFresh DEF Tick
<1>7. CASE \E time \in FrameTimes : VoQueueFrame(time)
  BY <1>7, VoQueueFrameFresh DEF VoQueueFrame, threadVars
<1>q. QED
  BY <1>1, <1>2, <1>3, <1>4, <1>5, <1>6, <1>7, FrameSteps

(* Old frames are neither queued nor repeated, and hasframe_rendered       *)
(* speaks of a new one, whatever a seek comes in between.                  *)
THEOREM FreshMatchesHolds == Spec => []FreshMatches
<1>1. Init => FreshMatches
  BY DEF Init, FreshMatches, RenderedSinceReset
<1>2. Inductive /\ FreshMatches /\ [Next]_vars => FreshMatches'
  BY StepFresh
<1>q. QED
  BY <1>1, <1>2, InductiveHolds, PTL DEF Spec

(* Whenever a seek or a reconfiguration comes, between any two regions of  *)
(* render_frame: no frame of before it is taken after it, or replaces a    *)
(* newer one on the screen, or passes for the first frame after it.        *)
THEOREM OldFramesForgottenHolds == Spec => OldFramesForgotten
<1>1. Inductive /\ FreshMatches /\ [Next]_vars
      => [/\ pc = "render" /\ pc' = "draw" => "current" \in fresh'
          /\ "screen" \in fresh /\ "screen" \notin fresh' => hasframe /\ ~hasframe'
          /\ RenderedSinceReset']_vars
  BY StepFresh DEF FreshMatches
<1>q. QED
  BY <1>1, InductiveHolds, FreshMatchesHolds, PTL DEF Spec, OldFramesForgotten

=============================================================================
