------------------------------ MODULE VoQueue ------------------------------
(***************************************************************************)
(* The video output of video/out/vo.c: the player hands frames, redraw and *)
(* reset requests and calls to the VO thread, which renders, and tells the *)
(* player when it can go on.                                               *)
(*                                                                         *)
(* Granularity.  in->lock protects the fields below but vo->params; each   *)
(* region under it is one action, and so is what happens between two of    *)
(* them.  A call through in->dispatch (vo_reconfig, vo_control, the lock   *)
(* of vo_destroy) is queued, followed by a wakeup, and run by the thread   *)
(* when it comes to mp_dispatch_queue_process: module Dispatch.            *)
(*                                                                         *)
(* Points in time are kept relative to now, and 0 is any time that has     *)
(* come: a Tick brings each of them one step closer.                       *)
(***************************************************************************)
EXTENDS Integers, FiniteSets

CONSTANTS
  Params,     \* image parameters of the videos played
  Forced,     \* parameters of the window without a video (force_vo)
  None,
  Pauses,     \* bound: what the user sets the pause state to
  EventFds,   \* whether the driver has an event_fd: the values to consider
  MaxDelay,   \* bound: how far ahead, in ticks, a point in time can be
  MaxVsyncs   \* bound: num_vsyncs of a frame

Frames == [synced : BOOLEAN, left : 0 .. MaxVsyncs, end : 0 .. MaxDelay, params : Params]

ASSUME ConstantsAssumption ==
  /\ Forced \notin Params
  /\ None \notin Params \cup {Forced, "eof"}
  /\ "eof" \notin Params \cup {Forced}
  /\ EventFds \subseteq BOOLEAN /\ Pauses \subseteq BOOLEAN
  /\ MaxDelay \in Nat \ {0}
  /\ MaxVsyncs \in Nat \ {0}
  /\ None \notin Int \cup Frames

VARIABLES
  params,           \* vo->params, None until config_ok
  frame_queued, current_frame,
  hasframe, hasframe_rendered, rendering, dropped_frame,
  request_redraw, send_reset, paused, terminate,
  wakeup_pts,       \* when to wake the player, None for 0
  need_wakeup,
  wakeup_pipe,      \* there is something to read in it
  event_fd,         \* the driver waits for a file descriptor, not on the condition
  asleep,           \* who sleeps on the condition variable in->wakeup
  pc,               \* where the VO thread is
  working,          \* result of render_frame
  wait_until,       \* until when the thread sleeps
  drawing,          \* parameters of the driver's image between draw and flip
  player,           \* where the player is
  call,             \* its call through the dispatch queue
  after,            \* where the player goes when the call returns
  next,             \* what the player has decoded: parameters, "eof" or None
  player_paused,    \* mpctx->paused
  syncing,          \* video_status < STATUS_READY
  pool,             \* parameters the image pipeline works with (Vo_Dmx_ChangeParam)
  promised,         \* history: the player sleeps, and was told it would be woken
  osd_current,      \* history: the last OSD that was drawn is the current one
  fresh,            \* history: which of the frames "queued", "current" and on the
                    \* "screen" were queued since frames were last forgotten
  dangling          \* history: the frame whose pointer was read was freed

frameVars == <<frame_queued, current_frame, hasframe, hasframe_rendered, rendering,
               dropped_frame, fresh>>
sleepVars == <<need_wakeup, wakeup_pipe, asleep>>
threadVars == <<pc, working, wait_until, drawing>>
playerVars == <<player, call, after, next, player_paused, syncing, pool>>
vars == <<params, frameVars, request_redraw, send_reset, paused, terminate, wakeup_pts,
          sleepVars, event_fd, threadVars, playerVars, promised, osd_current, dangling>>

NoCall == [kind |-> "none", done |-> TRUE, params |-> None]

Init ==
  /\ params = None
  /\ frame_queued = None /\ current_frame = None
  /\ hasframe = FALSE /\ hasframe_rendered = FALSE
  /\ rendering = FALSE /\ dropped_frame = FALSE /\ fresh = {}
  /\ request_redraw = FALSE /\ send_reset = FALSE
  /\ paused = FALSE /\ terminate = FALSE
  /\ wakeup_pts = None
  /\ need_wakeup = FALSE /\ wakeup_pipe = FALSE /\ asleep = {}
  /\ event_fd \in EventFds
  /\ pc = "process" /\ working = FALSE /\ wait_until = None /\ drawing = None
  /\ player = "run" /\ call = NoCall /\ after = "run"
  /\ next = None /\ player_paused \in BOOLEAN /\ syncing = TRUE /\ pool = None
  /\ promised = FALSE /\ osd_current = TRUE /\ dangling = FALSE

WakeupBroadcast == asleep' = {} /\ UNCHANGED <<need_wakeup, wakeup_pipe>>

(* wakeup_locked                                                           *)
WakeupLocked ==
  /\ asleep' = {}
  /\ need_wakeup' = TRUE
  /\ wakeup_pipe' = (wakeup_pipe \/ event_fd)

(* mp_input_wakeup                                                         *)
WakePlayer == promised' = FALSE

(* The broadcast for vo_wait_frame, and the wakeup of the player.          *)
FrameDoneSilent == WakePlayer /\ UNCHANGED asleep
FrameDone == asleep' = {} /\ WakePlayer

(* forget_frames; the current frame is kept for redraws.                   *)
ForgetFrames(frame) ==
  /\ frame_queued' = None
  /\ current_frame' =
       IF frame = None THEN None ELSE [frame EXCEPT !.left = 0, !.synced = FALSE]
  /\ hasframe' = FALSE
  /\ hasframe_rendered' = FALSE
  /\ fresh' = {}
  /\ dangling' = (dangling \/ (pc = "deref" /\ frame_queued # None))

(***************************************************************************)
(* The VO thread                                                           *)
(***************************************************************************)

RunReconfigKeeps ==
  /\ params' = call.params
  /\ ForgetFrames(current_frame)
  /\ UNCHANGED <<terminate, rendering, dropped_frame>>

(* run_reconfig: the driver accepts the parameters or does not, and no     *)
(* frame survives.                                                         *)
RunReconfig ==
  /\ params' \in {call.params, None}
  /\ ForgetFrames(None)
  /\ UNCHANGED <<terminate, rendering, dropped_frame>>

(* mp_dispatch_queue_process runs what is queued and returns.              *)
RunCall ==
  /\ pc = "process"
  /\ ~call.done
  /\ call' = [call EXCEPT !.done = TRUE]
  /\ \/ call.kind = "reconfig" /\ RunReconfig
     \/ /\ call.kind = "control"
        /\ UNCHANGED <<params, frameVars, terminate, dangling>>
     \/ /\ call.kind = "destroy"
        /\ terminate' = TRUE
        /\ UNCHANGED <<params, frameVars, dangling>>
  /\ UNCHANGED <<request_redraw, send_reset, paused, wakeup_pts, sleepVars, event_fd,
                 threadVars, player, after, next, player_paused, syncing, pool, promised,
                 osd_current>>

Processed ==
  /\ pc = "process"
  /\ call.done
  /\ pc' = IF terminate THEN "exit" ELSE "render"
  /\ UNCHANGED <<params, frameVars, request_redraw, send_reset, paused, terminate, wakeup_pts,
                 sleepVars, event_fd, working, wait_until, drawing, playerVars, promised,
                 osd_current, dangling>>

(* render_frame, first region.  A frame is dropped when it is late, never  *)
(* as the first one, or when it was to be shown for no vsync at all.       *)
MayDrop(frame) ==
  IF frame.synced THEN {frame.left = 0} ELSE {FALSE, hasframe_rendered}

Repeats == current_frame # None /\ hasframe /\ ~paused /\ current_frame.synced /\ current_frame.left > 0

CountDownBelow(n) == n - 1
CountDown(n) == IF n > 0 THEN n - 1 ELSE n

StartFrame(frame) ==
  /\ frame_queued' = None
  /\ current_frame' = [frame EXCEPT !.left = CountDown(@)]
  /\ \E drop \in MayDrop(frame) :
       /\ dropped_frame' = drop
       /\ rendering' = ~drop
       /\ hasframe_rendered' = (hasframe_rendered \/ ~drop)
       /\ IF drop THEN /\ FrameDone
                       /\ working' = TRUE /\ pc' = "loop_end"
                  ELSE /\ pc' = "draw"
                       /\ UNCHANGED <<asleep, promised, working>>

(* The queued frame becomes the current one.                               *)
TakenFresh ==
  (fresh \ {"queued", "current"}) \cup {x \in {"current"} : "queued" \in fresh}

RenderFrame ==
  /\ pc = "render"
  /\ \/ frame_queued # None /\ StartFrame(frame_queued) /\ fresh' = TakenFresh
     \/ frame_queued = None /\ Repeats /\ StartFrame(current_frame) /\ UNCHANGED fresh
     \/ /\ frame_queued = None /\ ~Repeats
        /\ pc' = "reread"
        /\ UNCHANGED <<frame_queued, current_frame, dropped_frame, rendering,
                       hasframe_rendered, fresh, asleep, promised, working>>
  /\ UNCHANGED <<params, hasframe, request_redraw, send_reset, paused, terminate, wakeup_pts,
                 need_wakeup, wakeup_pipe, event_fd, wait_until, drawing, playerVars,
                 osd_current, dangling>>

(* The lock is released: the player can queue more, and the driver draws   *)
(* the frame with the OSD as it is now.                                    *)
DrawFrame ==
  /\ pc = "draw"
  /\ WakePlayer
  /\ osd_current' = TRUE
  /\ drawing' = current_frame.params
  /\ pc' = "flip"
  /\ UNCHANGED <<params, frameVars, request_redraw, send_reset, paused, terminate, wakeup_pts,
                 sleepVars, event_fd, working, wait_until, playerVars, dangling>>

(* The current frame comes on the screen.                                  *)
ScreenFresh == (fresh \ {"screen"}) \cup {x \in {"screen"} : "current" \in fresh}

ShowsAndMarks == fresh' = ScreenFresh /\ hasframe_rendered' = TRUE

(* Whether it is the first one since a reset was noted when it was taken.  *)
Shows == fresh' = ScreenFresh /\ UNCHANGED hasframe_rendered

(* flip_page, which counts the frame as dropped or not, and the last       *)
(* region of render_frame.                                                 *)
FlipPage ==
  /\ pc = "flip"
  /\ \E drop \in BOOLEAN :
       /\ dropped_frame' = drop
       /\ request_redraw' = (request_redraw /\ drop)
  /\ Shows
  /\ rendering' = FALSE
  /\ drawing' = None
  /\ FrameDone
  /\ working' = TRUE /\ pc' = "loop_end"
  /\ UNCHANGED <<params, frame_queued, current_frame, hasframe, send_reset, paused, terminate,
                 wakeup_pts, need_wakeup, wakeup_pipe, event_fd, wait_until, playerVars,
                 osd_current, dangling>>

(* The return of render_frame reads in->frame_queued, and then what it     *)
(* points to, after it has released the lock.                              *)
ReadQueued ==
  /\ pc = "reread"
  /\ working' = FALSE
  /\ pc' = IF frame_queued = None THEN "loop_end" ELSE "deref"
  /\ UNCHANGED <<params, frameVars, request_redraw, send_reset, paused, terminate, wakeup_pts,
                 sleepVars, event_fd, wait_until, drawing, playerVars, promised, osd_current,
                 dangling>>

ReadSynced ==
  /\ pc = "deref"
  /\ working' \in IF dangling THEN BOOLEAN ELSE {frame_queued.synced}
  /\ dangling' = FALSE
  /\ pc' = "loop_end"
  /\ UNCHANGED <<params, frameVars, request_redraw, send_reset, paused, terminate, wakeup_pts,
                 sleepVars, event_fd, wait_until, drawing, playerVars, promised, osd_current>>

(* The region of vo_thread that follows render_frame.                      *)
LoopEnd ==
  /\ pc = "loop_end"
  /\ wait_until' = IF working THEN 0 ELSE IF wakeup_pts = 0 THEN None ELSE wakeup_pts
  /\ IF wakeup_pts = 0 THEN wakeup_pts' = None /\ WakePlayer
                       ELSE UNCHANGED <<wakeup_pts, promised>>
  /\ send_reset' = FALSE
  /\ working' = FALSE
  /\ pc' = IF request_redraw /\ ~working THEN "redraw" ELSE "wait"
  /\ UNCHANGED <<params, frameVars, request_redraw, paused, terminate, sleepVars, event_fd,
                 drawing, playerVars, osd_current, dangling>>

DoRedraw ==
  /\ pc = "redraw"
  /\ wait_until' = None
  /\ \/ params = None /\ pc' = "process"
        /\ UNCHANGED <<request_redraw, dropped_frame, drawing>>
     \/ /\ params # None
        /\ request_redraw' = FALSE
        /\ dropped_frame' = (dropped_frame /\ current_frame = None)
        /\ drawing' = IF current_frame = None THEN None ELSE current_frame.params
        /\ pc' = "redraw_flip"
  /\ UNCHANGED <<params, frame_queued, current_frame, hasframe, hasframe_rendered, rendering,
                 fresh, send_reset, paused, terminate, wakeup_pts, sleepVars, event_fd, working,
                 playerVars, promised, osd_current, dangling>>

(* draw_frame and flip_page of a redraw                                    *)
RedrawFlip ==
  /\ pc = "redraw_flip"
  /\ osd_current' = TRUE
  /\ fresh' = ScreenFresh
  /\ drawing' = None
  /\ pc' = "process"
  /\ UNCHANGED <<params, frame_queued, current_frame, hasframe, hasframe_rendered, rendering,
                 dropped_frame, request_redraw, send_reset, paused, terminate, wakeup_pts,
                 sleepVars, event_fd, working, wait_until, playerVars, promised, dangling>>

(* wait_vo on the condition variable: not if there was a wakeup since the  *)
(* last time.                                                              *)
WaitCond ==
  /\ pc = "wait" /\ ~event_fd
  /\ IF need_wakeup THEN /\ need_wakeup' = FALSE /\ pc' = "process" /\ wait_until' = None
                         /\ UNCHANGED asleep
                    ELSE /\ asleep' = asleep \cup {"vo"} /\ pc' = "asleep"
                         /\ UNCHANGED <<need_wakeup, wait_until>>
  /\ UNCHANGED <<params, frameVars, request_redraw, send_reset, paused, terminate, wakeup_pts,
                 wakeup_pipe, event_fd, working, drawing, playerVars, promised,
                 osd_current, dangling>>

(* The wait ends, and with it the request for a wakeup.                    *)
CondEnds ==
  /\ pc = "asleep"
  /\ asleep' = asleep \ {"vo"}
  /\ need_wakeup' = FALSE
  /\ pc' = "process" /\ wait_until' = None
  /\ UNCHANGED <<params, frameVars, request_redraw, send_reset, paused, terminate, wakeup_pts,
                 wakeup_pipe, event_fd, working, drawing, playerVars, promised,
                 osd_current, dangling>>

CondWoken == "vo" \notin asleep \/ wait_until = 0

(* poll, with the wakeup pipe flushed, and then need_wakeup.               *)
PollEnds ==
  /\ pc = "wait" /\ event_fd
  /\ wakeup_pipe' = FALSE
  /\ pc' = "polled"
  /\ UNCHANGED <<params, frameVars, request_redraw, send_reset, paused, terminate, wakeup_pts,
                 need_wakeup, asleep, event_fd, working, wait_until, drawing, playerVars,
                 promised, osd_current, dangling>>

Polled ==
  /\ pc = "polled"
  /\ need_wakeup' = FALSE
  /\ pc' = "process" /\ wait_until' = None
  /\ UNCHANGED <<params, frameVars, request_redraw, send_reset, paused, terminate, wakeup_pts,
                 wakeup_pipe, asleep, event_fd, working, drawing, playerVars,
                 promised, osd_current, dangling>>

PollWoken == wakeup_pipe \/ wait_until = 0

Exit ==
  /\ pc = "exit"
  /\ ForgetFrames(None)
  /\ pc' = "exited"
  /\ UNCHANGED <<params, rendering, dropped_frame, request_redraw, send_reset, paused, terminate,
                 wakeup_pts, sleepVars, event_fd, working, wait_until, drawing, playerVars,
                 promised, osd_current>>

(***************************************************************************)
(* The player: one iteration of its loop after the other, each of which    *)
(* may write video, or do something else a command asks for.               *)
(***************************************************************************)

(* The first steps of a function that runs on the VO thread: queue the     *)
(* call; then wake the thread, and block until it is done.                 *)
Call(kind, p, then) ==
  /\ call' = [kind |-> kind, done |-> FALSE, params |-> p]
  /\ after' = then
  /\ player' = "signal"

Signal ==
  /\ player = "signal"
  /\ WakeupLocked
  /\ player' = "blocked"
  /\ UNCHANGED <<params, frameVars, request_redraw, send_reset, paused, terminate, wakeup_pts,
                 event_fd, threadVars, call, after, next, player_paused, syncing, pool,
                 promised, osd_current, dangling>>

Returned ==
  /\ player = "blocked" /\ call.done
  /\ player' = after
  /\ call' = NoCall /\ after' = "run"
  /\ UNCHANGED <<params, frameVars, request_redraw, send_reset, paused, terminate, wakeup_pts,
                 sleepVars, event_fd, threadVars, next, player_paused, syncing,
                 pool, promised, osd_current, dangling>>

(* vo_set_paused, up to its call.                                          *)
SetPausedRegion(b) ==
  /\ paused' = b
  /\ request_redraw' = (request_redraw \/ (b /\ ~paused /\ dropped_frame))

(* pause_player and unpause_player                                         *)
PausePlayer ==
  /\ player = "run"
  /\ player_paused' \in Pauses \ {player_paused}
  /\ SetPausedRegion(player_paused')
  /\ Call("control", None, "run")
  /\ UNCHANGED <<params, frameVars, send_reset, terminate, wakeup_pts, sleepVars, event_fd,
                 threadVars, next, syncing, pool, promised, osd_current, dangling>>

(* The OSD changes, and handle_osd_redraw or the opening of a window asks  *)
(* for it to be drawn.                                                     *)
VoRedraw(from) ==
  /\ player = from
  /\ params # None
  /\ osd_current' = FALSE
  /\ request_redraw' = TRUE
  /\ IF request_redraw THEN UNCHANGED sleepVars ELSE WakeupLocked
  /\ player' = "run"
  /\ UNCHANGED <<params, frameVars, send_reset, paused, terminate, wakeup_pts, event_fd,
                 threadVars, call, after, next, player_paused, syncing, pool, promised,
                 dangling>>

HandleOsdRedraw == VoRedraw("run")
WindowRedraw == VoRedraw("window_paused")

(* reset_video_state: a seek, or the end of the video chain.               *)
ResetVideoState ==
  /\ ForgetFrames(current_frame)
  /\ send_reset' = TRUE
  /\ WakeupLocked
  /\ next' = None
  /\ syncing' = TRUE
  /\ promised' = FALSE

Seek ==
  /\ player = "run"
  /\ ResetVideoState
  /\ UNCHANGED <<params, rendering, dropped_frame, request_redraw, paused, terminate,
                 wakeup_pts, event_fd, threadVars, player, call, after, player_paused, pool,
                 osd_current>>

(* handle_force_window when there is no video                              *)
ForceWindow ==
  /\ player = "run"
  /\ next = None /\ syncing
  /\ Call("reconfig", Forced, "window")
  /\ promised' = FALSE
  /\ UNCHANGED <<params, frameVars, request_redraw, send_reset, paused, terminate, wakeup_pts,
                 sleepVars, event_fd, threadVars, next, player_paused, syncing, pool,
                 osd_current, dangling>>

(* uninit_video_out, up to the join of vo_destroy                          *)
VoDestroy ==
  /\ player = "run" \/ (player = "window" /\ params = None)
  /\ ResetVideoState
  /\ Call("destroy", None, "joining")
  /\ UNCHANGED <<params, rendering, dropped_frame, request_redraw, paused, terminate,
                 wakeup_pts, event_fd, threadVars, player_paused, pool, osd_current>>

(* The window is there: it is paused, and redrawn.                         *)
WindowOpened ==
  /\ player = "window" /\ params # None
  /\ SetPausedRegion(TRUE)
  /\ Call("control", None, "window_paused")
  /\ UNCHANGED <<params, frameVars, send_reset, terminate, wakeup_pts, sleepVars, event_fd,
                 threadVars, next, player_paused, syncing, pool, promised, osd_current,
                 dangling>>

(* write_video                                                             *)
WritesVideo == player = "run" /\ (player_paused => syncing)

Decode ==
  /\ WritesVideo /\ next = None
  /\ next' \in Params \cup {"eof"}
  /\ UNCHANGED <<params, frameVars, request_redraw, send_reset, paused, terminate, wakeup_pts,
                 sleepVars, event_fd, threadVars, player, call, after, player_paused, syncing,
                 pool, promised, osd_current, dangling>>

StillDisplaying ==
  /\ hasframe
  /\ \/ rendering
     \/ frame_queued # None
     \/ /\ current_frame # None
        /\ IF current_frame.synced THEN current_frame.left > 0 ELSE current_frame.end > 0

(* At the end, or before the VO gets other parameters, the frame on the    *)
(* screen is displayed to its end.                                         *)
AwaitOldFrame ==
  /\ WritesVideo /\ next \notin {None, params}
  /\ next = "eof" \/ StillDisplaying
  /\ promised' = StillDisplaying
  /\ UNCHANGED <<params, frameVars, request_redraw, send_reset, paused, terminate, wakeup_pts,
                 sleepVars, event_fd, threadVars, playerVars, osd_current, dangling>>

Reconfig ==
  /\ WritesVideo /\ next \in Params \ {params}
  /\ ~StillDisplaying
  /\ Call("reconfig", next, "reconfigured")
  /\ promised' = FALSE
  /\ UNCHANGED <<params, frameVars, request_redraw, send_reset, paused, terminate, wakeup_pts,
                 sleepVars, event_fd, threadVars, next, player_paused, syncing, pool,
                 osd_current, dangling>>

(* init_vo                                                                 *)
InitVo ==
  /\ player = "reconfigured" /\ params # None
  /\ SetPausedRegion(player_paused)
  /\ Call("control", None, "pipeline")
  /\ UNCHANGED <<params, frameVars, send_reset, terminate, wakeup_pts, sleepVars, event_fd,
                 threadVars, next, player_paused, syncing, pool, promised, osd_current,
                 dangling>>

(* The error path: no video chain, and a window instead.                   *)
ReconfigFailed ==
  /\ player = "reconfigured" /\ params = None
  /\ ResetVideoState
  /\ Call("reconfig", Forced, "window")
  /\ UNCHANGED <<params, rendering, dropped_frame, request_redraw, paused, terminate,
                 wakeup_pts, event_fd, threadVars, player_paused, pool, osd_current>>

(* Vo_Dmx_Init, which can fail, or Vo_Dmx_ChangeParam.                     *)
ChangePipeline ==
  /\ player = "pipeline"
  /\ pool' \in IF pool = None THEN {None, next} ELSE {next}
  /\ player' = "run"
  /\ UNCHANGED <<params, frameVars, request_redraw, send_reset, paused, terminate, wakeup_pts,
                 sleepVars, event_fd, threadVars, call, after, next, player_paused, syncing,
                 promised, osd_current, dangling>>

TakesUnqueued == params # None /\ frame_queued = None

(* vo_is_ready_for_frame; pts is -1 with display sync.                     *)
Takes ==
  /\ params # None
  /\ frame_queued = None
  /\ current_frame = None \/ current_frame.left < 1

VoIsReady(pts) ==
  /\ WritesVideo /\ next = params /\ next # None
  /\ IF Takes /\ pts >= 0 /\ (wakeup_pts = None \/ pts < wakeup_pts)
       THEN wakeup_pts' = pts /\ WakeupLocked
       ELSE UNCHANGED <<wakeup_pts, sleepVars>>
  /\ IF Takes /\ pts <= 0 THEN player' = "ready" /\ promised' = FALSE
                         ELSE promised' = TRUE /\ UNCHANGED player
  /\ UNCHANGED <<params, frameVars, request_redraw, send_reset, paused, terminate, event_fd,
                 threadVars, call, after, next, player_paused, syncing, pool, osd_current,
                 dangling>>

(* vo_queue_frame.  What a frame without display sync is repeated for is   *)
(* not counted.                                                            *)
FrameTimes == [synced : {TRUE}, left : 0 .. MaxVsyncs, end : {0}]
              \cup [synced : {FALSE}, left : {1}, end : 0 .. MaxDelay]

WakeupNever(frame) == None
WakeupAt(frame) == IF frame.synced THEN None ELSE frame.end

VoQueueFrame(time) ==
  /\ player = "ready"
  /\ hasframe' = TRUE
  /\ fresh' = fresh \cup {"queued"}
  /\ frame_queued' = [synced |-> time.synced, left |-> time.left, end |-> time.end,
                      params |-> next]
  /\ wakeup_pts' = WakeupAt(time)
  /\ WakeupLocked
  /\ next' = None
  /\ player' \in {"waiting"} \cup (IF syncing THEN {} ELSE {"run"})
  /\ UNCHANGED <<params, current_frame, hasframe_rendered, rendering, dropped_frame,
                 request_redraw, send_reset, paused, terminate, event_fd, threadVars, call,
                 after, player_paused, syncing, pool, promised, osd_current, dangling>>

(* vo_wait_frame, for the first frame or a screenshot of each frame        *)
VoWaitFrame ==
  /\ player = "waiting" /\ "player" \notin asleep
  /\ IF frame_queued # None \/ rendering
       THEN asleep' = asleep \cup {"player"} /\ UNCHANGED <<player, syncing>>
       ELSE player' = "run" /\ syncing' = FALSE /\ UNCHANGED asleep
  /\ UNCHANGED <<params, frameVars, request_redraw, send_reset, paused, terminate, wakeup_pts,
                 need_wakeup, wakeup_pipe, event_fd, threadVars, call, after, next,
                 player_paused, pool, promised, osd_current, dangling>>

Joined ==
  /\ player = "joining" /\ pc = "exited"
  /\ player' = "destroyed"
  /\ pool' = None
  /\ UNCHANGED <<params, frameVars, request_redraw, send_reset, paused, terminate, wakeup_pts,
                 sleepVars, event_fd, threadVars, call, after, next, player_paused, syncing,
                 promised, osd_current, dangling>>

(***************************************************************************)
(* Time, and the specification                                             *)
(***************************************************************************)
Closer(t) == IF t # None /\ t > 0 THEN t - 1 ELSE t
Nearer(frame) == IF frame = None THEN None ELSE [frame EXCEPT !.end = Closer(@)]

Tick ==
  /\ wakeup_pts' = Closer(wakeup_pts)
  /\ wait_until' = Closer(wait_until)
  /\ frame_queued' = Nearer(frame_queued)
  /\ current_frame' = Nearer(current_frame)
  /\ <<wakeup_pts, wait_until, frame_queued, current_frame>>'
       # <<wakeup_pts, wait_until, frame_queued, current_frame>>
  /\ UNCHANGED <<params, hasframe, hasframe_rendered, rendering, dropped_frame, fresh,
                 request_redraw, send_reset, paused, terminate, sleepVars, event_fd, pc, working,
                 drawing, playerVars, promised, osd_current, dangling>>

(* Steps the thread takes by itself, and those it only may take: both      *)
(* waits can end early.                                                    *)
ThreadStep ==
  \/ RunCall \/ Processed \/ RenderFrame \/ DrawFrame \/ FlipPage \/ ReadQueued \/ ReadSynced
  \/ LoopEnd \/ DoRedraw \/ RedrawFlip \/ WaitCond \/ (CondWoken /\ CondEnds)
  \/ (PollWoken /\ PollEnds) \/ Polled \/ Exit

PlayerInside ==
  \/ Signal \/ Returned \/ WindowOpened \/ WindowRedraw \/ InitVo \/ ReconfigFailed
  \/ ChangePipeline \/ (\E t \in FrameTimes : VoQueueFrame(t)) \/ VoWaitFrame \/ Joined
  \/ (player = "window" /\ VoDestroy)

PlayerChoice ==
  \/ PausePlayer \/ HandleOsdRedraw \/ Seek \/ ForceWindow \/ VoDestroy \/ Decode
  \/ AwaitOldFrame \/ Reconfig \/ (\E pts \in -1 .. MaxDelay : VoIsReady(pts))

Destroyed == player = "destroyed" /\ UNCHANGED vars

Next == ThreadStep \/ CondEnds \/ PollEnds \/ PlayerInside \/ PlayerChoice \/ Tick \/ Destroyed

Spec == Init /\ [][Next]_vars

FairSpec == Spec /\ WF_vars(ThreadStep) /\ WF_vars(PlayerInside) /\ WF_vars(Tick)

(***************************************************************************)
(* Properties                                                              *)
(***************************************************************************)
AllParams == Params \cup {Forced}
Times == {None} \cup 0 .. MaxDelay
Calls == [kind : {"none", "reconfig", "control", "destroy"}, done : BOOLEAN,
          params : AllParams \cup {None}]

(* Every variable keeps the shape the declarations give it.                *)
TypeOK ==
  /\ params \in AllParams \cup {None} /\ pool \in Params \cup {None}
  /\ drawing \in Params \cup {None}
  /\ frame_queued \in Frames \cup {None} /\ current_frame \in Frames \cup {None}
  /\ wakeup_pts \in Times /\ wait_until \in Times
  /\ asleep \subseteq {"vo", "player"} /\ fresh \subseteq {"queued", "current", "screen"}
  /\ next \in Params \cup {"eof", None}
  /\ call \in Calls

(* The assertions of vo_queue_frame and vo_get_delay: what                 *)
(* vo_is_ready_for_frame told the player is still so when it queues the    *)
(* frame, whatever the VO thread did meanwhile; and the ranges of all      *)
(* variables.                                                              *)
QueueAsserts ==
  /\ TypeOK
  /\ player = "ready" =>
       /\ params # None /\ frame_queued = None
       /\ current_frame = None \/ current_frame.left < 1

(* Nobody sleeps on work: while the VO thread waits for something to wake  *)
(* it, no call was announced to it, no frame is queued, and nothing it is  *)
(* to do or to tell the player comes earlier than its timeout.             *)
VoSleeps == IF event_fd THEN pc = "wait" /\ ~wakeup_pipe /\ wait_until # 0
                        ELSE "vo" \in asleep /\ wait_until # 0
NoLostWakeup ==
  VoSleeps =>
    /\ frame_queued = None /\ ~send_reset /\ ~terminate
    /\ player = "signal" \/ (call.done /\ ~request_redraw)
    /\ wakeup_pts = None \/ (wait_until # None /\ wait_until <= wakeup_pts)

(* Image parameters and image pipeline change together, though one changes *)
(* in the VO thread and the other in the player: the driver never draws    *)
(* an image of other parameters than those the pipeline works with.        *)
DrawsMatchPool == drawing # None /\ pool # None => drawing = pool

(* hasframe_rendered, which allows frames to be dropped, speaks of a frame *)
(* queued since the last seek: it is on the screen, or the thread is about *)
(* to show it.                                                             *)
RenderedSinceReset ==
  hasframe_rendered => IF pc \in {"draw", "flip"} THEN "current" \in fresh ELSE "screen" \in fresh

(* A seek can come when the VO thread has taken a frame and not yet drawn  *)
(* or flipped it (vo.c:810-824): that frame is still shown, once, and then *)
(* only redrawn.  It is the only one that was queued before the seek and   *)
(* is shown after it: the thread takes none, and only another reset turns  *)
(* a frame on the screen into an old one.  And when it is flipped, it does *)
(* not pass for the first frame after the seek.                            *)
OldFramesForgotten ==
  [][/\ pc = "render" /\ pc' = "draw" => "current" \in fresh'
     /\ "screen" \in fresh /\ "screen" \notin fresh' => hasframe /\ ~hasframe'
     /\ RenderedSinceReset']_vars

(* "After a seek, make sure to wait until the first frame is visible."     *)
FirstFrameVisible ==
  [][player = "waiting" /\ player' = "run" /\ syncing => hasframe_rendered]_vars

(* in->frame_queued is used as long as it is there.                        *)
FrameReadIsLive == ~(pc = "deref" /\ dangling)

(* "Make the VO redraw the OSD at some point in the future.": as long as    *)
(* the OSD on the screen is an old one, something is left that draws it.   *)
RedrawPending ==
  ~osd_current /\ params # None
    => request_redraw \/ frame_queued # None \/ rendering \/ pc = "redraw_flip"

(* Every call of the player returns: what runs on the VO thread, the wait  *)
(* for a frame to be shown, and the end of the thread.                     *)
CallsReturn == (player # "run") ~> (player \in {"run", "destroyed"})

(* "a wakeup some time in the future is guaranteed", and "the VO will call *)
(* the wakeup callback once it's ready": a player that is told to wait is  *)
(* woken, unless it is paused.                                             *)
CoreIsCalled == (promised /\ ~player_paused) ~> (~promised \/ player_paused)

(***************************************************************************)
(* The inductive invariant behind the safety properties                    *)
(***************************************************************************)

(* Where the VO thread is, and where the player is.                        *)
Rendering == {"render", "draw", "flip", "reread", "deref", "loop_end"}
Waiting == {"wait", "asleep"}
Places == {"process", "redraw", "redraw_flip", "polled", "exit", "exited"} \cup Rendering \cup Waiting
PlayerPlaces == {"run", "signal", "blocked", "window", "window_paused", "joining", "reconfigured",
                 "pipeline", "ready", "waiting", "destroyed"}

ControlTyped ==
  /\ pc \in Places /\ player \in PlayerPlaces
  /\ after \in {"run", "window", "window_paused", "joining", "reconfigured", "pipeline"}
  /\ event_fd \in BOOLEAN /\ need_wakeup \in BOOLEAN /\ wakeup_pipe \in BOOLEAN
  /\ "vo" \in asleep => pc = "asleep" /\ ~event_fd /\ ~need_wakeup
  /\ pc = "asleep" => ~event_fd
  /\ terminate => pc \in {"process", "exit", "exited"}

(* A call is pending while the player waits for it, and then only; what it *)
(* goes on with is what it has asked for.                                  *)
CallPending ==
  /\ ~call.done => player \in {"signal", "blocked"}
  /\ call.kind = "reconfig" => call.params # None
  /\ player \in {"signal", "blocked"} =>
       /\ after = "reconfigured" => call.kind = "reconfig" /\ call.params = next
       /\ after = "pipeline" => call.kind = "control" /\ params = next
       /\ call.kind = "reconfig" /\ after # "reconfigured" => call.params = Forced
       /\ after = "reconfigured" /\ call.done => params \in {next, None}
  /\ player = "reconfigured" => params \in {next, None}
  /\ player = "pipeline" => params = next

(* vo_is_ready_for_frame was true, and is.                                 *)
ReadyKept ==
  player = "ready" =>
    /\ next = params /\ next \in Params /\ frame_queued = None
    /\ current_frame = None \/ current_frame.left < 1

(* Every frame has the parameters the driver is configured to, and what is *)
(* drawn is the current frame; a frame is queued only with hasframe.       *)
FramesMatch ==
  /\ frame_queued # None => frame_queued.params = params /\ hasframe
  /\ current_frame # None => current_frame.params = params
  /\ pc \in {"draw", "flip"} => current_frame # None
  /\ drawing # None => pc \in {"flip", "redraw_flip"}
                       /\ current_frame # None /\ drawing = current_frame.params

(* The pipeline has other parameters only between a reconfiguration and    *)
(* the change of the pipeline, and then there is no frame.                 *)
Changing ==
  \/ player \in {"reconfigured", "pipeline"}
  \/ player \in {"signal", "blocked"} /\ after \in {"reconfigured", "pipeline"}
PoolMatches ==
  pool # None /\ params \in Params /\ pool # params
    => Changing /\ frame_queued = None /\ current_frame = None

(* Nothing woke the thread since it was at mp_dispatch_queue_process: what *)
(* it found then is still all there is to do.                              *)
Unnotified == IF event_fd THEN ~wakeup_pipe ELSE ~need_wakeup
Awaits == pc \in Waiting /\ wait_until # 0
NothingMissed ==
  Unnotified =>
    /\ pc \in Rendering \cup Waiting \cup {"redraw"} => player = "signal" \/ call.done
    /\ pc \in {"reread", "deref"} \/ (pc = "loop_end" /\ ~working) \/ Awaits
         => frame_queued = None
    /\ Awaits =>
         /\ ~send_reset
         /\ player = "signal" \/ ~request_redraw
         /\ wakeup_pts = None \/ (wait_until # None /\ wait_until <= wakeup_pts)

Inductive ==
  /\ TypeOK /\ ControlTyped /\ CallPending /\ ReadyKept /\ FramesMatch /\ PoolMatches
  /\ NothingMissed

(* What was queued before frames were last forgotten is not queued any     *)
(* more, is not repeated, and cannot replace a newer one on the screen.    *)
FreshMatches ==
  /\ fresh # {} => hasframe
  /\ frame_queued # None => "queued" \in fresh
  /\ current_frame # None /\ current_frame.left > 0 => "current" \in fresh
  /\ "screen" \in fresh => "current" \in fresh
  /\ RenderedSinceReset

=============================================================================
