# Specifications of this player

TLA+ models of the concurrent parts of this fork of mpv, with TLC runs and
proofs. The fork adds `lq/`, an image pipeline that sends every video frame to
LED hardware; the rest is mpv of 2015.

Paths and line numbers below are relative to `src/`. A definition of a module
has the name of the function it models where there is one. `PROJECT.json` maps
each definition to its lines, and lists the runs, the hazards with the
properties that cover them, and the theorems.

    tlc -workers 4 -config Dispatch.cfg MCDispatch.tla
    tlapm DispatchProofs.tla

## 1. Inventory

### Threads and how they meet

    client threads ---- Dispatch ----> core thread ---- VO thread ---- lq pipeline
      (scripts, IPC,                     |    ^              (5 converters, output,
       libmpv users)  <-- ClientEvents --+    |               Ethernet thread)
                                              +-- Demux -- demuxer thread -- cache thread

The core (playloop.c) owns `MPContext` and runs everything from commands to
decoding on one thread. Others reach it in two ways: they queue a callback, or
they stop the core and use its state themselves. Both are the dispatch queue.
The core reaches clients by their event queues. It gets packets from the
demuxer thread and hands frames to the VO thread, which copies each into the
`lq/` pipeline.

### Components

| Component | State | Operations | Hard part | Right means |
|---|---|---|---|---|
| Dispatch queue (misc/dispatch.c) | item list, `suspend_requested`, `suspended`, `exclusive_lock` | enqueue, run, suspend, resume, lock, unlock, process | the core sleeps elsewhere while it is stopped; nested suspends; items on callers' stacks | one holder of the core's state at a time; all requests served; callbacks in order |
| Client event queue (player/client.c) | event ring, `reserved_events`, `choked`, `need_wakeup` | send_event, send_reply, mpv_wait_event, mpv_wakeup, async requests, destroy | two locks, one wakeup flag, overflow, destruction with requests open | replies never lost, loss reported, no lost wakeup |
| Property observers (client.c) | observed list, event masks, values in flight | observe, unobserve, notify, fetch, deliver | value fetched by another thread while unobserved or changed again | the last value is delivered in the end |
| Client list (client.c, main.c) | list of handles, suspend counts | create, destroy, suspend, shut down | name chosen outside of the lock; core exit against creation | unique names, core ends when all are gone |
| Image pipeline (lq/vo_dmx.c, img_pool.c) | two pools of units, two queues, last ids in and out | process, convert, output, change parameters | units handed between 7 threads as bare pointers; everything non-blocking; frames finish out of order | one owner per unit, none lost, frames in order |
| Image queue (lq/img_queue.c) | ring of pointers, two positions, empty flag | send, recv | full and empty look alike | a bounded FIFO |
| Ethernet link (lq/vo_dmx_geth.c) | ring of image copies, send buffer, sync frames | queue, send thread, output thread's blank frames, start and stop | two threads share the send buffer without a lock; cancellation | no copy lost or freed twice, the display blank in the end |
| Demuxer queues (demux/demux.c) | a packet queue per stream, EOF flags, seek and switch requests, pause count | read, read async, seek, flush, select, pause, stop | lock dropped for I/O; one condition variable for both threads; refresh seeks | packets of the last seek, no gap, no hang |
| Stream cache (stream/cache.c) | ring of bytes, cached range, read position, control request | fill, read, seek, control, resize, close | reads the source without the mutex; one condition variable; aborts | the user sees the stream; calls return |
| Video output (video/out/vo.c) | queued and current frame, redraw, wakeup time | is_ready, queue_frame, wait_frame, reconfig, control, pause, seek | dispatch queue plus its own lock; two ways to sleep | of the frames queued before a seek only one already taken is shown after it; player woken when told so |
| Audio output (audio/out/pull.c, push.c) | state, ring, paused | play, pause, reset, drain | callback of the device without a lock | no silence for ever, drain ends |
| Ring, rendezvous, semaphore (misc/, osdep/) | atomic counters; list of waiters | read, write; exchange; post, wait | lock-free; address compare | FIFO; pairs meet |
| Input (input/input.c) | command queue, keys held, sources | read, feed, wait, wakeup | cancel against wait; key repeat | the core never oversleeps |
| Log buffers (common/msg.c) | ring per client, levels | write, read, destroy | writer on any thread | overflow told |
| Hooks (player/command.c) | list of hook clients, the running one | add, continue | client dies with the hook | the core goes on |
| Playback core (player/*) | MPContext | start, stop, seek, frames | what a client does while it is stopped | - |

Not modelled, and not planned: parsers (options, JSON, file formats), filters,
decoders, drivers, rendering and platform glue. They are sequential, or I/O;
PROJECT.json gives the reason for each.

## 2. Plan

Written, in the order of their importance:

1. `Dispatch`, with the abstract `CoreAccess`: everything between threads in the
   player rests on it.
2. `VoDmx`, with the abstract `FrameOutput`, and `ImgQueue`, with the abstract
   `BoundedFifo`: the code this fork adds. `GethLink` extends `ImgQueue` to the
   Ethernet output and to the start and end of the output threads.
3. `Demux`.
4. `ClientEvents` and `PropertyObserver`.
5. `VoQueue`: the player and the VO thread, which feeds the pipeline of 2.
6. `StreamCache`, with the abstract `ByteStream`: what the demuxer thread of 3
   reads from.

Left, in this order:

7. `VoDmx`: the steps of Vo_Dmx_Init that may fail before the queues exist, and
   the cancelling of converters.
8. `ClientList` and shutdown (main.c:170-227, client.c:202-250), `Hooks`,
   `InputQueue`.
9. `Ring` against BoundedFifo, `Rendezvous`, `AoPull`, `AoPush`, `LogBuffer`.

Each of the eight components has a module of proofs, `DispatchProofs` to
`StreamCacheProofs`, about all of its safety properties (section 5). Left for
proofs are the components of 7 to 9 once they are modelled.

Modules are written for it: bounds are CONSTANTS with a named assumption, there
is one action per lock region, and recursion is by functions only.

## 3. What is modelled

### Dispatch (misc/dispatch.c) and CoreAccess

One thread runs `mp_dispatch_queue_process` now and then (`CoreReady`,
`Process...`), the others call the API. All fields but `exclusive_lock` are
under `queue->lock`, so a lock region is one action. Posting the semaphore of
`wakeup_fn`, taking `exclusive_lock` and running a callback happen outside of
that lock and are actions of their own. Threads asleep on the condition variable
are the set `cond`; any of them may also wake up spuriously. `mp_dispatch_lock`
is a suspend followed by taking `exclusive_lock`, with the thread's state
`locking` remembering which call it is in.

From input.c the model takes the semaphore only: the core sleeps until it is
posted or a time-out, and then calls process.

`CoreAccess` is what users of the queue count on: one holder at a time, of the
player's own code, a callback or a client thread. `ImplementsCoreAccess` maps a
state of Dispatch to its holder, and is model-checked and proved.

Left out: destroying the queue, and time: a timed wait may end at any moment.

### VoDmx (lq/vo_dmx.c, img_pool.c) and FrameOutput

The VO thread takes a unit of the yuv pool, copies a frame into it and queues it;
a pool of converters turns it into a unit of the rgb pool; one thread outputs
these. A unit is a number, as in the code it is a pointer into the pool. For
each unit the model keeps its state, the id the code gives it, the parameters of
its image, and as history the number of the frame written into it. The id wraps
at `IdCount`, and is taken for a later one by its distance to `IdHalf` (2^32 and
2^31 in the code). Failures are choices: no memory for an image, the copy fails, the
conversion fails. Threads poll: a thread that finds nothing has no action.

The player's side is `vo_reconfig` followed by `Vo_Dmx_ChangeParam`, which
happens only when the VO has shown its last frame (video.c: write_video).

`FrameOutput` promises that accepted frames are shown once at most and in order.

Left out: start and end of the pipeline, the pixel conversion, and the frame
buffer output. The blank frame after 100 ms without input and the Ethernet
output are in `GethLink`.

### ImgQueue (lq/img_queue.c) and BoundedFifo

The ring with its positions and the empty flag, translated field by field.
`ImplementsFifo` maps it to a sequence, results of the calls included. VoDmx uses
sequences on the strength of this. Img_Queue_Init is its initial state;
Img_Queue_Deinit is left out, since no thread uses the queue then. The module
is checked as the queue of `GethLink`, in whose run a producer that looks at
`is_full` without the mutex and a consumer that drains the queue use it.

### GethLink (lq/vo_dmx_geth.c, the ends of lq/vo_dmx.c)

The output thread copies each image and queues the copy; the Ethernet thread
takes copies and sends them, packet by packet, each packet being built in the
shared send buffer and then sent, which are two actions. After `IdlePolls` polls
without an image the output thread sends a blank frame itself, through the same
buffer. Sync frames are built in one of three further buffers, chosen by an
index both threads advance. `player` is the position in Vo_Dmx_Init, running, or
Vo_Dmx_Deinit; Deinit cancels the output thread, at any of its steps, then stops the
Ethernet thread by its state variable, which then drains the queue and sends a
last blank frame. `sendto` and the creation of threads may fail; an image may
always be skipped, which stands for the frame rate control.

History: `live` is the set of allocated copies, `screen` what the display got
last for each part of the picture.

Left out: opening the socket, gamma tables, pixel formats, and restarting the
link after it was closed.

### Demux (demux/demux.c)

The demuxer thread's loop: pause, track switch, seek, read, sleep; and the calls
of the user thread. `in->lock` protects all fields. The thread drops it to call
the implementation, so `FillBuffer`, the seek and the track switch are separate
steps between which the user acts. Since the thread keeps the lock when it goes
round its loop, `locked` marks the states in which the user has to wait for it.
A packet's timestamp is its position in the file, `File` is the stream of each
packet, and each packet carries as history the seek it was read after.

The implementation is external: it reads the next packet of the file, fails at
the end, and seeks exactly. Since refresh seeks aim a little earlier, the model
goes back two packets.

Left out: max_bytes (acts like max_packs), demuxers without a thread, subtitle
streams, stream and chapter controls, the cache, packets without a timestamp.

### ClientEvents (player/client.c)

The event ring of a handle as a sequence, with `reserved_events`, `choked` and
the wakeup flag. The core sends events and replies; one thread of the client is
in `mpv_wait_event`, another in `mpv_wait_async_requests`; the client makes
asynchronous requests and finally destroys the handle. What happens under
`ctx->lock` is one action. `wait_wakeup` gives up that lock before it takes
`wakeup_lock` (client.c:282-296), so the wait takes several actions, and a
wakeup may come in between. The wait has an abstract deadline: never, later or
passed. `called` is history: the callback came since the client last read.

`run_async` has two lock regions, reserving the reply and queueing the request. They
are one action: what other threads do in between sees the reservation in either
case, and the core has the request only after the second. `mpv_detach_destroy`
likewise removes the handle and frees it in one step.

With `Concurrent = FALSE` the client's threads keep off the handle while one of
them is in `mpv_wait_async_requests`.

Left out: log messages, generated in mpv_wait_event when the ring is empty; a
client that has the core suspended as it waits; `mpv_set_wakeup_callback` and
the wakeup pipe.

### PropertyObserver (player/client.c)

The observed properties of one handle. The core changes a property and marks its
observers; the client, when it reads its events, takes the first marked observer
from `lowest_changed` on. One without a value is reported at once; for one with
a value an update is queued in the core, which fetches the value outside of
`ctx->lock`, stores it, and wakes the client, which reports it. Meanwhile the
client observes, unobserves and finally destroys the handle, waiting for
`properties_updating` to become 0. The mask of the handle, and the cached one
of all clients that is invalidated after `ctx->lock` was released, are modelled as
sets. A value is the number of changes. `told` is history: the value an
observer knows. The core that uses an observer that was freed goes to
`Undefined`, from where it does nothing any more.

Left out: several handles, observers under one reply id, values that cannot be
fetched, and one thread of the client observing a property while another is in
mpv_wait_event of the same handle.

### VoQueue (video/out/vo.c; write_video and the player's use of the VO)

The VO thread's loop: render, call the dispatch queue, sleep; the player's side:
ask whether the VO is ready, queue a frame, wait for the old one, reconfigure,
redraw, pause, seek, force a window, end. Points in time are relative to now and
count down with `Tick`. A frame is shown for a number of vsyncs (display sync) or
until a time. The thread sleeps on the condition variable `in->wakeup`, or, when
the driver has an event fd, in poll with a pipe; `EventFds` says which. The render
of a frame runs outside of the lock, and what the thread reads there without
it is a step of its own. `pool` are the parameters the image pipeline was told
(Vo_Dmx_ChangeParam), `promised`, `osd_current`, `fresh` and `dangling` are
history. `fresh` tells which of the queued frame, the current frame and the frame on
the screen were queued since frames were last forgotten (by a seek, a
reconfiguration or the end).

A seek can come between the first region of render_frame, which takes a frame, and
the second, after the flip (vo.c:810-824 run without the lock). The code then
draws and flips that old frame, and so does the model. `OldFramesForgotten` says that
it is the only one: what is taken from then on was queued after the seek, an old
frame never replaces a newer one on the screen, and the flip of the old one does not
set `hasframe_rendered`, by which frames may be dropped and which is noted
for the frame that is taken (vo.c:808). Its mutant sets the flag at the flip.

Left out: events and redraw requests of the driver, vsync statistics, drivers
that wait themselves (wait_events), screenshots.

### StreamCache (stream/cache.c) and ByteStream

The cache thread fills a ring buffer from the source; the user reads, seeks and
sends controls. `s->mutex` protects all. The thread keeps it from one round of
its loop to the next and releases it only in the read of the source and in its
sleep; `cpc = "loop"` marks the states in which the user has to wait for it. So
`FillBegin` and `FillEnd` are two actions with the user's actions in between,
and the cells being written hold nothing while the mutex is free. A cell stands
for FILL_LIMIT bytes. What a cell holds is named by its position in the source.

The user opens the cache with a prefill, which sends pings, then makes
`MaxCalls` calls of its choice and closes it. A call that waits is split at
its wait, which a signal or a time-out ends. The source may fail in a seek or
a read, playback may be aborted (`Cancel`). After an abort a control that was
given up stays pending, with an argument that is gone; the thread then finds any
size there. A control is SIZE (resizing), or SEEK, which stands for all that
move the source or must flush; either may fail.

`ByteStream` is what the demuxer expects: bytes in order from the position it
knows, and an empty read only at the end or after an error or abort.

Of `resize_cache` the model has the assertion on the length of the second copy: if
it fails both threads stop for good, `cpc = "aborted"`. Making the cache of an
unseekable stream smaller is excluded by `ShrinkLinear = FALSE` (section 7).

Left out: values the cache only passes on (length, tags, start time), and
STREAM_CTRL_RESUME_CACHE, which is sent by nobody. The counters `reads` and
`retry` have no effect (section 7).

## 4. Runs

Passing runs are exhaustive for their constants.

| Run | Instance | States | Shows |
|---|---|---|---|
| dispatch | 2 threads with 2 calls and 1 call, 2 nested suspends | 133 000 | exclusive access, stack items live and in order, the inductive invariant; every request served, every call returns, the core goes on; implements CoreAccess |
| vodmx_safety | 2 converters, queues of 1, 3-bit ids, 2 parameters, 3 frames | 1 256 000 | one owner per unit, yuv units kept, pool size, images intact; implements FrameOutput |
| vodmx_liveness | 1 converter, 5 frames | 73 000 | frames leave the pipeline |
| geth | 3 images, queue of 2, 2 packets, 1 failure | 186 000 | copies owned once, ring implements BoundedFifo, display blank when idle and when closed, Deinit returns |
| demux | 2 streams, 3 packets, queues of 2, 1 seek, 1 switch | 347 000 | no lost wakeup, pause stops, packets of the last seek without a gap, no missed packet; calls return, requests reach the demuxer |
| vo_safety | 2 parameters, both kinds of sleep, pauses, delay 1, 2 vsyncs | 1 478 000 | assertions of vo_queue_frame, no lost wakeup, the pipeline has the parameters of what is drawn, frames of before a seek forgotten but for one already taken |
| vo_liveness | 1 parameter, condition variable only | 221 000 | calls return, the player is woken when it was told so |
| stream_cache | source of 6 cells, buffer of 4 and 5, chunks of 2, 3 calls, 1 failure, abort | 644 000 | bytes intact, back buffer kept, calls return; implements ByteStream |
| client_events | ring of 2, 4 events, 3 requests, 1 mpv_wakeup | 119 000 | replies safe and in order, loss reported, no lost wakeup, callbacks; waits end |
| observers | 1 property, 2 observers, 2 changes | 182 000 | updates counted, masks fresh, changes arrive |
| vodmx_leak, demux_eof | | | each finds the violation described in section 7 |

Further configurations reproduce the other observations of section 7; each is
named there, and ends in a counterexample.

### Bounds, and why they are enough

- Dispatch: two threads beside the core are the fewest that can compete for
  `exclusive_lock`, nest suspends in each other and sleep together; two nested
  suspends reach the counter's values 0 to 4. The thread with two calls queues
  an item while its former one is running. The proofs remove these bounds for
  the safety properties, as they do for the components below.
- VoDmx: two converters can overtake one another, queues of one fill up at once.
  Three frames fill both and leave one over. Ids have three bits in the safety
  run, so that they do not reach half of their range (see section 7). A second
  set of parameters shows the change of parameters in both directions.
- GethLink: a queue of two wraps, is full, and has a state in between; three
  images overflow it. Two packets are the fewest a blank frame can come between.
  One sync frame and one idle poll suffice for what the properties say of the
  picture; GethLink_sync has the three of the code.
- Demux: two streams and three packets; queues of two packets overflow as one
  stream is read ahead for the other. One seek and one switch interleave
  with a read in progress and with each other in both orders.
- VoQueue: time goes on one tick at a time, and a point in time is past, now or
  ahead with a delay of 1. Two vsyncs are a frame that is shown again. Nothing
  counts frames: the player decodes without end.
- StreamCache: the buffer wraps (its 4 or 5 cells are fewer than the source's
  6), has a back buffer of 2 that reads push data into, and is filled in chunks
  that end in its middle and at its end. Seeks go back, forward within
  `seek_limit`, and beyond. Three calls are enough for a seek, a resize and a read
  in any order.
- ClientEvents: a ring of two is full with one reply reserved and one event
  queued. With four events it overflows, is read empty, and overflows again.
- PropertyObserver: two observers of one property make `lowest_changed` matter;
  a second change overtakes a value in flight. With one property a mask that was
  cached too early can only name a property that is observed no longer, which is
  harmless; that it lacks one which is observed, so that a change is not
  sent, needs two. `ChangesArrive` is therefore not listed for that hazard, but
  `MasksFresh`, which forbids both and is proved for any set of names.

The bounds on requests, frames, seeks, switches, calls, failures and events are in
the guards of the actions that count, and every bounded constant is marked as a
bound where it is declared. Deadlock is checked for Dispatch, VoQueue and
PropertyObserver. The others stop legitimately: when the frames, the events or
the user's calls are used up, or the component is closed.

### Fairness

- Dispatch: weak fairness for the core inside process and for the steps of a
  client inside a call, among which are the unlock and the resume it is bound
  to. Nothing makes a client begin a call. The core comes to the queue
  when its semaphore was posted; a time-out of mp_input_wait is possible and
  never assumed. Taking `exclusive_lock` is only weakly fair, since POSIX
  mutexes promise no more; a waiting thread gets it in the end because the
  others make finitely many requests. Without that bound a thread could be
  overtaken for ever, which only a fair mutex prevents.
- VoDmx: weak fairness for each thread: none ever blocks, and each polls.
- Demux: weak fairness for the demuxer thread (its I/O returns) and for the
  user's steps inside a call. The user is bound to unpause.
- GethLink: weak fairness for the two threads, which sleep by time-outs only, and
  for the steps of Vo_Dmx_Deinit. That Deinit is called is not assumed.
- VoQueue: weak fairness for the VO thread, for the player inside a call, and
  for time.
- StreamCache: weak fairness for the cache thread (the source answers), strong
  fairness for the user inside a call: with time-outs the cache thread may take the
  mutex again and again, and the user's steps are enabled in between only. A
  mutex that is released again and again is got in the end. That the
  time-outs come is not assumed.
- PropertyObserver: weak fairness for the core and for the client that reads its
  events when it was woken.
- ClientEvents: the core serves its queue (this is what `RequestsServed` of
  Dispatch says), and threads inside a call run. Deadlines need not pass.

Spurious wakeups are possible everywhere and nowhere assumed.

## 5. Proofs

Every safety property, action property and refinement that a run of section 4
checks is a theorem, for all values of the constants that their named
assumptions allow: any number of threads, converters, streams, observers or
image parameters, any length of queues, buffers and files, any number of calls.
There is one module of proofs per component. Each follows the same argument:
an inductive invariant, which TLC confirms when it is added to the component's
configuration; one lemma per action that it is preserved; and from it the
properties.
What each invariant has to know beside the types, and why:

- `DispatchProofs`, `Inductive`: `suspend_requested` is the number of suspends
  open over all threads; a thread owns `exclusive_lock` exactly from taking it in
  mp_dispatch_lock to its unlock, and the core exactly while it runs a callback;
  a thread that has come back from a suspend implies that the core is in process.
  No safety property is inductive without the count: the core may leave
  process when the counter is 0, so it must be at least 1 for each thread that
  relies on it. The count is the cardinality of `OpenSuspends`, to which a suspend
  adds and from which a resume removes one element. `StackItems` has an invariant
  of its own: items are queued in the order of their numbers, the one in work
  precedes them, and none is younger than its thread's last request.
- `VoDmxProofs`, `Inductive`: queues, converters and the ends of the pipeline have
  different units, and a unit of the yuv pool is USED exactly when one of them has
  it; of the rgb pool this is an implication only, since units are lost (section 7).
  What is behind a unit is an accepted frame under its id (`FramesKnown`).
  `RgbPoolSuffices` counts: the owners of rgb units are one fewer than the units.
  `FrameOutputImplemented` has the hypothesis `MaxFrames <= IdHalf`, that the ids do
  not reach half of their range; beyond it the refinement is false (section 7).
- `GethLinkProofs`, `Inductive`: the state of the ring and its contents
  (`RingOK`), at which steps a thread can be for a step of the player, that a copy
  is with the ring or one thread, and how far the screen is cleared at each
  step of the last blank frame. `RingIsFifo` proves img_queue.c as it stands: its calls
  in any order implement BoundedFifo, for any size. `FifoImplemented` is the same
  for the ring in use.
- `DemuxProofs`, `Inductive`: the flags the two threads leave for each other
  (`FlagsAgree`), and `LastPos`: a stream's `last_pos` is its last packet, and the thread
  has read no packet of the stream beyond it that the stream does not have, unless
  a refresh seek has yet to fetch it. Without this, `PacketsInOrder` is lost at a
  refresh seek, which must skip exactly what the queue has. The position a refresh
  seek aims at is the least of the streams' `base_ts`.
- `VoQueueProofs`, `Inductive`: which call is pending for each step of the
  player (`CallPending`), that frames, driver and pipeline have the same parameters
  except between a reconfiguration and the change of the pipeline, when there is
  no frame (`FramesMatch`, `PoolMatches`), and `NothingMissed`: if nobody has woken
  the thread since it last called the dispatch queue, then what it found there is
  still all there is to do. `NoLostWakeup` alone says nothing about the steps
  between the look and the sleep. `FreshMatches`, beside it, is for
  `OldFramesForgotten`: a queued frame is new, a current frame that is to be repeated is
  new, and a new frame on the screen has no older one behind it.
- `StreamCacheProofs`, `Inductive`: the cached range with what a read in progress
  adds to it fits the buffer (`RangeFits`), so that the cells being written are none
  of the range, and each position of the range has its byte in its cell
  (`BytesThere`); a user outside of a control is where the cache has it
  (`UserTracked`). The core are `CellsInRange`, that positions at most a buffer apart
  have different cells although the offset moves, and the copying of
  resize_cache, whose two parts and their lengths are proved for any two sizes.
  Hypothesis: `LinearGrows`, that the cache of an unseekable stream is not made
  smaller; StreamCache_linear shows that the bytes are lost otherwise.
- `ClientEventsProofs`: four invariants. `Capacity`: `reserved_events` is the number
  of requests the core has, and the ring has room for them beside what is queued;
  `ReplyFits` alone is not inductive, since that one reply fits says nothing about the
  next. `Wakes`: whoever is about to sleep finds `need_wakeup` set if the reason to
  sleep has gone, and whoever sleeps has a reason and `need_wakeup` is clear.
  It contains `OneWaits`, that the two threads do not wait at the same time, and
  holds for `Concurrent = FALSE`; without it ClientEvents_waiters shows the
  violation. `Announced` adds to it that a client which goes away empty-handed leaves
  `need_wakeup` clear. `Quiet`: no request is open once mpv_wait_async_requests is
  done. `Ordered`: the entries of each kind are numbered without a gap, so that
  what the client takes is the next one.
- `PropertyObserverProofs`, `Inductive`: an observer is in the list once, every
  update the core has yet to store is counted, and `MasksFresh`, which is
  inductive with the types. What is proved ends where a freed observer is
  used (section 7), `Undefined`.

The proofs use no theorem that takes an operator: where an argument needs the
least element of a set of numbers (`LeastOfNat`), it is taken from the library's
well-foundedness of inclusion on finite sets.

What is only model-checked is liveness: `CallsServed`, `CoreReturns`,
`FramesLeave`, `GoesBlank`, `DeinitEnds`, `RequestsServed`, `CallsReturn`,
`CoreIsCalled`, `WaitsEnd`, `ChangesArrive`. It needs ENABLED and fairness, which the
prover does not support.

## 6. Hazards

PROJECT.json lists what in this code is hard to test, each at its line with the
properties that cover it. Those without a property are in section 7, or belong
to what section 2 still lists: the name of a new client is looked for before
`clients->lock` is taken (client.c:211), so two clients made at once may get one
name; Vo_Dmx_Deinit reads `p_img_queue_rgb` (vo_dmx.c:350), which does not exist
when Vo_Dmx_Init fails early.

## 7. Disagreements between code and documentation

Each has a configuration that ends in a counterexample. Runs of PROJECT.json:

- vodmx_leak: when a conversion fails, `_thread_yuv2rgb` returns the yuv unit
  but not the rgb unit, though the comment at this place says it puts that one
  back (vo_dmx.c:731). The same happens when the rgb queue is full. When all are
  lost, the converters poll for ever and the display stands still; `FramesLeave`
  holds only until then.
- demux_eof: `demux_seek` during a read that fails at the end of the file. The
  read marks all streams as ended after the seek has reset them (demux.c:437),
  and the player may take it for the end of the file. The next read after the
  seek corrects it.

Configurations beside these:

- StreamCache_resize (`ResizeCopies`): `assert(read_2 == copy_len)` of
  resize_cache, "This shouldn't happen, unless copy_len was computed
  incorrectly" (cache.c:316). It fails whenever the cache is resized while the read
  position is past the cached range: after a forward seek within `seek_limit` that
  the thread has not yet caught up with, or past the end of the file. `copy_len`
  then counts positions between the end of the range and the read position. The
  player resizes on setting the property cache-size (command.c:1382).
- StreamCache_linear (`BytesIntact`): a smaller cache for a stream that cannot
  seek drops data that was read ahead (cache.c:306). What the source delivers next is
  then stored at the position of the dropped data, though `buffer[...]`
  "corresponds to the byte at max_filepos" (cache.c:92).
- Demux_overflow (`NoMissedCallback`): full queues are reported as EOF to streams
  without packets, but without the callback the comment on demux_set_wakeup_cb
  promises.
- Demux_refresh (`RefreshGrabsMissing`): a track is selected while the demuxer
  thread is reading, well ahead of the player. A packet of the new track that is
  added before the thread sees the switch sets `last_pos`, so that the refresh seek
  marks this stream too (demux.c:495) and drops everything before that packet:
  the packets "missing" from its queue, which the refresh is to grab
  (demux.c:471-472), stay missing.
- ClientEvents_waiters (`NoLostWakeup`, with `Concurrent = TRUE`): threads in
  mpv_wait_event and in mpv_wait_async_requests share one `need_wakeup`; the
  second can take the wakeup of the first.
- PropertyObserver_last (`LastValueArrives`): the property changes between the
  core's store of a value and its report. The change marks the observer, which is
  marked already; gen_property_change_event clears the mark and `need_new_value`
  at once and reports the older value (client.c:1470-1480). The last one is not
  fetched until it changes again; DOCS/man/lua.rst:307 says that of a bunch of
  changes "only the last change triggers the change function".
- PropertyObserver_freed (`UpdatesLive`): the property changes while its value
  is fetched, the client queues a second update, the first one finishes and
  clears `updating`; unobserving then frees the observer at once, and the core
  still has the second update with a pointer to it. `UpdatesCounted` and
  `ChangesArrive` hold until then.
- VoQueue_redraw (`RedrawPending`): a redraw requested while a frame is drawn is
  cleared when that frame is done (vo.c:836-840), although its OSD is the older
  one; "Make the VO redraw the OSD at some point in the future" (vo.c:978).
- VoQueue_first (`FirstFrameVisible`): a first frame with no vsyncs to show is
  dropped (vo.c:795), and vo_wait_frame returns; "make sure to wait until the
  first frame is visible" (video.c:1297).
- GethLink_sync (`SyncTables`): both threads choose the same sync frame, one moves
  the index on, and the other fills the frame of one colour with the gamma table of the
  next; "3 sync frame: 0-r, 1-g, 2-b" (vo_dmx_geth.c:88).

Further observations that have no run of their own:

- client.h:110 says asynchronous calls are strictly ordered "even with
  synchronous calls". A synchronous call takes `mp_dispatch_lock`
  (client.c:921-926) and overtakes what the client has queued.
- dispatch.c:256-258 says that under the lock "no other thread can get dispatch
  items completed"; an item's `completed` is set (203) after `exclusive_lock` is
  released (198), so a thread  with the lock may see another's mp_dispatch_run
  return. Its callback has run  before, so the core's state is not affected.
- vo_dmx.c:822 decides by the highest bit of the 32-bit ids. When they have just
  passed the middle of their range, or wrapped, a late frame passes for a newer
  one and is shown after it. `ImplementsFrameOutput` is violated once `MaxFrames`
  is above `IdHalf`. At 60 frames per second the middle is more than a
  year away.
- demux.c:439: a second EOF is not called back when `ds_get_packets` has reset
  the stream's EOF in between (for example by `demux_get_next_pts`).
- vo.c:850: render_frame's result reads `in->frame_queued`, and what it points to,
  after it has released the lock that protects it (vo.c:123). `FrameReadIsLive`
  of VoQueue states that the frame has not been freed by then; it is violated by a seek
  at that moment.
- cache.c:506: `retry = s->reads - 1` with the comment "try at least 1 read on EOF".
  Since `reads` never falls, `s->reads >= retry` always holds: a read at a
  position whose `eof` is still set returns without a further attempt.
- cache.c:575: after an abort the control stays in `s->control`, and the thread
  executes it later with a pointer to data of a caller that has returned. If it
  moves the source, `read_filepos` no longer mirrors `cache->pos`; ByteStream allows for
  this after an abort (`ReadElsewhere`).
- vo_dmx.c:208 ignores a failure of Vo_Geth_Init, which has then closed the socket
  and freed the queue. The Ethernet thread sees it (vo_dmx_geth.c:332) and ends; the
  output thread goes on to Vo_Geth_queue, which looks at `is_full` of the
  queue that is not there (vo_dmx_geth.c:283). The model has no failing Vo_Geth_Init.
- vo_dmx_geth.c:345: the `goto EXIT` for an image with several planes would leak the
  copy. It is not reached: every image of the rgb pool has the format IMG_FMT_OUT
  (vo_dmx.c:242, config_vodmx.h:19), which is packed, and a copy keeps its format.
