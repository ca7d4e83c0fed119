------------------------------- MODULE Demux -------------------------------
(***************************************************************************)
(* The packet queues of demux/demux.c: a demuxer thread reads ahead from   *)
(* the file and fills one queue per stream; the user thread (the playback  *)
(* core) takes packets, seeks, switches tracks, pauses and stops it.       *)
(*                                                                         *)
(* Granularity.  in->lock protects every field but 'file', so the code     *)
(* between taking and releasing it is one action, or a few with 'locked'   *)
(* set in between.  The demuxer implementation (desc->fill_buffer and      *)
(* desc->seek) runs without the lock.  One condition variable, signalled   *)
(* and never broadcast, is shared by both threads.                         *)
(*                                                                         *)
(* The model starts after demux_start_thread; in->threading is TRUE.       *)
(* A packet's position in the file is also its timestamp.                  *)
(***************************************************************************)
EXTENDS Integers, Sequences, FiniteSets

CONSTANTS
  Streams,
  File,         \* the file: the stream of each packet, in order
  MinSecs,      \* min_secs, in packets of the file
  MaxPacks,     \* max_packs (max_bytes is left out: it acts the same way)
  MaxSeeks,     \* bound: seeks by the user
  MaxSwitches   \* bound: track switches by the user

ASSUME ConstantsAssumption ==
  /\ IsFiniteSet(Streams)
  /\ File \in Seq(Streams)
  /\ MinSecs \in Nat
  /\ MaxPacks \in Nat \ {0}
  /\ MaxSeeks \in Nat
  /\ MaxSwitches \in Nat

NOPTS == -1  \* MP_NOPTS_VALUE, and "no packet yet" of last_pos

VARIABLES
  ds,                   \* the struct demux_stream of each stream
  last_eof, eof,
  tracks_switched, start_refresh_seek,
  seeking, seek_pts,
  thread_request_pause, thread_paused, thread_terminate,
  wakeup,               \* who sleeps on the condition variable
  locked,               \* the demuxer thread holds in->lock between two actions
  pc,                   \* where the demuxer thread is
  file,                 \* demuxer implementation: position of the packet read last
  fill_eof,             \* result of fill_buffer
  user,                 \* where the user thread is, with the arguments of its call
  awaiting,             \* history: streams the user waits for the callback of
  epoch,                \* history: number of seeks the user has made
  origin,               \* history: the seek the file position comes from
  overflow,             \* history: a full queue was reported as EOF
  switches              \* history: number of track switches

threadVars == <<pc, file, fill_eof, locked, origin>>
requestVars == <<tracks_switched, start_refresh_seek, seeking, seek_pts,
                 thread_request_pause, thread_paused, thread_terminate>>
historyVars == <<awaiting, epoch, overflow, switches>>
vars == <<ds, last_eof, eof, requestVars, wakeup, threadVars, user, historyVars>>

Packets == [pos : 1 .. Len(File), seek : 0 .. MaxSeeks]

(* ds_flush                                                                *)
Flushed(s) ==
  [ds[s] EXCEPT !.queue = <<>>, !.last_ts = NOPTS, !.base_ts = NOPTS, !.eof = FALSE,
                !.active = FALSE, !.refreshing = FALSE, !.last_pos = NOPTS, !.returned = 0]

Init ==
  /\ ds \in [Streams -> [selected : BOOLEAN, active : {FALSE}, eof : {FALSE},
                         refreshing : {FALSE}, queue : {<<>>}, base_ts : {NOPTS},
                         last_ts : {NOPTS}, last_pos : {NOPTS}, returned : {0}]]
  /\ last_eof = FALSE /\ eof = FALSE
  /\ tracks_switched = FALSE /\ start_refresh_seek = FALSE
  /\ seeking = FALSE /\ seek_pts = 0
  /\ thread_request_pause = 0 /\ thread_paused = FALSE /\ thread_terminate = FALSE
  /\ wakeup = {}
  /\ locked = FALSE
  /\ pc = "loop" /\ file = 0 /\ fill_eof = FALSE /\ origin = 0
  /\ user = [at |-> "idle"]
  /\ awaiting = {} /\ epoch = 0 /\ overflow = FALSE /\ switches = 0

Silent == wakeup

(* pthread_cond_signal: wakes one of the threads that sleep on it.  Never  *)
(* more than one does (NotBothAsleep).                                     *)
Signalled == {}

NobodyCalled == UNCHANGED awaiting

(* in->wakeup_cb: the user will poll its streams again.                    *)
NotifyUser == awaiting' = {}

(***************************************************************************)
(* The demuxer thread                                                      *)
(***************************************************************************)

Packs == LET Total[S \in SUBSET Streams] ==
               IF S = {} THEN 0
               ELSE LET s == CHOOSE x \in S : TRUE
                    IN Len(ds[s].queue) + Total[S \ {s}]
         IN Total[Streams]

OnlyTopUp == \E s \in Streams : ds[s].active /\ ds[s].last_ts \in 0 .. ds[s].base_ts + MinSecs - 1

ReadMore ==
  \E s \in Streams :
    /\ ds[s].active
    /\ \/ ds[s].queue = <<>>
       \/ /\ ds[s].last_ts # NOPTS
          /\ ds[s].last_ts >= ds[s].base_ts
          /\ ds[s].last_ts - ds[s].base_ts < MinSecs

Overflow == Packs >= MaxPacks

(* The end of an iteration without work: signal, then wait.                *)
Sleep ==
  /\ wakeup' = Signalled \cup {"thread"}
  /\ pc' = "wait"
  /\ locked' = FALSE

(* Continue without the lock.                                              *)
Unlocked(next) ==
  /\ pc' = next
  /\ locked' = FALSE

CanIterate == pc = "loop" \/ (pc = "wait" /\ "thread" \notin wakeup)

NotPausing == FALSE

Pausing == thread_request_pause > 0

ThreadExit ==
  /\ CanIterate
  /\ thread_terminate
  /\ Unlocked("exited")
  /\ UNCHANGED <<ds, last_eof, eof, requestVars, wakeup, file, fill_eof, origin, user, historyVars>>

ThreadPause ==
  /\ CanIterate
  /\ ~thread_terminate
  /\ Pausing
  /\ thread_paused' = TRUE
  /\ Sleep
  /\ UNCHANGED <<ds, last_eof, eof, tracks_switched, start_refresh_seek, seeking, seek_pts,
                 thread_request_pause, thread_terminate, file, fill_eof, origin, user, historyVars>>

KeepsPaused ==
  /\ CanIterate
  /\ ~thread_terminate
  /\ ~Pausing
  /\ UNCHANGED <<thread_request_pause, thread_paused, thread_terminate>>

(* What the thread tests before any work.                                  *)
Working ==
  /\ CanIterate
  /\ ~thread_terminate
  /\ ~Pausing
  /\ thread_paused' = FALSE
  /\ UNCHANGED <<thread_request_pause, thread_terminate>>

ExecuteTrackswitch ==
  /\ Working
  /\ tracks_switched
  /\ tracks_switched' = FALSE
  /\ Unlocked("switch")
  /\ UNCHANGED <<ds, last_eof, eof, start_refresh_seek, seeking, seek_pts, wakeup, file,
                 fill_eof, origin, user, historyVars>>

(* Takes the queued seek; the thread's copy of the target is in seek_pts,  *)
(* which only a later demux_seek changes.                                  *)
ExecuteSeek ==
  /\ Working
  /\ ~tracks_switched
  /\ seeking
  /\ seeking' = FALSE
  /\ fill_eof' = FALSE
  /\ file' = seek_pts - 1
  /\ origin' = epoch
  /\ Unlocked("seek")
  /\ UNCHANGED <<ds, last_eof, eof, tracks_switched, start_refresh_seek, seek_pts, wakeup,
                 user, historyVars>>

(* read_packet up to the release of the lock.                              *)
ReadPacket ==
  /\ Working
  /\ ~tracks_switched /\ ~seeking
  /\ ~eof /\ ReadMore /\ ~Overflow
  /\ Unlocked("fill")
  /\ UNCHANGED <<ds, last_eof, eof, tracks_switched, start_refresh_seek, seeking, seek_pts,
                 wakeup, file, fill_eof, origin, user, historyVars>>

(* read_packet reports EOF to the streams without packets if the queues    *)
(* are full, whether anyone wants to read or not.                          *)
ReadPacketOverflow ==
  /\ Working
  /\ ~tracks_switched /\ ~seeking
  /\ ~eof /\ Overflow
  /\ ds' = [s \in Streams |-> [ds[s] EXCEPT !.eof = @ \/ ds[s].queue = <<>>]]
  /\ overflow' = TRUE
  /\ Sleep
  /\ UNCHANGED <<last_eof, eof, tracks_switched, start_refresh_seek, seeking, seek_pts,
                 file, fill_eof, origin, user, awaiting, epoch, switches>>

NothingToRead ==
  /\ Working
  /\ ~tracks_switched /\ ~seeking
  /\ eof \/ (~ReadMore /\ ~Overflow)
  /\ Sleep
  /\ UNCHANGED <<ds, last_eof, eof, tracks_switched, start_refresh_seek, seeking, seek_pts,
                 file, fill_eof, origin, user, historyVars>>

(* demux_add_packet, called by fill_buffer with the packet at 'file'.      *)
KeepSeeking(s) == ds[s].selected

Wanted(s) == ds[s].selected /\ ~seeking

DropsOlder(s, pos) == ds[s].refreshing /\ pos < ds[s].last_pos

(* A stream in refresh drops what it has already seen.                     *)
DropsSeen(s, pos) == ds[s].refreshing /\ pos <= ds[s].last_pos

AddedNext(s, pos) ==
  [ds[s] EXCEPT !.queue = Append(@, [pos |-> pos, seek |-> origin]), !.last_pos = pos + 1,
                !.eof = FALSE]

Added(s, pos) ==
  LET last == IF pos > ds[s].last_ts THEN pos ELSE ds[s].last_ts
  IN [ds[s] EXCEPT !.queue = Append(@, [pos |-> pos, seek |-> origin]),
                   !.last_pos = pos,
                   !.eof = FALSE,
                   !.refreshing = @ /\ pos < ds[s].last_pos,
                   !.last_ts = last,
                   !.base_ts = IF @ = NOPTS THEN last ELSE @]

Dropped(s, pos) == [ds[s] EXCEPT !.refreshing = @ /\ pos < ds[s].last_pos]

demux_add_packet(s, pos) ==
  IF Wanted(s) /\ ~DropsSeen(s, pos)
    THEN /\ ds' = [ds EXCEPT ![s] = Added(s, pos)]
         /\ eof' = FALSE /\ last_eof' = FALSE
         /\ IF ds[s].queue = <<>> THEN NotifyUser ELSE UNCHANGED awaiting
         /\ wakeup' = Signalled
    ELSE /\ ds' = [ds EXCEPT ![s] = Dropped(s, pos)]
         /\ UNCHANGED <<eof, last_eof, awaiting, wakeup>>

(* desc->fill_buffer reads the next packet of the file, or fails at its    *)
(* end.  No lock is held but inside of demux_add_packet.                   *)
FillBuffer ==
  /\ pc = "fill"
  /\ IF file < Len(File)
       THEN /\ file' = file + 1
            /\ fill_eof' = FALSE
            /\ demux_add_packet(File[file + 1], file + 1)
       ELSE /\ fill_eof' = TRUE
            /\ UNCHANGED <<ds, eof, last_eof, awaiting, wakeup, file>>
  /\ pc' = "filled"
  /\ UNCHANGED <<requestVars, locked, origin, user, epoch, overflow, switches>>

(* The end of read_packet, under the lock again.                           *)
FillDone ==
  /\ pc = "filled"
  /\ ds' = IF fill_eof THEN [s \in Streams |-> [ds[s] EXCEPT !.eof = TRUE]] ELSE ds
  /\ IF fill_eof /\ ~last_eof
       THEN NotifyUser /\ wakeup' = Signalled
       ELSE UNCHANGED <<awaiting, wakeup>>
  /\ eof' = fill_eof /\ last_eof' = fill_eof
  /\ pc' = "loop" /\ locked' = TRUE
  /\ UNCHANGED <<requestVars, file, fill_eof, origin, user, epoch, overflow, switches>>

(* The seek of the implementation returns.                                *)
SeekReturns ==
  /\ pc = "seek"
  /\ pc' = "loop" /\ locked' = TRUE
  /\ UNCHANGED <<ds, last_eof, eof, requestVars, wakeup, file, fill_eof, origin, user, historyVars>>

(* The least timestamp that is known, as the loop over MP_PTS_MIN finds it. *)
StartTs ==
  LET known == {ds[s].base_ts : s \in Streams} \ {NOPTS}
  IN IF known = {} THEN NOPTS ELSE CHOOSE t \in known : \A u \in known : t <= u

Refreshes(s) == ds[s].last_pos # NOPTS

(* After DEMUXER_CTRL_SWITCHED_TRACKS: start_refreshing seeks back to the  *)
(* user's position, if any stream has one.  The file allows refresh seeks, *)
(* and Streams are the video and audio streams.                            *)
TrackswitchDone ==
  /\ pc = "switch"
  /\ start_refresh_seek' = FALSE
  /\ IF start_refresh_seek /\ StartTs # NOPTS
       THEN /\ ds' = [s \in Streams |-> [ds[s] EXCEPT !.refreshing = @ \/ Refreshes(s)]]
            /\ file' = IF StartTs > 2 THEN StartTs - 2 ELSE 0
            /\ Unlocked("seek")
       ELSE /\ pc' = "loop" /\ locked' = TRUE
            /\ UNCHANGED <<ds, file>>
  /\ UNCHANGED <<last_eof, eof, tracks_switched, seeking, seek_pts, thread_request_pause,
                 thread_paused, thread_terminate, wakeup, fill_eof, origin, user, historyVars>>

(***************************************************************************)
(* The user thread.  Each action takes the lock, so none is possible while *)
(* the demuxer thread has it.                                              *)
(***************************************************************************)

UserAt(state) == user.at = state /\ ~locked

UserWoken(state) == UserAt(state) /\ "user" \notin wakeup

Idle == user' = [at |-> "idle"]

(* dequeue_packet                                                          *)
Dequeued(d) ==
  [d EXCEPT !.queue = Tail(@), !.base_ts = Head(d.queue).pos, !.returned = Head(d.queue).pos]

(* The loop of ds_get_packets: wait for the thread, or return.  'take' is  *)
(* TRUE for demux_read_packet, FALSE for demux_get_next_pts.               *)
GetPackets(s, d, take) ==
  IF d.selected /\ d.queue = <<>> /\ ~d.eof
    THEN /\ ds' = [ds EXCEPT ![s] = [d EXCEPT !.active = TRUE]]
         /\ wakeup' = Signalled \cup {"user"}
         /\ user' = [at |-> "get", stream |-> s, take |-> take]
    ELSE /\ ds' = [ds EXCEPT ![s] = IF take /\ d.queue # <<>> THEN Dequeued(d) ELSE d]
         /\ wakeup' = IF take THEN Signalled ELSE wakeup
         /\ Idle

(* demux_read_packet and demux_get_next_pts                                *)
demux_read_packet(s, take) ==
  /\ UserAt("idle")
  /\ eof' = FALSE
  /\ GetPackets(s, [ds[s] EXCEPT !.eof = FALSE], take)
  /\ awaiting' = awaiting \ {s}
  /\ UNCHANGED <<last_eof, requestVars, threadVars, epoch, overflow, switches>>

GetWoken ==
  /\ UserWoken("get")
  /\ GetPackets(user.stream, ds[user.stream], user.take)
  /\ UNCHANGED <<last_eof, eof, requestVars, threadVars, historyVars>>

(* The result of demux_read_packet_async is 1, -1 or 0: with 0 the user    *)
(* waits for the callback.                                                 *)
demux_read_packet_async(s) ==
  LET d == ds[s] IN
  /\ UserAt("idle")
  /\ ds' = [ds EXCEPT ![s] = [(IF d.queue # <<>> THEN Dequeued(d) ELSE d)
                               EXCEPT !.active = d.selected]]
  /\ eof' = FALSE
  /\ awaiting' = IF d.queue = <<>> /\ ~d.eof /\ d.selected THEN awaiting \cup {s}
                                                           ELSE awaiting \ {s}
  /\ wakeup' = Signalled
  /\ UNCHANGED <<last_eof, requestVars, threadVars, user, epoch, overflow, switches>>

(* flush_locked                                                            *)
FlushLocked ==
  /\ ds' = [s \in Streams |-> Flushed(s)]
  /\ eof' = FALSE /\ last_eof' = FALSE
  /\ awaiting' = {}

(* Possible also between demux_pause and demux_unpause.                    *)
demux_flush ==
  /\ UserAt("idle") \/ UserAt("paused")
  /\ FlushLocked
  /\ UNCHANGED <<requestVars, wakeup, threadVars, user, epoch, overflow, switches>>

demux_seek(pts) ==
  /\ UserAt("idle")
  /\ epoch < MaxSeeks
  /\ FlushLocked
  /\ seeking' = TRUE /\ seek_pts' = pts
  /\ epoch' = epoch + 1
  /\ wakeup' = Signalled
  /\ UNCHANGED <<tracks_switched, start_refresh_seek, thread_request_pause, thread_paused,
                 thread_terminate, threadVars, user, overflow, switches>>

(* The first lock region; refresh_seeks_enabled is TRUE in playback.       *)
demuxer_select_track(s) ==
  /\ UserAt("idle")
  /\ switches < MaxSwitches
  /\ ds' = [ds EXCEPT ![s] = [Flushed(s) EXCEPT !.selected = ~@]]
  /\ start_refresh_seek' = (start_refresh_seek \/ ~ds[s].selected)
  /\ switches' = switches + 1
  /\ awaiting' = {}
  /\ user' = [at |-> "switched"]
  /\ UNCHANGED <<last_eof, eof, tracks_switched, seeking, seek_pts, thread_request_pause,
                 thread_paused, thread_terminate, wakeup, threadVars, epoch, overflow>>

(* demux_control(DEMUXER_CTRL_SWITCHED_TRACKS)                             *)
SwitchedTracks ==
  /\ UserAt("switched")
  /\ tracks_switched' = TRUE
  /\ wakeup' = Signalled
  /\ Idle
  /\ UNCHANGED <<ds, last_eof, eof, start_refresh_seek, seeking, seek_pts, thread_request_pause,
                 thread_paused, thread_terminate, threadVars, historyVars>>

demux_pause ==
  /\ UserAt("idle")
  /\ thread_request_pause' = thread_request_pause + 1
  /\ IF thread_paused
       THEN wakeup' = Signalled /\ user' = [at |-> "paused"]
       ELSE wakeup' = Signalled \cup {"user"} /\ user' = [at |-> "pausing"]
  /\ UNCHANGED <<ds, last_eof, eof, tracks_switched, start_refresh_seek, seeking, seek_pts,
                 thread_paused, thread_terminate, threadVars, historyVars>>

PauseWoken ==
  /\ UserWoken("pausing")
  /\ IF thread_paused
       THEN user' = [at |-> "paused"] /\ UNCHANGED wakeup
       ELSE wakeup' = wakeup \cup {"user"} /\ UNCHANGED user
  /\ UNCHANGED <<ds, last_eof, eof, requestVars, threadVars, historyVars>>

demux_unpause ==
  /\ UserAt("paused")
  /\ thread_request_pause' = thread_request_pause - 1
  /\ wakeup' = Signalled
  /\ Idle
  /\ UNCHANGED <<ds, last_eof, eof, tracks_switched, start_refresh_seek, seeking, seek_pts,
                 thread_paused, thread_terminate, threadVars, historyVars>>

demux_stop_thread ==
  /\ UserAt("idle")
  /\ thread_terminate' = TRUE
  /\ wakeup' = Signalled
  /\ user' = [at |-> "joining"]
  /\ UNCHANGED <<ds, last_eof, eof, tracks_switched, start_refresh_seek, seeking, seek_pts,
                 thread_request_pause, thread_paused, threadVars, historyVars>>

(* pthread_join returns.                                                   *)
Joined ==
  /\ user.at = "joining"
  /\ pc = "exited"
  /\ user' = [at |-> "stopped"]
  /\ UNCHANGED <<ds, last_eof, eof, requestVars, wakeup, threadVars, historyVars>>

SpuriousWakeup(p) ==
  /\ p \in wakeup
  /\ wakeup' = wakeup \ {p}
  /\ UNCHANGED <<ds, last_eof, eof, requestVars, threadVars, user, historyVars>>

ThreadStep ==
  \/ ThreadExit \/ ThreadPause \/ ExecuteTrackswitch \/ TrackswitchDone
  \/ ExecuteSeek \/ SeekReturns
  \/ ReadPacket \/ ReadPacketOverflow \/ NothingToRead \/ FillBuffer \/ FillDone

UserCall ==
  \/ \E s \in Streams :
       \/ \E take \in BOOLEAN : demux_read_packet(s, take)
       \/ demux_read_packet_async(s)
       \/ demuxer_select_track(s)
  \/ \E pts \in 1 .. Len(File) : demux_seek(pts)
  \/ demux_flush
  \/ demux_pause
  \/ demux_stop_thread

(* Steps inside of calls, and the unpause that ends a pause.               *)
UserStep == GetWoken \/ SwitchedTracks \/ PauseWoken \/ demux_unpause \/ Joined

Next ==
  \/ ThreadStep
  \/ UserCall
  \/ UserStep
  \/ \E p \in {"thread", "user"} : SpuriousWakeup(p)

Spec == Init /\ [][Next]_vars

(* Both threads get to run, the implementation's reads and seeks return,   *)
(* and the user does not keep the thread paused.  No call by the user and  *)
(* no spurious wakeup is assumed.                                          *)
Fairness == WF_vars(ThreadStep) /\ WF_vars(UserStep)

FairSpec == Spec /\ Fairness

(***************************************************************************)
(* Properties                                                              *)
(***************************************************************************)

ThreadStates == {"loop", "wait", "switch", "seek", "fill", "filled", "exited"}

UserStates ==
  [at : {"idle", "switched", "pausing", "paused", "joining", "stopped"}]
    \cup [at : {"get"}, stream : Streams, take : BOOLEAN]

Positions == {NOPTS} \cup 1 .. Len(File)

demux_stream ==
  [selected : BOOLEAN, active : BOOLEAN, eof : BOOLEAN, refreshing : BOOLEAN,
   queue : Seq(Packets), base_ts : Positions, last_ts : Positions, last_pos : Positions,
   returned : 0 .. Len(File)]

(* The ranges of all fields.                                               *)
TypeOK ==
  /\ ds \in [Streams -> demux_stream]
  /\ {last_eof, eof, tracks_switched, start_refresh_seek, seeking, thread_paused,
      thread_terminate, locked, fill_eof, overflow} \subseteq BOOLEAN
  /\ seek_pts \in 0 .. Len(File)
  /\ thread_request_pause \in 0 .. 1
  /\ wakeup \subseteq {"thread", "user"}
  /\ pc \in ThreadStates
  /\ file \in 0 .. Len(File)
  /\ user \in UserStates
  /\ awaiting \subseteq Streams
  /\ epoch \in 0 .. MaxSeeks /\ origin \in 0 .. MaxSeeks
  /\ switches \in 0 .. MaxSwitches

(* One condition variable with pthread_cond_signal serves both threads:    *)
(* this is right only as long as never both of them wait.                  *)
NotBothAsleep == wakeup # {"thread", "user"}

(* A stream that is to be read ahead and has nothing to give, not even EOF. *)
Starved(s) == ds[s].active /\ ds[s].queue = <<>> /\ ~ds[s].eof

(* The thread does not sleep over a request: a queued seek, a track        *)
(* switch, a pause, its end, or a stream without packets.  The last one    *)
(* has no flag of its own: it relies on all that reset in->eof or take     *)
(* the last packet of a queue to signal.                                   *)
NoRequestSleptOver ==
  "thread" \in wakeup =>
    /\ ~thread_terminate
    /\ Pausing <=> thread_paused
    /\ ~Pausing => /\ ~seeking /\ ~tracks_switched
                   /\ \A s \in Streams : ~Starved(s)

(* Nobody sleeps although there is something to do.                        *)
NoLostWakeup == TypeOK /\ NotBothAsleep /\ NoRequestSleptOver

(* Between demux_pause and demux_unpause the thread does not run the       *)
(* demuxer implementation, which the user calls itself then (demux.c:      *)
(* demux_control).                                                         *)
PausedMeansStopped == user.at = "paused" => pc \in {"loop", "wait"}

(* No packet read before the last seek is in a queue, even if the thread   *)
(* was reading it, or seeking elsewhere, when demux_seek was called.       *)
PacketsFromLastSeek ==
  \A s \in Streams : \A i \in DOMAIN ds[s].queue : ds[s].queue[i].seek = epoch

InStream(s, p) == p \in DOMAIN File /\ File[p] = s

Consecutive(s, p, q) ==
  p < q /\ InStream(s, q) /\ \A r \in p + 1 .. q - 1 : ~InStream(s, r)

(* What the user gets of a stream, from one flush of its queue to the      *)
(* next, has no gap and no repetition, although refresh seeks for other    *)
(* streams send the thread back over what it has read.                     *)
PacketsContiguous ==
  \A s \in Streams : LET q == ds[s].queue IN
    /\ \A i \in 1 .. Len(q) - 1 : Consecutive(s, q[i].pos, q[i + 1].pos)
    /\ q # <<>> /\ ds[s].returned # 0 => Consecutive(s, ds[s].returned, q[1].pos)

(* What is queued is what the user asked for last, and all of it.          *)
PacketsInOrder == PacketsFromLastSeek /\ PacketsContiguous

(* A user who was told to wait, and has not been called, has no packet to  *)
(* fetch.                                                                  *)
NoMissedPacket == \A s \in awaiting : ds[s].queue = <<>>

(* "The demuxer thread will call cb(ctx) if there's a new packet, or EOF   *)
(* is reached." (demux.c: demux_set_wakeup_cb).  So a user who was told to *)
(* wait, and has not been called, has no EOF to fetch either.              *)
NoMissedCallback == NoMissedPacket /\ \A s \in awaiting : ~ds[s].eof

(* "< 0: EOF was reached" (demux.c: demux_read_packet_async): a stream     *)
(* reports EOF only when the thread is at the end of the file, with no     *)
(* seek in its way.                                                        *)
EofIsReal ==
  \A s \in Streams : ds[s].selected /\ ds[s].eof => (file = Len(File) /\ ~seeking) \/ overflow

(* "On a switch, it seeks back, and then grabs all packets that were       *)
(* 'missing' from the packet queue of the newly selected stream"           *)
(* (demux.c: start_refreshing).  So a refresh begins with no stream that   *)
(* will drop them: one that has a first packet, and lacks an earlier one   *)
(* at or after the user's position.                                        *)
RefreshGrabsMissing ==
  [][pc = "switch" /\ pc' = "seek" =>
       \A s \in Streams : ds'[s].refreshing /\ ds[s].queue # <<>> /\ ds[s].returned = 0 =>
         \A p \in StartTs .. ds[s].queue[1].pos - 1 : ~InStream(s, p)]_vars

Blocked == user.at \in {"get", "pausing", "joining"}

(* A blocking call comes back: demux_read_packet and demux_get_next_pts    *)
(* with a packet or EOF, demux_pause and demux_stop_thread with the thread *)
(* stopped.                                                                *)
CallsReturn == Blocked ~> ~Blocked

(* A seek and a track switch reach the demuxer implementation, unless the  *)
(* user stops the thread, or pauses it again and again.                    *)
RequestsReachDemuxer ==
  /\ seeking ~> ~seeking \/ Pausing \/ thread_terminate
  /\ tracks_switched ~> ~tracks_switched \/ Pausing \/ thread_terminate

(* What the user waits for happens, and what it asked for is done.         *)
RequestsServed == CallsReturn /\ RequestsReachDemuxer

(***************************************************************************)
(* The inductive invariant behind the safety properties                    *)
(***************************************************************************)

(* The flags the threads leave for each other agree with where they are;   *)
(* in->eof is reset with the EOF flag of any stream that is read.          *)
FlagsAgree ==
  /\ thread_request_pause = IF user.at \in {"pausing", "paused"} THEN 1 ELSE 0
  /\ user.at = "paused" => thread_paused
  /\ thread_paused => pc \in {"wait", "exited"}
  /\ thread_terminate <=> user.at \in {"joining", "stopped"}
  /\ pc = "exited" => thread_terminate
  /\ "thread" \in wakeup => pc = "wait"
  /\ "user" \in wakeup => user.at \in {"get", "pausing"}
  /\ user.at = "get" => ds[user.stream].active
  /\ \A s \in Streams : ds[s].active => ds[s].selected /\ (eof => ds[s].eof)

(* What is read belongs to the last seek, unless that is still queued; and *)
(* while it is, the queues stay as empty as it left them.                  *)
SeekState ==
  /\ ~seeking => origin = epoch
  /\ seeking => seek_pts \in 1 .. Len(File) /\ \A s \in Streams : ds[s].last_pos = NOPTS

(* last_pos is the last packet the stream was given, its queue ends there, *)
(* and the thread is behind it only while the stream is in refresh: it has *)
(* read no packet of the stream that the stream does not have.             *)
LastPos(s) ==
  LET d == ds[s] IN
  /\ d.last_pos = IF d.queue # <<>> THEN d.queue[Len(d.queue)].pos
                  ELSE IF d.returned # 0 THEN d.returned ELSE NOPTS
  /\ \A i \in DOMAIN d.queue : d.queue[i].pos <= d.last_pos
  /\ d.last_pos = NOPTS => d.base_ts = NOPTS /\ d.last_ts = NOPTS /\ ~d.refreshing
  /\ d.last_pos # NOPTS =>
       /\ d.selected
       /\ d.base_ts \in 1 .. d.last_pos
       /\ d.refreshing \/ d.last_pos <= file
       /\ \A p \in d.last_pos + 1 .. file : ~InStream(s, p)

Inductive ==
  /\ TypeOK
  /\ FlagsAgree
  /\ NotBothAsleep /\ NoRequestSleptOver
  /\ SeekState
  /\ \A s \in Streams : LastPos(s)
  /\ PacketsInOrder
  /\ NoMissedPacket

=============================================================================
