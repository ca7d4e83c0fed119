---------------------------- MODULE StreamCache ----------------------------
(* The stream cache (stream/cache.c): a thread reads ahead from the source *)
(* into a ring buffer, the user (demuxer thread) reads, seeks and sends    *)
(* controls through it.  One mutex and one condition variable serve both.  *)
(*                                                                         *)
(* A cell of the model stands for FILL_LIMIT (16 KiB) bytes, and what a    *)
(* cell holds is named by its position in the source.  cpc = "loop" means  *)
(* the cache thread holds the mutex: it keeps it from one iteration of its *)
(* loop to the next, and gives it up only while it reads or sleeps.  The   *)
(* counters reads and retry are left out: reads never falls, so the test   *)
(* "reads >= retry" of cache_fill_buffer always holds.                     *)
EXTENDS Integers, Sequences, FiniteSets

CONSTANTS
  FileSize,     \* cells of the source
  Kinds,        \* values of priv.seekable to check
  Size,         \* opts.size, the read-ahead size
  Sizes,        \* read-ahead sizes the user may set
  ShrinkLinear, \* the cache of an unseekable stream may be made smaller
  BackBuffer,   \* opts.back_buffer
  SeekMin,      \* opts.seek_min
  ReadChunk,    \* stream.read_chunk
  Initial,      \* opts.initial
  ReadLens,     \* lengths the user reads
  SeekPos,      \* positions the user seeks to
  MaxCalls,     \* bound on calls of the user
  MaxFails,     \* bound on failures of the source
  MayCancel     \* playback may be aborted

NoByte == -1
FILL_LIMIT == 1

ASSUME CacheAssumption ==
  /\ FileSize \in Nat \ {0}
  /\ Kinds \subseteq BOOLEAN /\ Kinds # {}
  /\ Size \in Nat /\ Sizes \subseteq Nat /\ Sizes # {} /\ IsFiniteSet(Sizes)
  /\ BackBuffer \in Nat /\ SeekMin \in Nat /\ Initial \in Nat
  /\ ReadChunk \in Nat \ {0}
  /\ ReadLens \subseteq Nat \ {0} /\ SeekPos \subseteq Nat
  /\ MaxCalls \in Nat /\ MaxFails \in Nat
  /\ ShrinkLinear \in BOOLEAN /\ MayCancel \in BOOLEAN

VARIABLES
  seekable,     \* the source can seek
  buffer,       \* cell -> position of the source it holds, or NoByte
  buffer_size, seek_limit,
  offset, min_filepos, max_filepos, read_filepos,
  eof, idle,
  control,      \* "NONE", "QUIT", "PING", "SIZE" or "SEEK"
  control_arg,  \* the size of a "SIZE" control; 0 once the caller has gone
  control_flush,
  tell,         \* position of the source
  fill,         \* the read of the source that runs: first cell, cells
  cpc,          \* cache thread
  pos,          \* cache->pos, the position the user knows
  upc,          \* user: "call" between calls, "<call>_wait" in the timed wait
  want,         \* length the user reads
  got,          \* cells the last read returned
  calls, fails, cancelled

ring == <<buffer, buffer_size, offset, min_filepos, max_filepos>>
request == <<control, control_arg, control_flush>>
user == <<pos, want, got, calls>>
vars == <<seekable, ring, seek_limit, read_filepos, eof, idle, request, tell,
          fill, cpc, user, upc, fails, cancelled>>

---------------------------------------------------------------------------
(* MPMIN, MPMAX and MPCLAMP.                                               *)
MPMIN(a, b) == IF a < b THEN a ELSE b
MPMAX(a, b) == IF a > b THEN a ELSE b
MPCLAMP(a, lo, hi) == MPMIN(MPMAX(a, lo), hi)

back_size == MPMAX(BackBuffer, 2 * FILL_LIMIT)
BufferFor(size) == MPMAX(size, 2 * FILL_LIMIT) + back_size
SeekLimitFor(size, limit) == MPMIN(limit, size - FILL_LIMIT)

(* Where the ring buffer keeps a file position: offset is the file         *)
(* position of cell 0 for what was read last.                              *)
CellOf(p) ==
  LET bpos == p - offset IN
  IF bpos < 0 THEN bpos + buffer_size
  ELSE IF bpos >= buffer_size THEN bpos - buffer_size ELSE bpos

Cached(p) == min_filepos <= p /\ p < max_filepos

(* How much read_buffer finds at p, and what.  Reading begins inside the   *)
(* cached range and ends with the range or the request.                    *)
Available(p, n) == IF Cached(p) THEN MPMIN(n, max_filepos - p) ELSE 0
read_buffer(p, n) == [i \in 1..Available(p, n) |-> buffer[CellOf(p + i - 1)]]

(* pthread_cond_signal from either side: the other thread is the only one  *)
(* that can be waiting.                                                    *)
UserWoken ==
  CASE upc = "read_wait" -> "read"
    [] upc = "control_wait" -> "control"
    [] upc = "prefill_wait" -> "prefill"
    [] OTHER -> upc
WakeUser == upc' = UserWoken
WakeCache == cpc' = IF cpc = "sleep" THEN "woken" ELSE cpc

(* The user takes the mutex.                                               *)
Locked == cpc \notin {"loop", "aborted"}

---------------------------------------------------------------------------
(* The cache thread: cache_fill.                                           *)

(* The ring buffer holds nothing any more; the next byte is that at the    *)
(* read position.                                                          *)
Emptied(p) == [min |-> p, max |-> p, offset |-> p, eof |-> FALSE]

(* The window cache_fill works on: it drops the contents when the user is  *)
(* before them or too far behind them.                                     *)
Window ==
  IF read_filepos < min_filepos \/ read_filepos > max_filepos + seek_limit
  THEN Emptied(read_filepos)
  ELSE [min |-> min_filepos, max |-> max_filepos, offset |-> offset,
        eof |-> eof]

SetWindow(w) ==
  /\ min_filepos' = w.min /\ max_filepos' = w.max /\ offset' = w.offset

(* Mutant of BackFor: the old bytes are free space.                        *)
BackUnused(w) == {0}

(* Back buffer to keep: what is there up to back_size, and all of back_size *)
(* when the stream is known to be larger than the buffer.  The size of an  *)
(* unseekable stream is unknown until its end was seen, which the thread   *)
(* notices when it refreshes the cached controls.                          *)
BackFor(w) ==
  LET kept == MPCLAMP(read_filepos - w.min, 0, back_size)
      reserved == MPMAX(kept, back_size)
  IN  IF FileSize > buffer_size
      THEN IF seekable THEN {reserved} ELSE {kept, reserved}
      ELSE {kept}

(* Cells of unread data.                                                   *)
Unread(w) == MPMAX(w.max - read_filepos, 0)

(* The cell the byte at max_filepos goes to.                               *)
WriteCell(w) ==
  LET p == w.max - w.offset
  IN  IF p >= buffer_size THEN p - buffer_size ELSE p

(* Cells one read may fill: up to the end of the buffer, one chunk.        *)
ReadSpace(w, space) ==
  MPMIN(MPMIN(space, buffer_size - WriteCell(w)), ReadChunk)

(* Mutant of MinAfter: the range keeps what is overwritten.                *)
MinKept(w, n) == w.min

(* What a read of n cells lets fall off the back of the buffer.            *)
MinAfter(w, n) ==
  MPMAX(w.min, read_filepos - (buffer_size - (n + Unread(w))))

(* Mutant of LoopEnd: nobody is told that the source was read.             *)
LoopEndSilent(nowIdle, request_left, signals) ==
  /\ control' = IF request_left = "PING" THEN "NONE" ELSE request_left
  /\ cpc' = IF nowIdle /\ control' = "NONE" THEN "sleep" ELSE "loop"
  /\ UNCHANGED <<upc, control_arg>>

(* cache_fill is over without, or with, having read: tail of the loop in   *)
(* cache_thread.  It answers a ping and sleeps when it has nothing to do.  *)
LoopEnd(nowIdle, request_left, signals) ==
  /\ control' = IF request_left = "PING" THEN "NONE" ELSE request_left
  /\ cpc' = IF nowIdle /\ control' = "NONE" THEN "sleep" ELSE "loop"
  /\ IF signals \/ request_left = "PING" THEN WakeUser ELSE UNCHANGED upc
  /\ UNCHANGED <<control_arg>>

FillDone(atEof) ==
  /\ eof' = atEof /\ idle' = atEof
  /\ LoopEnd(atEof, control, TRUE)
  /\ UNCHANGED control_flush

CacheRuns == cpc = "loop" /\ control \in {"NONE", "PING"}
MustSeek == tell # Window.max /\ seekable

FillSeekFails ==
  /\ CacheRuns /\ MustSeek
  /\ fails < MaxFails /\ fails' = fails + 1
  /\ SetWindow(Window) /\ FillDone(TRUE)
  /\ UNCHANGED <<seekable, buffer, buffer_size, seek_limit, read_filepos, tell,
                 fill, user, cancelled>>

(* The position of the source once it is where the window wants it.        *)
SoughtTell == IF seekable THEN Window.max ELSE tell

FillCancelled ==
  /\ CacheRuns /\ cancelled
  /\ tell' = SoughtTell
  /\ SetWindow(Window) /\ FillDone(TRUE)
  /\ UNCHANGED <<seekable, buffer, buffer_size, seek_limit, read_filepos, fill,
                 user, fails, cancelled>>

(* The buffer is full: sleep, without a signal.                            *)
FillFull ==
  /\ CacheRuns /\ ~cancelled
  /\ \E back \in BackFor(Window) :
       buffer_size - (Unread(Window) + back) < FILL_LIMIT
  /\ tell' = SoughtTell
  /\ SetWindow(Window)
  /\ eof' = Window.eof
  /\ idle' = TRUE
  /\ LoopEnd(TRUE, control, FALSE)
  /\ UNCHANGED <<seekable, buffer, buffer_size, seek_limit, read_filepos,
                 control_flush, fill, user, fails, cancelled>>

(* The cells a read of the source writes to may hold anything until it is  *)
(* over; the mutex is dropped meanwhile.                                   *)
FillBegin ==
  /\ CacheRuns /\ ~cancelled
  /\ tell' = SoughtTell
  /\ \E back \in BackFor(Window) :
       LET w == Window
           space == buffer_size - (Unread(w) + back)
           n == ReadSpace(w, space)
           c == WriteCell(w)
       IN  /\ space >= FILL_LIMIT
           /\ fill' = <<c, n>>
           /\ min_filepos' = MinAfter(w, n)
           /\ max_filepos' = w.max /\ offset' = w.offset
           /\ eof' = w.eof
           /\ buffer' = [i \in DOMAIN buffer |->
                          IF i \in c..(c + n - 1) THEN NoByte ELSE buffer[i]]
  /\ cpc' = "read"
  /\ UNCHANGED <<seekable, buffer_size, seek_limit, read_filepos, idle, request,
                 user, upc, fails, cancelled>>

(* The source has delivered len cells; none at its end, or by an error.    *)
FillEnd(len) ==
  /\ cpc = "read"
  /\ len <= fill[2] /\ len <= MPMAX(FileSize - tell, 0)
  /\ IF len = 0 /\ tell < FileSize /\ ~cancelled
     THEN fails < MaxFails /\ fails' = fails + 1
     ELSE UNCHANGED fails
  /\ buffer' = [i \in DOMAIN buffer |->
                 IF i \in fill[1]..(fill[1] + len - 1)
                 THEN tell + (i - fill[1]) ELSE buffer[i]]
  /\ tell' = tell + len
  /\ max_filepos' = max_filepos + len
  /\ offset' = IF fill[1] + len = buffer_size THEN offset + buffer_size
                                              ELSE offset
  /\ fill' = <<0, 0>>
  /\ FillDone(len = 0)
  /\ UNCHANGED <<seekable, buffer_size, seek_limit, min_filepos, read_filepos,
                 user, cancelled>>

---------------------------------------------------------------------------
(* The cache thread: cache_execute_control and the loop.                   *)

(* resize_cache copies what follows the read position, then as much of     *)
(* what precedes it as fits, to the end of the new buffer.                 *)
Ahead(size) == Available(read_filepos, size)
BehindLen(size) ==
  IF min_filepos < read_filepos
  THEN MPMIN(size - Ahead(size), read_filepos - min_filepos) ELSE 0
Behind(size) ==
  Available(read_filepos - BehindLen(size), BehindLen(size))

ControlDone ==
  /\ LoopEnd(idle', "NONE", TRUE)
  /\ UNCHANGED <<seekable, user, fails, cancelled, fill>>

ExecuteSize ==
  /\ cpc = "loop" /\ control = "SIZE"
  /\ \E arg \in IF control_arg = 0 THEN Sizes ELSE {control_arg} :
       LET size == BufferFor(arg)
           read_1 == Ahead(size)
           read_2 == Behind(size)
       IN  /\ seekable \/ ShrinkLinear \/ size >= buffer_size
           /\ IF read_2 # BehindLen(size)
              THEN /\ cpc' = "aborted"
                   /\ UNCHANGED <<ring, seekable, seek_limit, eof, idle, request,
                                  user, upc, fails, cancelled, fill>>
              ELSE /\ buffer' = [i \in 0..(size - 1) |->
                        IF i < read_1 THEN buffer[CellOf(read_filepos + i)]
                        ELSE IF i >= size - read_2
                        THEN buffer[CellOf(read_filepos - (size - i))]
                        ELSE NoByte]
                   /\ buffer_size' = size
                   /\ seek_limit' = SeekLimitFor(size, seek_limit)
                   /\ min_filepos' = read_filepos - read_2
                   /\ max_filepos' = read_filepos + read_1
                   /\ offset' = read_filepos
                   /\ idle' = FALSE /\ eof' = FALSE
                   /\ control_flush' = FALSE
                   /\ ControlDone
  /\ UNCHANGED <<read_filepos, tell>>

(* A control that moves the source, or that succeeded and must flush even  *)
(* though the position is the same.                                        *)
ExecuteSeek ==
  /\ cpc = "loop" /\ control = "SEEK"
  /\ \E p \in SeekPos \cup {tell} :
       /\ tell' = p /\ read_filepos' = p
       /\ SetWindow(Emptied(p))
  /\ eof' = FALSE /\ control_flush' = TRUE
  /\ UNCHANGED <<buffer, buffer_size, seek_limit, idle>>
  /\ ControlDone

(* No memory, or the source refuses or only answers.                       *)
ExecuteNothing ==
  /\ cpc = "loop" /\ control \in {"SIZE", "SEEK"}
  /\ control_flush' = FALSE
  /\ UNCHANGED <<ring, seek_limit, read_filepos, eof, idle, tell>>
  /\ ControlDone

CacheLocks ==
  /\ cpc \in {"start", "woken"}
  /\ cpc' = "loop"
  /\ UNCHANGED <<seekable, ring, seek_limit, read_filepos, eof, idle, request,
                 tell, fill, user, upc, fails, cancelled>>

CacheQuits ==
  /\ cpc = "loop" /\ control = "QUIT"
  /\ cpc' = "exit" /\ WakeUser
  /\ UNCHANGED <<seekable, ring, seek_limit, read_filepos, eof, idle, request,
                 tell, fill, user, fails, cancelled>>

---------------------------------------------------------------------------
(* The user: stream_cache_init waits until some data is there.             *)

PrefillMin == MPMIN(Initial, buffer_size - FILL_LIMIT)

unchangedCache == <<seekable, ring, seek_limit, read_filepos, tell, fill>>

PrefillFill ==
  /\ upc = "prefill" /\ Locked
  /\ upc' = IF PrefillMin < 1 THEN "call"
            ELSE IF cancelled THEN "uninit"
            ELSE IF max_filepos - read_filepos >= PrefillMin THEN "call"
            ELSE "prefill_idle"
  /\ UNCHANGED <<unchangedCache, eof, idle, request, cpc, user, fails, cancelled>>

PrefillIdle ==
  /\ upc = "prefill_idle" /\ Locked
  /\ upc' = IF idle THEN "call" ELSE "prefill_ping"
  /\ UNCHANGED <<unchangedCache, eof, idle, request, cpc, user, fails, cancelled>>

PrefillPing ==
  /\ upc = "prefill_ping" /\ Locked
  /\ control' = "PING" /\ WakeCache
  /\ upc' = "prefill_wait"
  /\ UNCHANGED <<unchangedCache, eof, idle, control_arg, control_flush, user,
                 fails, cancelled>>

(* The user: cache_fill_buffer.                                            *)

ReadCall ==
  /\ upc = "call" /\ calls < MaxCalls /\ calls' = calls + 1
  /\ upc' = "read" /\ want' \in ReadLens /\ got' = <<>>
  /\ UNCHANGED <<unchangedCache, eof, idle, request, cpc, pos, fails, cancelled>>

EndOfData == eof /\ read_filepos >= max_filepos

ReadDelivers ==
  /\ upc = "read" /\ Locked
  /\ got' = read_buffer(read_filepos, want) /\ got' # <<>>
  /\ read_filepos' = read_filepos + Len(got')
  /\ pos' = pos + Len(got')
  /\ upc' = "call" /\ WakeCache
  /\ want' = 0
  /\ UNCHANGED <<seekable, ring, seek_limit, eof, idle, request, tell, fill,
                 calls, fails, cancelled>>

ReadNothing ==
  /\ upc = "read" /\ Locked
  /\ Available(read_filepos, want) = 0
  /\ EndOfData \/ cancelled
  /\ idle' = (idle /\ EndOfData)
  /\ upc' = "call" /\ WakeCache /\ want' = 0
  /\ UNCHANGED <<unchangedCache, eof, request, pos, got, calls, fails, cancelled>>

ReadWaits ==
  /\ upc = "read" /\ Locked
  /\ Available(read_filepos, want) = 0 /\ ~EndOfData /\ ~cancelled
  /\ idle' = FALSE
  /\ upc' = "read_wait" /\ WakeCache
  /\ UNCHANGED <<unchangedCache, eof, request, user, fails, cancelled>>

(* The user: cache_seek, reached only for a position that is not the       *)
(* current one.                                                            *)
CanSeek(p) == seekable \/ (min_filepos <= p /\ p <= max_filepos)
Seek(p) ==
  /\ upc = "call" /\ Locked /\ p # pos
  /\ calls < MaxCalls /\ calls' = calls + 1
  /\ CanSeek(p)
  /\ pos' = p /\ read_filepos' = p /\ got' = <<>>
  /\ eof' = FALSE /\ WakeCache
  /\ UNCHANGED <<seekable, ring, seek_limit, idle, request, tell, fill, want,
                 upc, fails, cancelled>>

(* The user: cache_control with a control the thread must execute.         *)
ControlCall(c, arg) ==
  /\ upc = "call" /\ Locked
  /\ calls < MaxCalls /\ calls' = calls + 1
  /\ control' = c
  /\ IF cancelled
     THEN eof' = TRUE /\ control_arg' = 0 /\ UNCHANGED <<upc, cpc>>
     ELSE control_arg' = arg /\ upc' = "control_wait" /\ WakeCache
          /\ UNCHANGED eof
  /\ UNCHANGED <<unchangedCache, idle, control_flush, pos, want, got, fails,
                 cancelled>>

(* Mutant of PositionAfter: the flush is not noticed.                      *)
PositionKept == pos
(* The position the user goes on from.                                     *)
PositionAfter == IF control_flush THEN read_filepos ELSE pos

ControlReturns ==
  /\ upc = "control" /\ Locked /\ control = "NONE"
  /\ pos' = PositionAfter
  /\ control_arg' = 0
  /\ upc' = "call"
  /\ UNCHANGED <<unchangedCache, eof, idle, control, control_flush, cpc, want, got,
                 calls, fails, cancelled>>

(* The caller leaves; the request stays, and what its argument pointed to  *)
(* is gone.                                                                *)
ControlAbandoned ==
  /\ upc = "control" /\ Locked /\ control # "NONE" /\ cancelled
  /\ eof' = TRUE /\ control_arg' = 0
  /\ upc' = "call"
  /\ UNCHANGED <<unchangedCache, idle, control, control_flush, cpc, user, fails,
                 cancelled>>

ControlWaits ==
  /\ upc = "control" /\ Locked /\ control # "NONE" /\ ~cancelled
  /\ upc' = "control_wait" /\ WakeCache
  /\ UNCHANGED <<unchangedCache, eof, idle, request, user, fails, cancelled>>

(* The user: cache_uninit.                                                 *)
Uninit ==
  /\ upc \in {"call", "uninit"} /\ Locked
  /\ control' = "QUIT" /\ WakeCache
  /\ upc' = "join"
  /\ UNCHANGED <<unchangedCache, eof, idle, control_arg, control_flush, user,
                 fails, cancelled>>

Joined ==
  /\ upc = "join" /\ cpc = "exit"
  /\ upc' = "closed"
  /\ UNCHANGED <<unchangedCache, eof, idle, request, cpc, user, fails, cancelled>>

---------------------------------------------------------------------------
(* The surroundings: a wait that ends by itself, playback aborted.         *)

UserTimesOut ==
  /\ UserWoken # upc /\ upc' = UserWoken
  /\ UNCHANGED <<unchangedCache, eof, idle, request, cpc, user, fails, cancelled>>

CacheTimesOut ==
  /\ cpc = "sleep" /\ cpc' = "woken"
  /\ UNCHANGED <<unchangedCache, eof, idle, request, user, upc, fails, cancelled>>

Cancel ==
  /\ MayCancel /\ ~cancelled /\ upc # "closed"
  /\ cancelled' = TRUE
  /\ UNCHANGED <<unchangedCache, eof, idle, request, cpc, user, upc, fails>>

---------------------------------------------------------------------------
(* The size of the source is known when it is seekable, and then bounds    *)
(* the cache.                                                              *)
Init ==
  /\ seekable \in Kinds
  /\ buffer_size = BufferFor(IF seekable THEN MPMIN(Size, FileSize) ELSE Size)
  /\ buffer = [i \in 0..(buffer_size - 1) |-> NoByte]
  /\ seek_limit = SeekLimitFor(buffer_size, SeekMin)
  /\ offset = 0 /\ min_filepos = 0 /\ max_filepos = 0 /\ read_filepos = 0
  /\ eof = FALSE /\ idle = FALSE
  /\ control = "NONE" /\ control_arg = 0 /\ control_flush = FALSE
  /\ tell = 0 /\ fill = <<0, 0>>
  /\ cpc = "start" /\ upc = "prefill"
  /\ pos = 0 /\ want = 0 /\ got = <<>> /\ calls = 0
  /\ fails = 0 /\ cancelled = FALSE

CacheThread ==
  \/ CacheLocks \/ CacheQuits
  \/ ExecuteSize \/ ExecuteSeek \/ ExecuteNothing
  \/ FillSeekFails \/ FillCancelled \/ FillFull \/ FillBegin
  \/ \E len \in 0..ReadChunk : FillEnd(len)

(* What the user does to finish a call it made.                            *)
UserThread ==
  \/ PrefillFill \/ PrefillIdle \/ PrefillPing
  \/ ReadDelivers \/ ReadNothing \/ ReadWaits
  \/ ControlReturns \/ ControlAbandoned \/ ControlWaits
  \/ Joined \/ (upc = "uninit" /\ Uninit)

NewCall ==
  \/ ReadCall \/ Uninit
  \/ \E p \in SeekPos : Seek(p)
  \/ \E size \in Sizes : ControlCall("SIZE", size)
  \/ ControlCall("SEEK", 0)

Next ==
  \/ CacheThread \/ UserThread \/ NewCall
  \/ UserTimesOut \/ CacheTimesOut \/ Cancel

Spec == Init /\ [][Next]_vars

(* The threads run, the source answers, and a thread that asks for the     *)
(* mutex again and again gets it in the end.  Time-outs need not come.     *)
FairSpec == Spec /\ WF_vars(CacheThread) /\ SF_vars(UserThread)

---------------------------------------------------------------------------
(* Properties.                                                             *)

TypeOK ==
  /\ seekable \in BOOLEAN /\ eof \in BOOLEAN /\ idle \in BOOLEAN
  /\ buffer_size \in Nat
  /\ buffer \in [0..(buffer_size - 1) -> {NoByte} \cup 0..(FileSize - 1)]
  /\ {seek_limit, offset, min_filepos, max_filepos, read_filepos, tell, pos, want}
       \subseteq Nat
  /\ control \in {"NONE", "QUIT", "PING", "SIZE", "SEEK"}
  /\ control_arg \in Sizes \cup {0} /\ control_flush \in BOOLEAN
  /\ cpc \in {"start", "loop", "read", "sleep", "woken", "exit", "aborted"}
  /\ upc \in {"prefill", "prefill_idle", "prefill_ping", "prefill_wait", "call",
              "read", "read_wait", "control", "control_wait", "uninit", "join",
              "closed"}

(* The assertions of read_buffer, cache_fill and resize_cache: every       *)
(* position of the cached range maps into the buffer, so do the cells that *)
(* are filled next, the range never exceeds the buffer, and back buffer    *)
(* and forward seeks leave room to read (cache.c:177, 178, 249, 340).      *)
CacheAsserts ==
  /\ \A p \in min_filepos..(max_filepos - 1) : CellOf(p) \in DOMAIN buffer
  /\ max_filepos - offset \in 0..(2 * buffer_size - 1)
  /\ max_filepos - min_filepos <= buffer_size
  /\ fill[1] + fill[2] <= buffer_size
  /\ back_size < buffer_size /\ seek_limit < buffer_size

(* Whatever the cache says it has at a position is the byte the source has *)
(* there, also while the thread reads into the buffer without the mutex,   *)
(* after wrapping, dropping and resizing (cache.c:92, "buffer[...]         *)
(* corresponds to the byte at max_filepos").                               *)
BytesIntact ==
  /\ TypeOK /\ CacheAsserts
  /\ \A p \in min_filepos..(max_filepos - 1) : buffer[CellOf(p)] = p

(* A read of the source makes no old byte go that lies within back_size of *)
(* the read position (cache.c:73, "keep back_size amount of old bytes for  *)
(* backward seek").                                                        *)
BackBufferKept ==
  [][FillBegin /\ Cached(read_filepos)
       => min_filepos' <= MPMAX(min_filepos, read_filepos - back_size)]_vars

(* The cache is a stream: the bytes come in order from the position the    *)
(* user knows, whatever it seeks, resizes or flushes, and a read that      *)
(* returns nothing has met the end, an error or an abort.                  *)
S == INSTANCE ByteStream WITH
  call <- CASE upc \in {"read", "read_wait"} -> "read"
            [] upc \in {"control", "control_wait"} -> "control"
            [] upc \in {"uninit", "join", "closed"} -> "closed"
            [] OTHER -> "none",
  trouble <- fails > 0
ImplementsByteStream == S!Spec

(* Every call returns, opening and closing included, without the help of a *)
(* time-out, also when playback is aborted while it waits.                 *)
CallsReturn ==
  upc \notin {"call", "closed"} ~> (upc \in {"call", "closed"} \/ cpc = "aborted")

(* "This shouldn't happen, unless copy_len was computed incorrectly."      *)
(* (cache.c:316): the copy of a resize finds all it looks for.             *)
ResizeCopies == cpc # "aborted"
---------------------------------------------------------------------------
(* The inductive invariant behind the safety properties.                   *)

(* The types TypeOK leaves out, and the sizes of the buffer.               *)
StateTyped ==
  /\ seekable \in Kinds
  /\ fill \in Nat \X Nat /\ got \in Seq(Nat)
  /\ calls \in Nat /\ fails \in Nat /\ cancelled \in BOOLEAN
  /\ back_size < buffer_size /\ seek_limit < buffer_size

(* The cached range fits the buffer, with what a read adds to it, and the  *)
(* read fills the cells that follow it.                                    *)
RangeFits ==
  /\ max_filepos - offset \in 0..(2 * buffer_size - 1)
  /\ max_filepos - min_filepos <= buffer_size
  /\ IF cpc = "read"
     THEN /\ fill[1] = CellOf(max_filepos)
          /\ fill[2] > 0 /\ fill[1] + fill[2] <= buffer_size
          /\ max_filepos + fill[2] - min_filepos <= buffer_size
          /\ tell = max_filepos
     ELSE fill = <<0, 0>>

BytesThere == \A p \in min_filepos..(max_filepos - 1) : buffer[CellOf(p)] = p

(* A source that cannot seek is where the range ends, and the user never   *)
(* leaves the range.                                                       *)
LinearInOrder ==
  ~seekable => /\ tell = max_filepos
               /\ min_filepos <= read_filepos /\ read_filepos <= max_filepos

(* Where the user can be: at a position it has sought, or in the source.   *)
Positions == SeekPos \cup 0..FileSize
InControl == upc \in {"control", "control_wait"}

(* The thread moves the user only while the user waits for its control,    *)
(* unless playback is aborted.                                             *)
UserTracked ==
  /\ {read_filepos, max_filepos, tell} \subseteq Positions
  /\ ~cancelled \/ InControl => pos \in Positions
  /\ control \in {"SIZE", "SEEK"} /\ ~cancelled => InControl
  /\ pos # read_filepos /\ ~cancelled => InControl /\ control = "NONE" /\ control_flush
  /\ upc \in {"read", "read_wait"} => got = <<>>
  /\ eof /\ ~cancelled => fails > 0 \/ max_filepos >= FileSize

Inductive ==
  /\ TypeOK /\ StateTyped /\ RangeFits /\ BytesThere /\ LinearInOrder /\ UserTracked
=============================================================================
