------------------------- MODULE StreamCacheProofs -------------------------
(***************************************************************************)
(* Theorems about StreamCache: the bytes of the cached range are those of  *)
(* the source, the back buffer is kept, and the cache is a byte stream,    *)
(* for any sizes of the source, the buffer, reads and seeks.               *)
(***************************************************************************)
EXTENDS StreamCache, SequenceTheorems, TLAPS

(* What makes the cache of an unseekable stream smaller is excluded: run   *)
(* StreamCache_linear shows what happens to its bytes.                     *)
LinearGrows == ShrinkLinear => FALSE \notin Kinds

(***************************************************************************)
(* The ring buffer                                                         *)
(***************************************************************************)

(* The buffer has room for the back buffer and two cells more.             *)
LEMMA BufferForSize ==
  ASSUME NEW size \in Nat
  PROVE  /\ back_size \in Nat /\ BufferFor(size) \in Nat
         /\ BufferFor(size) >= back_size + 2
         /\ \A limit \in Nat : /\ SeekLimitFor(BufferFor(size), limit) \in Nat
                               /\ SeekLimitFor(BufferFor(size), limit) < BufferFor(size)
BY CacheAssumption
   DEF CacheAssumption, BufferFor, back_size, SeekLimitFor, MPMAX, MPMIN, FILL_LIMIT

(* The positions and sizes are numbers.                                    *)
LEMMA Numbers ==
  ASSUME TypeOK
  PROVE  /\ buffer_size \in Nat /\ seek_limit \in Nat /\ offset \in Nat
         /\ min_filepos \in Nat /\ max_filepos \in Nat /\ read_filepos \in Nat
         /\ tell \in Nat /\ pos \in Nat /\ want \in Nat /\ back_size \in Nat
BY BufferForSize, CacheAssumption DEF CacheAssumption, TypeOK

(* The cached range and what a read of n cells adds to it have cells of    *)
(* their own.                                                              *)
LEMMA CellsInRange ==
  ASSUME NEW m \in Nat, NEW n \in Nat, TypeOK, RangeFits, max_filepos + n - m <= buffer_size,
         CellOf(max_filepos) + n <= buffer_size
  PROVE  /\ \A p \in m..(max_filepos - 1) :
              CellOf(p) \in 0..(buffer_size - 1)
              /\ CellOf(p) \notin CellOf(max_filepos)..(CellOf(max_filepos) + n - 1)
         /\ \A p \in max_filepos..(max_filepos + n - 1) :
              CellOf(p) = CellOf(max_filepos) + (p - max_filepos)
<1>1. /\ buffer_size \in Nat /\ offset \in Nat /\ max_filepos \in Nat
      /\ max_filepos - offset \in 0..(2 * buffer_size - 1)
  BY Numbers DEF RangeFits
<1>2. CellOf(max_filepos) = IF max_filepos - offset >= buffer_size
                            THEN max_filepos - offset - buffer_size ELSE max_filepos - offset
  BY <1>1 DEF CellOf
<1>3. ASSUME NEW p \in m..(max_filepos - 1)
      PROVE  /\ CellOf(p) \in 0..(buffer_size - 1)
             /\ CellOf(p) \notin CellOf(max_filepos)..(CellOf(max_filepos) + n - 1)
  <2>1. p \in Nat /\ p < max_filepos /\ max_filepos + n - p <= buffer_size
    BY <1>1
  <2>q. QED
    BY <1>1, <1>2, <2>1 DEF CellOf
<1>4. ASSUME NEW p \in max_filepos..(max_filepos + n - 1)
      PROVE  CellOf(p) = CellOf(max_filepos) + (p - max_filepos)
  <2>1. p \in Nat /\ p >= max_filepos /\ p < max_filepos + n
    BY <1>1
  <2>q. QED
    BY <1>1, <1>2, <2>1 DEF CellOf
<1>q. QED
  BY <1>3, <1>4

(* Every cached position has a cell.                                       *)
LEMMA Cells ==
  ASSUME TypeOK, RangeFits
  PROVE  \A p \in min_filepos..(max_filepos - 1) : CellOf(p) \in 0..(buffer_size - 1)
<1>1. CellOf(max_filepos) + 0 <= buffer_size /\ max_filepos + 0 - min_filepos <= buffer_size
  BY Numbers DEF RangeFits, CellOf
<1>q. QED
  BY <1>1, Numbers, CellsInRange

(* The window of cache_fill is what is cached, or nothing.                 *)
LEMMA WindowCases ==
  ASSUME TypeOK
  PROVE  \/ /\ min_filepos <= read_filepos
            /\ Window.min = min_filepos /\ Window.max = max_filepos
            /\ Window.offset = offset /\ Window.eof = eof
         \/ /\ Window.min = read_filepos /\ Window.max = read_filepos
            /\ Window.offset = read_filepos /\ Window.eof = FALSE
<1>1. CASE read_filepos < min_filepos \/ read_filepos > max_filepos + seek_limit
  BY <1>1 DEF Window, Emptied
<1>2. CASE ~(read_filepos < min_filepos \/ read_filepos > max_filepos + seek_limit)
  <2>1. min_filepos <= read_filepos
    BY <1>2, Numbers
  <2>q. QED
    BY <1>2, <2>1 DEF Window
<1>q. QED
  BY <1>1, <1>2

(* A source that cannot seek is never left behind by the window.           *)
LEMMA LinearWindow ==
  ASSUME TypeOK, LinearInOrder, ~seekable
  PROVE  /\ Window.min = min_filepos /\ Window.max = max_filepos
         /\ Window.offset = offset /\ Window.eof = eof
<1>1. ~(read_filepos < min_filepos \/ read_filepos > max_filepos + seek_limit)
  BY Numbers DEF LinearInOrder
<1>q. QED
  BY <1>1 DEF Window

(* What is kept of the old bytes when a read begins.                       *)
LEMMA BackKept ==
  ASSUME TypeOK, NEW w, w.min \in Nat, NEW back \in BackFor(w)
  PROVE  /\ back \in Nat
         /\ back >= MPMIN(read_filepos - w.min, back_size)
<1>1. back_size \in Nat
  BY Numbers
<1>2. read_filepos \in Nat /\ w.min \in Nat
  BY Numbers
<1> DEFINE behind == read_filepos - w.min
           kept == MPCLAMP(behind, 0, back_size)
<1>3. behind \in Int /\ kept \in Nat /\ kept >= MPMIN(behind, back_size)
  BY <1>1, <1>2 DEF MPCLAMP, MPMIN, MPMAX
<1>4. back = kept \/ back = MPMAX(kept, back_size)
  BY DEF BackFor
<1> HIDE DEF kept, behind
<1>5. back \in Nat /\ back >= kept
  BY <1>1, <1>3, <1>4 DEF MPMAX
<1>6. MPMIN(behind, back_size) \in Int
  BY <1>1, <1>3 DEF MPMIN
<1>7. back >= MPMIN(behind, back_size)
  BY <1>3, <1>5, <1>6
<1>q. QED
  BY <1>5, <1>7 DEF behind

(* Where a read begins that fills n cells: what it adds still fits, and    *)
(* old bytes go only where more than back_size of them are kept.           *)
LEMMA ReadBegins ==
  ASSUME TypeOK, StateTyped, RangeFits, LinearInOrder, FillBegin
  PROVE  /\ fill' \in Nat \X Nat /\ fill'[2] > 0
         /\ fill'[1] = WriteCell(Window)
         /\ fill'[1] \in Nat /\ fill'[1] + fill'[2] <= buffer_size
         /\ min_filepos' \in Nat /\ min_filepos' >= Window.min
         /\ max_filepos' = Window.max /\ offset' = Window.offset
         /\ max_filepos' + fill'[2] - min_filepos' <= buffer_size
         /\ min_filepos' <= MPMAX(Window.min, read_filepos - back_size)
         /\ tell' = max_filepos'
<1> DEFINE w == Window
           c == WriteCell(w)
<1>1. PICK back \in BackFor(w) :
        LET space == buffer_size - (Unread(w) + back)
            n == ReadSpace(w, space)
        IN  /\ space >= FILL_LIMIT
            /\ fill' = <<c, n>> /\ min_filepos' = MinAfter(w, n)
            /\ max_filepos' = w.max /\ offset' = w.offset
  BY DEF FillBegin
<1> DEFINE space == buffer_size - (Unread(w) + back)
           n == ReadSpace(w, space)
<1>2. /\ w.min \in Nat /\ w.max \in Nat /\ w.offset \in Nat
      /\ w.max - w.offset \in 0..(2 * buffer_size - 1)
  <2>1. buffer_size \in Nat /\ buffer_size > 0
    BY Numbers DEF StateTyped
  <2>2. max_filepos - offset \in 0..(2 * buffer_size - 1)
    BY DEF RangeFits
  <2> HIDE DEF w
  <2>3. \/ w.min = min_filepos /\ w.max = max_filepos /\ w.offset = offset
        \/ w.min = read_filepos /\ w.max = read_filepos /\ w.offset = read_filepos
    BY WindowCases DEF w
  <2>q. QED
    BY <2>1, <2>2, <2>3, Numbers
<1>3. c \in Nat /\ c < buffer_size
  BY <1>2, Numbers DEF WriteCell
<1>4. back \in Nat /\ back >= MPMIN(read_filepos - w.min, back_size)
  BY <1>1, <1>2, BackKept
<1>5. Unread(w) \in Nat /\ Unread(w) >= w.max - read_filepos
  BY <1>2, Numbers DEF Unread, MPMAX
<1>6. space \in Int /\ n \in Nat /\ n > 0 /\ n <= space /\ c + n <= buffer_size
  <2>1. space >= 1 /\ buffer_size \in Nat /\ ReadChunk \in Nat \ {0}
    BY <1>1, Numbers, CacheAssumption DEF CacheAssumption, FILL_LIMIT
  <2>2. space \in Int
    BY <1>4, <1>5, <2>1
  <2>3. n = MPMIN(MPMIN(space, buffer_size - c), ReadChunk)
    BY DEF ReadSpace
  <2> HIDE DEF space, c, n
  <2>q. QED
    BY <1>3, <2>1, <2>2, <2>3 DEF MPMIN
<1>7. fill' = <<c, n>> /\ min_filepos' = MinAfter(w, n)
      /\ max_filepos' = w.max /\ offset' = w.offset
  BY <1>1
<1>8. /\ MinAfter(w, n) \in Nat /\ MinAfter(w, n) >= w.min
      /\ w.max + n - MinAfter(w, n) <= buffer_size
      /\ MinAfter(w, n) <= MPMAX(w.min, read_filepos - back_size)
  <2>1. read_filepos \in Nat /\ buffer_size \in Nat /\ back_size \in Nat
    BY Numbers
  <2>2. n + Unread(w) + back <= buffer_size
    BY <1>4, <1>5, <1>6, <2>1
  <2> HIDE DEF w, n, space
  <2>3. MinAfter(w, n) = MPMAX(w.min, read_filepos - (buffer_size - (n + Unread(w))))
    BY DEF MinAfter
  <2>q. QED
    BY <1>2, <1>4, <1>5, <1>6, <2>1, <2>2, <2>3 DEF MPMAX, MPMIN
<1>9. tell' = w.max
  BY LinearWindow DEF FillBegin, SoughtTell, LinearInOrder
<1> HIDE DEF w, c, n, space
<1>10. fill'[1] = c /\ fill'[2] = n
  BY <1>7
<1>q. QED
  BY <1>3, <1>6, <1>7, <1>8, <1>9, <1>10 DEF w, c

(* A step that leaves the cache alone.                                     *)
LEMMA CacheKept ==
  ASSUME RangeFits, BytesThere, LinearInOrder,
         UNCHANGED <<seekable, ring, read_filepos, tell, fill>>,
         (cpc' = "read") <=> (cpc = "read")
  PROVE  RangeFits' /\ BytesThere' /\ LinearInOrder'
BY DEF RangeFits, BytesThere, LinearInOrder, CellOf, ring

(* A step that leaves the buffer alone, and takes the window for the       *)
(* range: what it has is still there.                                      *)
LEMMA WindowSet ==
  ASSUME TypeOK, StateTyped, RangeFits, BytesThere, LinearInOrder, cpc = "loop", cpc' # "read",
         SetWindow(Window), tell' = SoughtTell \/ (seekable /\ tell' = tell),
         UNCHANGED <<seekable, buffer, buffer_size, read_filepos, fill>>
  PROVE  /\ RangeFits' /\ BytesThere' /\ LinearInOrder'
         /\ {offset, min_filepos, max_filepos}' \subseteq Nat
         /\ max_filepos' \in {max_filepos, read_filepos}
<1>1. \/ UNCHANGED <<offset, min_filepos, max_filepos>>
      \/ min_filepos' = read_filepos /\ max_filepos' = read_filepos /\ offset' = read_filepos
  BY WindowCases DEF SetWindow
<1>2. RangeFits'
  BY <1>1, Numbers DEF RangeFits, StateTyped
<1>3. BytesThere'
  BY <1>1, Numbers DEF BytesThere, CellOf
<1>4. LinearInOrder'
  BY LinearWindow DEF LinearInOrder, SetWindow, SoughtTell
<1>q. QED
  BY <1>1, <1>2, <1>3, <1>4 DEF TypeOK

(* The thread takes the lock, at the start or from its wait.               *)
LEMMA CacheLocksPreserves ==
  ASSUME Inductive, CacheLocks
  PROVE  Inductive'
<1>1. TypeOK' /\ StateTyped'
  BY CacheAssumption
     DEF CacheAssumption, Inductive, TypeOK, StateTyped, CacheLocks, ring, user, request
<1>2. RangeFits' /\ BytesThere' /\ LinearInOrder'
  BY CacheKept DEF Inductive, CacheLocks, ring, user, request
<1>3. UserTracked'
  BY Numbers
     DEF Inductive, TypeOK, UserTracked, InControl, Positions, CacheLocks, ring, user,
         request
<1>q. QED
  BY <1>1, <1>2, <1>3 DEF Inductive

(* CACHE_CTRL_QUIT ends the thread and wakes the user.                     *)
LEMMA CacheQuitsPreserves ==
  ASSUME Inductive, CacheQuits
  PROVE  Inductive'
<1>1. TypeOK' /\ StateTyped'
  BY CacheAssumption
     DEF CacheAssumption, Inductive, TypeOK, StateTyped, CacheQuits, WakeUser, UserWoken,
         ring, user, request
<1>2. RangeFits' /\ BytesThere' /\ LinearInOrder'
  BY CacheKept DEF Inductive, CacheQuits, WakeUser, UserWoken, ring, user, request
<1>3. UserTracked'
  BY Numbers
     DEF Inductive, TypeOK, UserTracked, InControl, Positions, CacheQuits, WakeUser,
         UserWoken, ring, user, request
<1>q. QED
  BY <1>1, <1>2, <1>3 DEF Inductive

(* A control that changes nothing of the cache is done.                    *)
LEMMA ExecuteNothingPreserves ==
  ASSUME Inductive, ExecuteNothing
  PROVE  Inductive'
<1>1. TypeOK' /\ StateTyped'
  BY CacheAssumption
     DEF CacheAssumption, Inductive, TypeOK, StateTyped, ExecuteNothing, ControlDone,
         LoopEnd, WakeUser, UserWoken, ring, user, request
<1>2. RangeFits' /\ BytesThere' /\ LinearInOrder'
  BY CacheKept
     DEF Inductive, ExecuteNothing, ControlDone, LoopEnd, WakeUser, UserWoken, ring, user
<1>3. UserTracked'
  BY Numbers
     DEF Inductive, TypeOK, UserTracked, InControl, Positions, ExecuteNothing, ControlDone,
         LoopEnd, WakeUser, UserWoken, ring, user, request
<1>q. QED
  BY <1>1, <1>2, <1>3 DEF Inductive

(* The user looks whether enough is cached to begin.                       *)
LEMMA PrefillFillPreserves ==
  ASSUME Inductive, PrefillFill
  PROVE  Inductive'
<1>1. TypeOK' /\ StateTyped'
  BY CacheAssumption
     DEF CacheAssumption, Inductive, TypeOK, StateTyped, PrefillFill, unchangedCache, ring,
         user, request
<1>2. RangeFits' /\ BytesThere' /\ LinearInOrder'
  BY CacheKept DEF Inductive, PrefillFill, unchangedCache, ring, user
<1>3. UserTracked'
  BY Numbers
     DEF Inductive, TypeOK, UserTracked, InControl, Positions, PrefillFill, unchangedCache,
         ring, user, request
<1>q. QED
  BY <1>1, <1>2, <1>3 DEF Inductive

(* The user waits no longer once the thread is idle.                       *)
LEMMA PrefillIdlePreserves ==
  ASSUME Inductive, PrefillIdle
  PROVE  Inductive'
<1>1. TypeOK' /\ StateTyped'
  BY CacheAssumption
     DEF CacheAssumption, Inductive, TypeOK, StateTyped, PrefillIdle, unchangedCache, ring,
         user, request
<1>2. RangeFits' /\ BytesThere' /\ LinearInOrder'
  BY CacheKept DEF Inductive, PrefillIdle, unchangedCache, ring, user
<1>3. UserTracked'
  BY Numbers
     DEF Inductive, TypeOK, UserTracked, InControl, Positions, PrefillIdle, unchangedCache,
         ring, user, request
<1>q. QED
  BY <1>1, <1>2, <1>3 DEF Inductive

(* The user wakes the thread while it waits for the first bytes.           *)
LEMMA PrefillPingPreserves ==
  ASSUME Inductive, PrefillPing
  PROVE  Inductive'
<1>1. TypeOK' /\ StateTyped'
  BY CacheAssumption
     DEF CacheAssumption, Inductive, TypeOK, StateTyped, PrefillPing, WakeCache,
         unchangedCache, ring, user, request
<1>2. RangeFits' /\ BytesThere' /\ LinearInOrder'
  BY CacheKept DEF Inductive, PrefillPing, WakeCache, unchangedCache, ring, user
<1>3. UserTracked'
  BY Numbers
     DEF Inductive, TypeOK, UserTracked, InControl, Positions, PrefillPing, WakeCache,
         unchangedCache, ring, user, request
<1>q. QED
  BY <1>1, <1>2, <1>3 DEF Inductive

(* The user calls cache_fill_buffer.                                       *)
LEMMA ReadCallPreserves ==
  ASSUME Inductive, ReadCall
  PROVE  Inductive'
<1>1. TypeOK' /\ StateTyped'
  BY CacheAssumption
     DEF CacheAssumption, Inductive, TypeOK, StateTyped, ReadCall, unchangedCache, ring,
         user, request
<1>2. RangeFits' /\ BytesThere' /\ LinearInOrder'
  BY CacheKept DEF Inductive, ReadCall, unchangedCache, ring, user
<1>3. UserTracked'
  BY Numbers
     DEF Inductive, TypeOK, UserTracked, InControl, Positions, ReadCall, unchangedCache,
         ring, user, request
<1>q. QED
  BY <1>1, <1>2, <1>3 DEF Inductive

(* A read returns nothing: the end, an error or an abort.                  *)
LEMMA ReadNothingPreserves ==
  ASSUME Inductive, ReadNothing
  PROVE  Inductive'
<1>1. TypeOK' /\ StateTyped'
  BY CacheAssumption
     DEF CacheAssumption, Inductive, TypeOK, StateTyped, ReadNothing, WakeCache,
         unchangedCache, ring, user, request
<1>2. RangeFits' /\ BytesThere' /\ LinearInOrder'
  BY CacheKept DEF Inductive, ReadNothing, WakeCache, unchangedCache, ring, user
<1>3. UserTracked'
  BY Numbers
     DEF Inductive, TypeOK, UserTracked, InControl, Positions, ReadNothing, WakeCache,
         unchangedCache, ring, user, request
<1>q. QED
  BY <1>1, <1>2, <1>3 DEF Inductive

(* A read waits for the thread.                                            *)
LEMMA ReadWaitsPreserves ==
  ASSUME Inductive, ReadWaits
  PROVE  Inductive'
<1>1. TypeOK' /\ StateTyped'
  BY CacheAssumption
     DEF CacheAssumption, Inductive, TypeOK, StateTyped, ReadWaits, WakeCache,
         unchangedCache, ring, user, request
<1>2. RangeFits' /\ BytesThere' /\ LinearInOrder'
  BY CacheKept DEF Inductive, ReadWaits, WakeCache, unchangedCache, ring, user
<1>3. UserTracked'
  BY Numbers
     DEF Inductive, TypeOK, UserTracked, InControl, Positions, ReadWaits, WakeCache,
         unchangedCache, ring, user, request
<1>q. QED
  BY <1>1, <1>2, <1>3 DEF Inductive

(* The control is done: the user takes the position it left.               *)
LEMMA ControlReturnsPreserves ==
  ASSUME Inductive, ControlReturns
  PROVE  Inductive'
<1>1. TypeOK' /\ StateTyped'
  BY CacheAssumption
     DEF CacheAssumption, Inductive, TypeOK, StateTyped, ControlReturns, PositionAfter,
         unchangedCache, ring, user, request
<1>2. RangeFits' /\ BytesThere' /\ LinearInOrder'
  BY CacheKept DEF Inductive, ControlReturns, PositionAfter, unchangedCache, ring, user
<1>3. UserTracked'
  BY Numbers
     DEF Inductive, TypeOK, UserTracked, InControl, Positions, ControlReturns,
         PositionAfter, unchangedCache, ring, user, request
<1>q. QED
  BY <1>1, <1>2, <1>3 DEF Inductive

(* Playback is aborted while the user waits for its control.               *)
LEMMA ControlAbandonedPreserves ==
  ASSUME Inductive, ControlAbandoned
  PROVE  Inductive'
<1>1. TypeOK' /\ StateTyped'
  BY CacheAssumption
     DEF CacheAssumption, Inductive, TypeOK, StateTyped, ControlAbandoned, unchangedCache,
         ring, user, request
<1>2. RangeFits' /\ BytesThere' /\ LinearInOrder'
  BY CacheKept DEF Inductive, ControlAbandoned, unchangedCache, ring, user
<1>3. UserTracked'
  BY Numbers
     DEF Inductive, TypeOK, UserTracked, InControl, Positions, ControlAbandoned,
         unchangedCache, ring, user, request
<1>q. QED
  BY <1>1, <1>2, <1>3 DEF Inductive

(* The user waits for its control.                                         *)
LEMMA ControlWaitsPreserves ==
  ASSUME Inductive, ControlWaits
  PROVE  Inductive'
<1>1. TypeOK' /\ StateTyped'
  BY CacheAssumption
     DEF CacheAssumption, Inductive, TypeOK, StateTyped, ControlWaits, WakeCache,
         unchangedCache, ring, user, request
<1>2. RangeFits' /\ BytesThere' /\ LinearInOrder'
  BY CacheKept DEF Inductive, ControlWaits, WakeCache, unchangedCache, ring, user
<1>3. UserTracked'
  BY Numbers
     DEF Inductive, TypeOK, UserTracked, InControl, Positions, ControlWaits, WakeCache,
         unchangedCache, ring, user, request
<1>q. QED
  BY <1>1, <1>2, <1>3 DEF Inductive

(* The user asks the thread to quit.                                       *)
LEMMA UninitPreserves ==
  ASSUME Inductive, Uninit
  PROVE  Inductive'
<1>1. TypeOK' /\ StateTyped'
  BY CacheAssumption
     DEF CacheAssumption, Inductive, TypeOK, StateTyped, Uninit, WakeCache, unchangedCache,
         ring, user, request
<1>2. RangeFits' /\ BytesThere' /\ LinearInOrder'
  BY CacheKept DEF Inductive, Uninit, WakeCache, unchangedCache, ring, user
<1>3. UserTracked'
  BY Numbers
     DEF Inductive, TypeOK, UserTracked, InControl, Positions, Uninit, WakeCache,
         unchangedCache, ring, user, request
<1>q. QED
  BY <1>1, <1>2, <1>3 DEF Inductive

(* The thread is joined.                                                   *)
LEMMA JoinedPreserves ==
  ASSUME Inductive, Joined
  PROVE  Inductive'
<1>1. TypeOK' /\ StateTyped'
  BY CacheAssumption
     DEF CacheAssumption, Inductive, TypeOK, StateTyped, Joined, unchangedCache, ring, user,
         request
<1>2. RangeFits' /\ BytesThere' /\ LinearInOrder'
  BY CacheKept DEF Inductive, Joined, unchangedCache, ring, user
<1>3. UserTracked'
  BY Numbers
     DEF Inductive, TypeOK, UserTracked, InControl, Positions, Joined, unchangedCache, ring,
         user, request
<1>q. QED
  BY <1>1, <1>2, <1>3 DEF Inductive

(* The user's wait times out.                                              *)
LEMMA UserTimesOutPreserves ==
  ASSUME Inductive, UserTimesOut
  PROVE  Inductive'
<1>1. TypeOK' /\ StateTyped'
  BY CacheAssumption
     DEF CacheAssumption, Inductive, TypeOK, StateTyped, UserTimesOut, UserWoken,
         unchangedCache, ring, user, request
<1>2. RangeFits' /\ BytesThere' /\ LinearInOrder'
  BY CacheKept DEF Inductive, UserTimesOut, UserWoken, unchangedCache, ring, user
<1>3. UserTracked'
  BY Numbers
     DEF Inductive, TypeOK, UserTracked, InControl, Positions, UserTimesOut, UserWoken,
         unchangedCache, ring, user, request
<1>q. QED
  BY <1>1, <1>2, <1>3 DEF Inductive

(* The thread's wait times out.                                            *)
LEMMA CacheTimesOutPreserves ==
  ASSUME Inductive, CacheTimesOut
  PROVE  Inductive'
<1>1. TypeOK' /\ StateTyped'
  BY CacheAssumption
     DEF CacheAssumption, Inductive, TypeOK, StateTyped, CacheTimesOut, unchangedCache,
         ring, user, request
<1>2. RangeFits' /\ BytesThere' /\ LinearInOrder'
  BY CacheKept DEF Inductive, CacheTimesOut, unchangedCache, ring, user
<1>3. UserTracked'
  BY Numbers
     DEF Inductive, TypeOK, UserTracked, InControl, Positions, CacheTimesOut,
         unchangedCache, ring, user, request
<1>q. QED
  BY <1>1, <1>2, <1>3 DEF Inductive

(* Playback is aborted.                                                    *)
LEMMA CancelPreserves ==
  ASSUME Inductive, Cancel
  PROVE  Inductive'
<1>1. TypeOK' /\ StateTyped'
  BY CacheAssumption
     DEF CacheAssumption, Inductive, TypeOK, StateTyped, Cancel, unchangedCache, ring, user,
         request
<1>2. RangeFits' /\ BytesThere' /\ LinearInOrder'
  BY CacheKept DEF Inductive, Cancel, unchangedCache, ring, user
<1>3. UserTracked'
  BY Numbers
     DEF Inductive, TypeOK, UserTracked, InControl, Positions, Cancel, unchangedCache, ring,
         user, request
<1>q. QED
  BY <1>1, <1>2, <1>3 DEF Inductive

(* cache_fill ends without having read: the range becomes the window.      *)
LEMMA WindowStepPreserves ==
  ASSUME Inductive, FillSeekFails \/ FillCancelled \/ FillFull
  PROVE  Inductive'
<1>1. /\ TypeOK /\ StateTyped /\ RangeFits /\ BytesThere /\ LinearInOrder /\ UserTracked
      /\ cpc = "loop" /\ cpc' \in {"loop", "sleep"}
  BY DEF Inductive, FillSeekFails, FillCancelled, FillFull, CacheRuns, FillDone, LoopEnd
<1>2. /\ SetWindow(Window) /\ (tell' = SoughtTell \/ (seekable /\ tell' = tell))
      /\ UNCHANGED <<seekable, buffer, buffer_size, seek_limit, read_filepos, fill, user,
                     cancelled, control_arg, control_flush>>
  BY DEF FillSeekFails, FillCancelled, FillFull, MustSeek, FillDone, LoopEnd
<1>3. /\ RangeFits' /\ BytesThere' /\ LinearInOrder'
      /\ {offset, min_filepos, max_filepos}' \subseteq Nat
      /\ max_filepos' \in {max_filepos, read_filepos}
  BY <1>1, <1>2, WindowSet
<1>4. control' \in {control, "NONE"} /\ upc' \in {upc, UserWoken}
      /\ (control' \in {"SIZE", "SEEK"} => control = control')
      /\ (control = "NONE" => control' = "NONE")
  BY <1>1
     DEF FillSeekFails, FillCancelled, FillFull, CacheRuns, FillDone, LoopEnd, WakeUser
<1>5. eof' \in BOOLEAN /\ idle' \in BOOLEAN /\ fails' \in Nat
      /\ (eof' => cancelled \/ fails' > 0 \/ (eof /\ max_filepos' = max_filepos /\ fails' = fails))
  <2>1. CASE FillSeekFails
    BY <1>1, <2>1 DEF FillSeekFails, FillDone, StateTyped
  <2>2. CASE FillCancelled
    BY <1>1, <2>2 DEF FillCancelled, FillDone, StateTyped
  <2>3. CASE FillFull
    <3>1. eof' = Window.eof /\ idle' = TRUE /\ fails' = fails /\ max_filepos' = Window.max
      BY <2>3 DEF FillFull, SetWindow
    <3>2. eof \in BOOLEAN /\ fails \in Nat
      BY <1>1 DEF TypeOK, StateTyped
    <3>q. QED
      BY <1>1, <3>1, <3>2, WindowCases
  <2>q. QED
    BY <2>1, <2>2, <2>3
<1>6. tell' \in {tell, max_filepos'} /\ tell' \in Nat
  BY <1>1, <1>2, <1>3, Numbers DEF SoughtTell, SetWindow
<1>7. TypeOK' /\ StateTyped'
  <2>1. {seek_limit, offset, min_filepos, max_filepos, read_filepos, tell, pos, want}'
          \subseteq Nat
    BY <1>1, <1>2, <1>3, <1>6, Numbers DEF user
  <2>2. TypeOK'
    BY <1>1, <1>2, <1>4, <1>5, <2>1 DEF TypeOK, UserWoken
  <2>3. StateTyped'
    BY <1>1, <1>2, <1>5 DEF StateTyped, user
  <2>q. QED
    BY <2>2, <2>3
<1>8. UserTracked'
  BY <1>1, <1>2, <1>3, <1>4, <1>5, <1>6
     DEF UserTracked, user, UserWoken, InControl, Positions
<1>q. QED
  BY <1>3, <1>7, <1>8 DEF Inductive

(* A read of the source begins.                                            *)
LEMMA FillBeginPreserves ==
  ASSUME Inductive, FillBegin
  PROVE  Inductive'
<1>1. TypeOK /\ StateTyped /\ RangeFits /\ BytesThere /\ LinearInOrder /\ UserTracked
  BY DEF Inductive
<1>2. /\ fill' \in Nat \X Nat /\ fill'[2] > 0
      /\ fill'[1] = WriteCell(Window)
      /\ fill'[1] \in Nat /\ fill'[1] + fill'[2] <= buffer_size
      /\ min_filepos' \in Nat /\ min_filepos' >= Window.min
      /\ max_filepos' = Window.max /\ offset' = Window.offset
      /\ max_filepos' + fill'[2] - min_filepos' <= buffer_size
      /\ min_filepos' <= MPMAX(Window.min, read_filepos - back_size)
      /\ tell' = max_filepos'
  BY <1>1, ReadBegins
<1>3. /\ cpc' = "read" /\ eof' = Window.eof
      /\ UNCHANGED <<seekable, buffer_size, seek_limit, read_filepos, idle, control, control_arg,
                     control_flush, pos, want, got, calls, upc, fails, cancelled>>
  BY DEF FillBegin, request, user
<1>4. buffer' = [i \in DOMAIN buffer |->
                   IF i \in fill'[1]..(fill'[1] + fill'[2] - 1) THEN NoByte ELSE buffer[i]]
  BY DEF FillBegin
<1>5. \/ /\ min_filepos <= read_filepos /\ Window.min = min_filepos
         /\ max_filepos' = max_filepos /\ offset' = offset /\ eof' = eof
      \/ /\ Window.min = read_filepos /\ max_filepos' = read_filepos
         /\ offset' = read_filepos /\ eof' = FALSE
  BY <1>1, <1>2, <1>3, WindowCases
<1>6. max_filepos' \in Nat /\ offset' \in Nat /\ max_filepos' \in {max_filepos, read_filepos}
  BY <1>1, <1>5, Numbers
<1>7. TypeOK' /\ StateTyped'
  <2>1. buffer' \in [0..(buffer_size - 1) -> {NoByte} \cup 0..(FileSize - 1)]
    BY <1>1, <1>4 DEF TypeOK
  <2>2. {seek_limit, offset, min_filepos, max_filepos, read_filepos, tell, pos, want}'
          \subseteq Nat
    BY <1>1, <1>2, <1>3, <1>6, Numbers
  <2>3. eof' \in BOOLEAN
    BY <1>1, <1>5 DEF TypeOK
  <2>4. TypeOK'
    BY <1>1, <1>3, <2>1, <2>2, <2>3 DEF TypeOK
  <2>5. StateTyped'
    BY <1>1, <1>2, <1>3 DEF StateTyped
  <2>q. QED
    BY <2>4, <2>5
<1>8. fill'[1] = CellOf(max_filepos)'
  <2>1. WriteCell(Window) = LET p == max_filepos' - offset'
                            IN  IF p >= buffer_size THEN p - buffer_size ELSE p
    BY <1>2 DEF WriteCell
  <2>2. max_filepos' - offset' >= 0 /\ buffer_size \in Nat
    <3>1. max_filepos - offset >= 0
      BY <1>1, Numbers DEF RangeFits
    <3>q. QED
      BY <1>1, <1>5, <3>1, Numbers
  <2>q. QED
    BY <1>2, <1>3, <1>6, <2>1, <2>2 DEF CellOf
<1>9. RangeFits'
  <2>1. max_filepos' - offset' \in 0..(2 * buffer_size - 1)
    <3>1. max_filepos - offset \in 0..(2 * buffer_size - 1) /\ buffer_size > 0
      BY <1>1, Numbers DEF RangeFits, StateTyped
    <3>q. QED
      BY <1>1, <1>5, <3>1, Numbers
  <2>2. max_filepos' - min_filepos' <= buffer_size
    BY <1>1, <1>2, <1>6, Numbers
  <2>q. QED
    BY <1>2, <1>3, <1>8, <2>1, <2>2 DEF RangeFits
<1>10. BytesThere'
  <2>1. CASE UNCHANGED <<max_filepos, offset>> /\ Window.min = min_filepos
    <3>1. SUFFICES ASSUME NEW p \in min_filepos'..(max_filepos - 1)
                   PROVE  buffer'[CellOf(p)] = p
      BY <1>3, <2>1 DEF BytesThere, CellOf
    <3>2. /\ CellOf(p) \in 0..(buffer_size - 1)
          /\ CellOf(p) \notin fill'[1]..(fill'[1] + fill'[2] - 1)
      <4>1. CellOf(max_filepos) = fill'[1]
        BY <1>3, <1>8, <2>1 DEF CellOf
      <4>2. fill'[2] \in Nat
        BY <1>2
      <4>q. QED
        BY <1>1, <1>2, <2>1, <4>1, <4>2, CellsInRange
    <3>3. p \in min_filepos..(max_filepos - 1)
      BY <1>1, <1>2, <2>1, Numbers
    <3>q. QED
      BY <1>1, <1>4, <3>2, <3>3 DEF BytesThere, TypeOK
  <2>2. CASE Window.min = max_filepos'
    BY <1>2, <1>6, <2>2 DEF BytesThere
  <2>q. QED
    BY <1>5, <2>1, <2>2
<1>11. LinearInOrder'
  <2>1. SUFFICES ASSUME ~seekable
                 PROVE  min_filepos' <= read_filepos /\ read_filepos <= max_filepos'
    BY <1>2, <1>3 DEF LinearInOrder
  <2>2. Window.min = min_filepos /\ Window.max = max_filepos
    BY <1>1, <2>1, LinearWindow
  <2>q. QED
    BY <1>1, <1>2, <2>1, <2>2, Numbers DEF LinearInOrder, MPMAX
<1>12. UserTracked'
  BY <1>1, <1>2, <1>3, <1>5, <1>6 DEF UserTracked, InControl, Positions
<1>q. QED
  BY <1>7, <1>9, <1>10, <1>11, <1>12 DEF Inductive

(* The source has delivered len cells: they follow the range.              *)
LEMMA FillEndPreserves ==
  ASSUME Inductive, NEW len \in 0..ReadChunk, FillEnd(len)
  PROVE  Inductive'
<1>1. TypeOK /\ StateTyped /\ RangeFits /\ BytesThere /\ LinearInOrder /\ UserTracked
  BY DEF Inductive
<1> DEFINE c == fill[1]
           n == fill[2]
<1>2. /\ cpc = "read" /\ len \in Nat /\ len <= n
      /\ c \in Nat /\ n \in Nat /\ c = CellOf(max_filepos) /\ c + n <= buffer_size
      /\ max_filepos + n - min_filepos <= buffer_size /\ tell = max_filepos
  BY <1>1, CacheAssumption DEF CacheAssumption, FillEnd, RangeFits, StateTyped
<1>3. len <= FileSize - tell \/ len = 0
  BY <1>1, Numbers, CacheAssumption DEF CacheAssumption, FillEnd, MPMAX
<1>4. /\ buffer' = [i \in DOMAIN buffer |->
                      IF i \in c..(c + len - 1) THEN tell + (i - c) ELSE buffer[i]]
      /\ tell' = tell + len /\ max_filepos' = max_filepos + len
      /\ offset' = (IF c + len = buffer_size THEN offset + buffer_size ELSE offset)
      /\ fill' = <<0, 0>>
      /\ UNCHANGED <<seekable, buffer_size, seek_limit, min_filepos, read_filepos, pos, want, got,
                     calls, cancelled, control_arg, control_flush>>
  BY DEF FillEnd, FillDone, LoopEnd, user
<1>5. /\ cpc' \in {"loop", "sleep"} /\ control' \in {control, "NONE"} /\ upc' \in {upc, UserWoken}
      /\ eof' = (len = 0) /\ idle' = (len = 0)
      /\ fails' \in Nat /\ fails' >= fails
      /\ len = 0 /\ tell < FileSize /\ ~cancelled => fails' > 0
  BY <1>1 DEF StateTyped, FillEnd, FillDone, LoopEnd, WakeUser
<1>6. /\ max_filepos - offset \in 0..(2 * buffer_size - 1) /\ max_filepos \in Nat
      /\ offset \in Nat /\ buffer_size \in Nat /\ min_filepos \in Nat /\ read_filepos \in Nat
      /\ c = IF max_filepos - offset >= buffer_size
             THEN max_filepos - offset - buffer_size ELSE max_filepos - offset
  BY <1>1, <1>2, Numbers DEF RangeFits, CellOf
<1> HIDE DEF c, n
<1>7. TypeOK' /\ StateTyped'
  <2>1. buffer' \in [0..(buffer_size - 1) -> {NoByte} \cup 0..(FileSize - 1)]
    <3>1. ASSUME NEW i \in c..(c + len - 1)
          PROVE  tell + (i - c) \in 0..(FileSize - 1)
      BY <1>1, <1>2, <1>3, Numbers, CacheAssumption DEF CacheAssumption
    <3>q. QED
      BY <1>1, <1>4, <3>1 DEF TypeOK
  <2>2. {seek_limit, offset, min_filepos, max_filepos, read_filepos, tell, pos, want}'
          \subseteq Nat
    BY <1>1, <1>2, <1>4, <1>6, Numbers
  <2>3. TypeOK'
    BY <1>1, <1>4, <1>5, <2>1, <2>2 DEF TypeOK, UserWoken
  <2>4. StateTyped'
    BY <1>1, <1>4, <1>5 DEF StateTyped
  <2>q. QED
    BY <2>3, <2>4
<1>8. RangeFits'
  <2>1. max_filepos' - offset' \in 0..(2 * buffer_size - 1)
    BY <1>2, <1>4, <1>6
  <2>2. max_filepos' - min_filepos' <= buffer_size
    BY <1>2, <1>4, <1>6
  <2>q. QED
    BY <1>4, <1>5, <2>1, <2>2 DEF RangeFits
<1>9. BytesThere'
  <2>1. SUFFICES ASSUME NEW p \in min_filepos'..(max_filepos' - 1)
                 PROVE  buffer'[CellOf(p)'] = p
    BY DEF BytesThere
  <2>2. p \in Nat /\ p >= min_filepos /\ p < max_filepos + len /\ p < offset + 2 * buffer_size
        /\ p - offset >= -buffer_size
    BY <1>2, <1>4, <1>6
  <2>3. CellOf(p)' = CellOf(p)
    <3>1. CellOf(p)' = LET b == p - offset' IN IF b < 0 THEN b + buffer_size
                         ELSE IF b >= buffer_size THEN b - buffer_size ELSE b
      BY <1>4 DEF CellOf
    <3>2. CASE c + len = buffer_size
      <4>1. offset' = offset + buffer_size
        BY <1>4, <3>2
      <4>2. p - offset >= 0
        BY <1>2, <1>6, <2>2, <3>2
      <4>q. QED
        BY <1>2, <1>6, <2>2, <3>1, <3>2, <4>1, <4>2 DEF CellOf
    <3>3. CASE c + len # buffer_size
      BY <1>4, <3>1, <3>3 DEF CellOf
    <3>q. QED
      BY <3>2, <3>3
  <2>4. CASE p < max_filepos
    <3>1. p \in min_filepos..(max_filepos - 1)
      BY <1>6, <2>2, <2>4
    <3>2. CellOf(p) \in 0..(buffer_size - 1) /\ CellOf(p) \notin c..(c + n - 1)
      BY <1>1, <1>2, <1>6, <3>1, CellsInRange
    <3>3. CellOf(p) \notin c..(c + len - 1)
      BY <1>2, <3>2
    <3>q. QED
      BY <1>1, <1>4, <2>3, <3>1, <3>2, <3>3 DEF BytesThere, TypeOK
  <2>5. CASE p >= max_filepos
    <3>1. p \in max_filepos..(max_filepos + n - 1)
      BY <1>2, <1>6, <2>2, <2>5
    <3>2. CellOf(p) = c + (p - max_filepos)
      BY <1>1, <1>2, <1>6, <3>1, CellsInRange
    <3>3. CellOf(p) \in c..(c + len - 1) /\ CellOf(p) \in 0..(buffer_size - 1)
      BY <1>2, <1>6, <2>2, <2>5, <3>2
    <3>4. buffer'[CellOf(p)] = tell + (CellOf(p) - c)
      BY <1>1, <1>4, <3>3 DEF TypeOK
    <3>q. QED
      BY <1>2, <1>6, <2>2, <2>3, <3>2, <3>4
  <2>q. QED
    BY <1>6, <2>2, <2>4, <2>5
<1>10. LinearInOrder'
  BY <1>1, <1>2, <1>4, <1>6 DEF LinearInOrder
<1>11. UserTracked'
  <2>1. max_filepos' \in Positions
    BY <1>1, <1>2, <1>3, <1>4, <1>6, CacheAssumption
       DEF CacheAssumption, UserTracked, Positions
  <2>2. eof' /\ ~cancelled => fails' > 0 \/ max_filepos' >= FileSize
    <3>1. CASE len = 0 /\ ~(tell < FileSize)
      BY <1>2, <1>4, <1>6, <3>1, CacheAssumption DEF CacheAssumption
    <3>2. CASE len = 0 /\ tell < FileSize
      BY <1>5, <3>2
    <3>q. QED
      BY <1>5, <3>1, <3>2
  <2>q. QED
    BY <1>1, <1>2, <1>4, <1>5, <2>1, <2>2
       DEF UserTracked, InControl, UserWoken, Positions
<1>q. QED
  BY <1>7, <1>8, <1>9, <1>10, <1>11 DEF Inductive

(* resize_cache: what is copied to the new buffer keeps its position.      *)
LEMMA ExecuteSizePreserves ==
  ASSUME Inductive, LinearGrows, ExecuteSize
  PROVE  Inductive'
<1>1. /\ TypeOK /\ StateTyped /\ RangeFits /\ BytesThere /\ LinearInOrder /\ UserTracked
      /\ fill = <<0, 0>>
  BY DEF Inductive, ExecuteSize, RangeFits
<1>2. PICK arg \in IF control_arg = 0 THEN Sizes ELSE {control_arg} :
        LET size == BufferFor(arg)
            read_1 == Ahead(size)
            read_2 == Behind(size)
        IN  /\ seekable \/ ShrinkLinear \/ size >= buffer_size
            /\ IF read_2 # BehindLen(size)
               THEN /\ cpc' = "aborted"
                    /\ UNCHANGED <<ring, seekable, seek_limit, eof, idle, request,
                                   user, upc, fails, cancelled, fill>>
               ELSE /\ buffer' = [i \in 0..(size - 1) |->
                         IF i < read_1 THEN buffer[CellOf(read_filepos + i)]
                         ELSE IF i >= size - read_2
                         THEN buffer[CellOf(read_filepos - (size - i))]
                         ELSE NoByte]
                    /\ buffer_size' = size
                    /\ seek_limit' = SeekLimitFor(size, seek_limit)
                    /\ min_filepos' = read_filepos - read_2
                    /\ max_filepos' = read_filepos + read_1
                    /\ offset' = read_filepos
                    /\ idle' = FALSE /\ eof' = FALSE
                    /\ control_flush' = FALSE
                    /\ ControlDone
  BY DEF ExecuteSize
<1> DEFINE size == BufferFor(arg)
           read_1 == Ahead(size)
           read_2 == Behind(size)
<1>3. /\ size \in Nat /\ back_size < size /\ size > 1
      /\ seek_limit \in Nat => /\ SeekLimitFor(size, seek_limit) \in Nat
                               /\ SeekLimitFor(size, seek_limit) < size
  <2>1. arg \in Nat
    BY <1>1, <1>2, CacheAssumption DEF CacheAssumption, TypeOK
  <2>2. /\ back_size \in Nat /\ size \in Nat /\ size >= back_size + 2
        /\ \A limit \in Nat : /\ SeekLimitFor(size, limit) \in Nat
                              /\ SeekLimitFor(size, limit) < size
    BY <2>1, BufferForSize
  <2> HIDE DEF size
  <2>q. QED
    BY <2>2
<1>4. CASE read_2 # BehindLen(size)
  <2>1. /\ cpc' = "aborted" /\ cpc = "loop"
        /\ UNCHANGED <<ring, seekable, seek_limit, eof, idle, request, user, upc, fails, cancelled,
                       fill, read_filepos, tell>>
    BY <1>2, <1>4 DEF ExecuteSize
  <2>2. TypeOK' /\ StateTyped'
    BY <1>1, <2>1 DEF TypeOK, StateTyped, ring, request, user
  <2>3. RangeFits' /\ BytesThere' /\ LinearInOrder'
    BY <1>1, <2>1, CacheKept
  <2>4. UserTracked'
    BY <1>1, <2>1 DEF UserTracked, InControl, Positions, ring, request, user
  <2>q. QED
    BY <2>2, <2>3, <2>4 DEF Inductive
<1>5. CASE read_2 = BehindLen(size)
  <2>1. /\ buffer' = [i \in 0..(size - 1) |->
                       IF i < read_1 THEN buffer[CellOf(read_filepos + i)]
                       ELSE IF i >= size - read_2
                       THEN buffer[CellOf(read_filepos - (size - i))]
                       ELSE NoByte]
        /\ buffer_size' = size
        /\ seek_limit' = SeekLimitFor(size, seek_limit)
        /\ min_filepos' = read_filepos - read_2
        /\ max_filepos' = read_filepos + read_1
        /\ offset' = read_filepos
        /\ idle' = FALSE /\ eof' = FALSE
        /\ control_flush' = FALSE
        /\ ControlDone /\ UNCHANGED <<read_filepos, tell>>
        /\ seekable \/ ShrinkLinear \/ size >= buffer_size
    BY <1>2, <1>5 DEF ExecuteSize
  <2>2. /\ cpc' \in {"loop", "sleep"} /\ control' = "NONE" /\ upc' \in {upc, UserWoken}
        /\ UNCHANGED <<seekable, pos, want, got, calls, fails, cancelled, fill, control_arg>>
    BY <2>1 DEF ControlDone, LoopEnd, WakeUser, user
  <2> HIDE DEF size
  <2>3. /\ read_1 \in Nat /\ read_1 <= size
        /\ \A i \in Nat : i < read_1 =>
             read_filepos + i \in min_filepos..(max_filepos - 1)
    <3>1. CASE Cached(read_filepos)
      <4>1. read_1 = MPMIN(size, max_filepos - read_filepos)
        BY <3>1 DEF Ahead, Available
      <4>2. min_filepos <= read_filepos /\ read_filepos < max_filepos
        BY <3>1 DEF Cached
      <4> HIDE DEF read_1
      <4>q. QED
        BY <1>1, <1>3, <4>1, <4>2, Numbers DEF MPMIN
    <3>2. CASE ~Cached(read_filepos)
      BY <1>3, <3>2 DEF Ahead, Available
    <3>q. QED
      BY <3>1, <3>2
  <2>4. /\ read_2 \in Nat /\ read_1 + read_2 <= size /\ read_2 <= read_filepos
        /\ \A i \in Nat : i > 0 /\ i <= read_2 =>
             read_filepos - i \in min_filepos..(max_filepos - 1)
        /\ min_filepos <= read_filepos => read_filepos - read_2 >= min_filepos
    <3> HIDE DEF read_1
    <3>1. CASE min_filepos < read_filepos
      <4> DEFINE len == BehindLen(size)
      <4>1. len = MPMIN(size - read_1, read_filepos - min_filepos)
        BY <3>1 DEF BehindLen, read_1
      <4>2. len \in Nat /\ len <= size - read_1 /\ len <= read_filepos - min_filepos
        BY <1>1, <1>3, <2>3, <3>1, <4>1, Numbers DEF MPMIN
      <4>3. read_2 = len
        BY <1>5
      <4>4. read_2 = IF Cached(read_filepos - len)
                     THEN MPMIN(len, max_filepos - (read_filepos - len)) ELSE 0
        BY DEF Behind, Available
      <4> HIDE DEF len, read_2
      <4>5. len > 0 => read_filepos <= max_filepos
        BY <1>1, <4>2, <4>3, <4>4, Numbers DEF MPMIN
      <4>q. QED
        BY <1>1, <1>3, <2>3, <4>2, <4>3, <4>5, Numbers
    <3>2. CASE ~(min_filepos < read_filepos)
      <4>1. read_2 = 0
        BY <1>5, <3>2 DEF BehindLen
      <4> HIDE DEF read_2
      <4>q. QED
        BY <1>1, <1>3, <2>3, <4>1, Numbers
    <3>q. QED
      BY <3>1, <3>2
  <2> HIDE DEF read_1, read_2
  <2>5. \A p \in min_filepos..(max_filepos - 1) :
          /\ CellOf(p) \in 0..(buffer_size - 1) /\ buffer[CellOf(p)] = p
          /\ p \in 0..(FileSize - 1)
    <3>1. SUFFICES ASSUME NEW p \in min_filepos..(max_filepos - 1)
                   PROVE  /\ CellOf(p) \in 0..(buffer_size - 1) /\ buffer[CellOf(p)] = p
                          /\ p \in 0..(FileSize - 1)
      OBVIOUS
    <3>2. buffer[CellOf(p)] = p
      BY <1>1 DEF BytesThere
    <3>3. CellOf(p) \in 0..(buffer_size - 1)
      BY <1>1, Cells
    <3>4. buffer[CellOf(p)] \in {NoByte} \cup 0..(FileSize - 1)
      BY <1>1, <3>3 DEF TypeOK
    <3>5. p # NoByte
      BY <1>1, Numbers DEF NoByte
    <3>q. QED
      BY <3>2, <3>3, <3>4, <3>5
  <2>6. TypeOK' /\ StateTyped'
    <3>1. buffer' \in [0..(size - 1) -> {NoByte} \cup 0..(FileSize - 1)]
      <4>1. ASSUME NEW i \in 0..(size - 1), i < read_1
            PROVE  buffer[CellOf(read_filepos + i)] \in 0..(FileSize - 1)
        BY <2>3, <2>5, <4>1
      <4>2. ASSUME NEW i \in 0..(size - 1), i >= size - read_2
            PROVE  buffer[CellOf(read_filepos - (size - i))] \in 0..(FileSize - 1)
        <5>1. size - i \in Nat /\ size - i > 0 /\ size - i <= read_2
          BY <1>3, <2>4, <4>2
        <5>q. QED
          BY <2>4, <2>5, <5>1
      <4>q. QED
        BY <2>1, <4>1, <4>2
    <3>2. {seek_limit, offset, min_filepos, max_filepos, read_filepos, tell, pos, want}'
            \subseteq Nat
      <4>1. read_filepos - read_2 \in Nat /\ read_filepos + read_1 \in Nat
        BY <1>1, <2>3, <2>4, Numbers
      <4>2. seek_limit' \in Nat
        BY <1>1, <1>3, <2>1, Numbers
      <4>q. QED
        BY <1>1, <2>1, <2>2, <4>1, <4>2, Numbers
    <3>3. TypeOK'
      BY <1>1, <1>3, <2>1, <2>2, <3>1, <3>2 DEF TypeOK, UserWoken
    <3>4. StateTyped'
      BY <1>1, <1>3, <2>1, <2>2, Numbers DEF StateTyped
    <3>q. QED
      BY <3>3, <3>4
  <2>7. RangeFits'
    <3>1. max_filepos' - offset' = read_1 /\ max_filepos' - min_filepos' = read_1 + read_2
      BY <1>1, <2>1, <2>3, <2>4, Numbers
    <3>q. QED
      BY <1>1, <1>3, <2>1, <2>2, <2>3, <2>4, <3>1 DEF RangeFits
  <2>8. BytesThere'
    <3>1. SUFFICES ASSUME NEW p \in min_filepos'..(max_filepos' - 1)
                   PROVE  buffer'[CellOf(p)'] = p
      BY DEF BytesThere
    <3>2. p \in Nat /\ p >= read_filepos - read_2 /\ p < read_filepos + read_1
      <4>1. read_filepos \in Nat /\ read_1 \in Nat /\ read_2 \in Nat /\ read_2 <= read_filepos
        BY <1>1, <2>3, <2>4, Numbers
      <4>2. p \in (read_filepos - read_2)..(read_filepos + read_1 - 1)
        <5>1. max_filepos' = read_filepos + read_1
          BY <2>1
        <5>2. min_filepos' = read_filepos - read_2
          BY <2>1
        <5>3. max_filepos' - 1 = read_filepos + read_1 - 1
          BY <4>1, <5>1
        <5>q. QED
          BY <5>2, <5>3
      <4>3. read_filepos - read_2 \in Nat
        BY <4>1
      <4>q. QED
        BY <4>1, <4>2, <4>3
    <3>3. CellOf(p)' = LET b == p - read_filepos
                       IN  IF b < 0 THEN b + size ELSE IF b >= size THEN b - size ELSE b
      BY <2>1 DEF CellOf
    <3>4. CASE p >= read_filepos
      <4>1. CellOf(p)' = p - read_filepos /\ p - read_filepos \in 0..(size - 1)
            /\ p - read_filepos < read_1
        BY <1>1, <1>3, <2>3, <3>2, <3>3, <3>4, Numbers
      <4>2. buffer'[CellOf(p)'] = buffer[CellOf(read_filepos + (p - read_filepos))]
        BY <2>1, <4>1
      <4>3. read_filepos + (p - read_filepos) = p
        BY <1>1, <3>2, Numbers
      <4>4. p \in min_filepos..(max_filepos - 1)
        BY <2>3, <4>1, <4>3
      <4>q. QED
        BY <2>5, <4>2, <4>3, <4>4
    <3>5. CASE p < read_filepos
      <4>1. /\ CellOf(p)' = size - (read_filepos - p) /\ size - (read_filepos - p) \in 0..(size - 1)
            /\ size - (read_filepos - p) >= size - read_2
            /\ ~(size - (read_filepos - p) < read_1)
        BY <1>1, <1>3, <2>3, <2>4, <3>2, <3>3, <3>5, Numbers
      <4>2. buffer'[CellOf(p)'] = buffer[CellOf(read_filepos - (size - CellOf(p)'))]
        BY <2>1, <4>1
      <4>3. read_filepos - (size - CellOf(p)') = p
        BY <1>1, <1>3, <3>2, <4>1, Numbers
      <4>4. p \in min_filepos..(max_filepos - 1)
        <5>1. read_filepos - p \in Nat /\ read_filepos - p > 0 /\ read_filepos - p <= read_2
              /\ read_filepos - (read_filepos - p) = p
          BY <1>1, <2>4, <3>2, <3>5, Numbers
        <5>q. QED
          BY <2>4, <5>1
      <4>q. QED
        BY <2>5, <4>2, <4>3, <4>4
    <3>q. QED
      BY <1>1, <3>2, <3>4, <3>5, Numbers
  <2>9. LinearInOrder'
    <3>1. SUFFICES ASSUME ~seekable
                   PROVE  /\ tell' = max_filepos' /\ min_filepos' <= read_filepos'
                          /\ read_filepos' <= max_filepos'
      BY <2>2 DEF LinearInOrder
    <3>2. size >= buffer_size
      <4>1. FALSE \in Kinds
        BY <1>1, <3>1, CacheAssumption DEF CacheAssumption, StateTyped
      <4>q. QED
        BY <2>1, <3>1, <4>1, CacheAssumption DEF CacheAssumption, LinearGrows
    <3>3. tell = max_filepos /\ min_filepos <= read_filepos /\ read_filepos <= max_filepos
      BY <1>1, <3>1 DEF LinearInOrder
    <3>4. read_1 = max_filepos - read_filepos
      <4>1. max_filepos - min_filepos <= buffer_size
        BY <1>1 DEF RangeFits
      <4>q. QED
        BY <1>1, <1>3, <3>2, <3>3, <4>1, Numbers DEF read_1, Ahead, Available, Cached, MPMIN
    <3>q. QED
      <4>1. max_filepos' = max_filepos
        BY <1>1, <2>1, <3>4, Numbers
      <4>2. min_filepos' <= read_filepos
        BY <1>1, <2>1, <2>4, Numbers
      <4>q. QED
        BY <2>1, <3>3, <4>1, <4>2
  <2>10. UserTracked'
    <3>1. max_filepos' \in Positions
      <4>1. CASE read_1 = 0
        BY <1>1, <2>1, <4>1, Numbers DEF UserTracked
      <4>2. CASE read_1 # 0
        <5>1. read_1 - 1 \in Nat /\ read_1 - 1 < read_1
          BY <2>3, <4>2
        <5>2. read_filepos + (read_1 - 1) \in 0..(FileSize - 1)
          BY <2>3, <2>5, <5>1
        <5>3. read_filepos + read_1 \in 0..FileSize
          BY <1>1, <2>3, <5>2, Numbers, CacheAssumption DEF CacheAssumption
        <5>q. QED
          BY <2>1, <5>3 DEF Positions
      <4>q. QED
        BY <4>1, <4>2
    <3>2. pos # read_filepos /\ ~cancelled => FALSE
      BY <1>1 DEF UserTracked, ExecuteSize
    <3>q. QED
      BY <1>1, <2>1, <2>2, <3>1, <3>2 DEF UserTracked, InControl, UserWoken, Positions
  <2>q. QED
    BY <2>6, <2>7, <2>8, <2>9, <2>10 DEF Inductive
<1>q. QED
  BY <1>4, <1>5

(* A control that moves the source: nothing is cached any more.            *)
LEMMA ExecuteSeekPreserves ==
  ASSUME Inductive, ExecuteSeek
  PROVE  Inductive'
<1>1. /\ TypeOK /\ StateTyped /\ RangeFits /\ BytesThere /\ LinearInOrder /\ UserTracked
      /\ cpc = "loop" /\ control = "SEEK"
  BY DEF Inductive, ExecuteSeek
<1>2. PICK p \in SeekPos \cup {tell} :
        /\ tell' = p /\ read_filepos' = p
        /\ min_filepos' = p /\ max_filepos' = p /\ offset' = p
  BY DEF ExecuteSeek, SetWindow, Emptied
<1>3. p \in Nat /\ p \in Positions
  BY <1>1, Numbers, CacheAssumption DEF CacheAssumption, UserTracked, Positions
<1>4. /\ cpc' \in {"loop", "sleep"} /\ control' = "NONE" /\ upc' \in {upc, UserWoken}
      /\ eof' = FALSE /\ control_flush' = TRUE
      /\ UNCHANGED <<seekable, buffer, buffer_size, seek_limit, idle, pos, want, got, calls, fails,
                     cancelled, fill, control_arg>>
  BY DEF ExecuteSeek, ControlDone, LoopEnd, WakeUser, user
<1>5. TypeOK' /\ StateTyped'
  <2>1. {seek_limit, offset, min_filepos, max_filepos, read_filepos, tell, pos, want}'
          \subseteq Nat
    BY <1>1, <1>2, <1>3, <1>4, Numbers
  <2>2. TypeOK'
    BY <1>1, <1>4, <2>1 DEF TypeOK, UserWoken
  <2>3. StateTyped'
    BY <1>1, <1>4 DEF StateTyped
  <2>q. QED
    BY <2>2, <2>3
<1>6. RangeFits'
  <2>1. buffer_size \in Nat /\ buffer_size > 0 /\ fill = <<0, 0>>
    BY <1>1, Numbers DEF StateTyped, RangeFits
  <2>q. QED
    BY <1>2, <1>3, <1>4, <2>1 DEF RangeFits
<1>7. BytesThere' /\ LinearInOrder'
  BY <1>2, <1>3 DEF BytesThere, LinearInOrder
<1>8. UserTracked'
  BY <1>1, <1>2, <1>3, <1>4 DEF UserTracked, InControl, UserWoken, Positions
<1>q. QED
  BY <1>5, <1>6, <1>7, <1>8 DEF Inductive

(* The user reads what is cached, in order.                                *)
LEMMA Delivered ==
  ASSUME Inductive, ReadDelivers
  PROVE  \E k \in Nat \ {0} :
           /\ got' = [i \in 1..k |-> read_filepos + i - 1]
           /\ got' \in Seq(Nat) /\ Len(got') = k
           /\ read_filepos' = read_filepos + k /\ pos' = pos + k
           /\ read_filepos + k <= FileSize /\ read_filepos + k <= max_filepos
<1>1. /\ TypeOK /\ StateTyped /\ RangeFits /\ BytesThere
      /\ got' = read_buffer(read_filepos, want) /\ got' # <<>>
      /\ read_filepos' = read_filepos + Len(got') /\ pos' = pos + Len(got')
  BY DEF Inductive, ReadDelivers
<1> DEFINE k == Available(read_filepos, want)
<1>2. k \in Nat /\ (k > 0 => Cached(read_filepos) /\ read_filepos + k <= max_filepos)
  BY <1>1, Numbers DEF Available, Cached, MPMIN
<1> HIDE DEF k
<1>3. got' = [i \in 1..k |-> buffer[CellOf(read_filepos + i - 1)]]
  BY <1>1 DEF read_buffer, k
<1>4. ASSUME NEW i \in 1..k
      PROVE  /\ buffer[CellOf(read_filepos + i - 1)] = read_filepos + i - 1
             /\ read_filepos + i - 1 \in 0..(FileSize - 1)
  <2>1. read_filepos + i - 1 \in min_filepos..(max_filepos - 1)
    <3>1. /\ min_filepos <= read_filepos /\ read_filepos + k <= max_filepos
          /\ i \in Nat /\ i >= 1 /\ i <= k
      BY <1>2 DEF Cached
    <3>2. read_filepos \in Nat /\ min_filepos \in Nat /\ max_filepos \in Nat /\ k \in Nat
      BY <1>1, <1>2, Numbers
    <3>q. QED
      BY <3>1, <3>2
  <2>2. buffer[CellOf(read_filepos + i - 1)] = read_filepos + i - 1
    BY <1>1, <2>1 DEF BytesThere
  <2>3. CellOf(read_filepos + i - 1) \in 0..(buffer_size - 1)
    BY <1>1, <2>1, Cells
  <2>4. buffer[CellOf(read_filepos + i - 1)] \in {NoByte} \cup 0..(FileSize - 1)
    BY <1>1, <2>3 DEF TypeOK
  <2>5. read_filepos + i - 1 # NoByte
    BY <1>1, Numbers DEF NoByte
  <2>q. QED
    BY <2>2, <2>4, <2>5
<1>5. got' = [i \in 1..k |-> read_filepos + i - 1]
  BY <1>3, <1>4
<1>6. k # 0
  <2>1. SUFFICES ASSUME k = 0
                 PROVE  got' = <<>>
    BY <1>1
  <2>2. got' = [i \in 1..0 |-> read_filepos + i - 1]
    BY <1>5, <2>1
  <2>3. got' \in Seq(Nat) /\ Len(got') = 0
    BY <2>2
  <2>q. QED
    BY <2>3, EmptySeq
<1>7. got' \in Seq(Nat) /\ Len(got') = k
  <2>1. \A i \in 1..k : read_filepos + i - 1 \in Nat
    BY <1>1, <1>2, Numbers
  <2> DEFINE seq == [i \in 1..k |-> read_filepos + i - 1]
  <2>2. seq \in [1..k -> Nat]
    BY <2>1
  <2> HIDE DEF seq
  <2>3. seq \in Seq(Nat) /\ Len(seq) = k
    BY <1>2, <2>2
  <2>q. QED
    BY <1>5, <2>3 DEF seq
<1>8. read_filepos + k <= FileSize
  <2>1. read_filepos + k - 1 \in 0..(FileSize - 1)
    BY <1>2, <1>4, <1>6
  <2>2. read_filepos \in Nat /\ FileSize \in Nat
    BY <1>1, Numbers, CacheAssumption DEF CacheAssumption
  <2>q. QED
    BY <1>2, <2>1, <2>2
<1>q. QED
  BY <1>1, <1>2, <1>5, <1>6, <1>7, <1>8

(* A read delivers what is cached: those are the bytes of the source.      *)
LEMMA ReadDeliversPreserves ==
  ASSUME Inductive, ReadDelivers
  PROVE  Inductive'
<1>1. /\ TypeOK /\ StateTyped /\ RangeFits /\ BytesThere /\ LinearInOrder /\ UserTracked
  BY DEF Inductive
<1>2. PICK k \in Nat \ {0} :
        /\ got' = [i \in 1..k |-> read_filepos + i - 1]
        /\ got' \in Seq(Nat) /\ Len(got') = k
        /\ read_filepos' = read_filepos + k /\ pos' = pos + k
        /\ read_filepos + k <= FileSize /\ read_filepos + k <= max_filepos
  BY Delivered
<1>3. /\ upc = "read" /\ upc' = "call" /\ ((cpc' = "read") <=> (cpc = "read"))
      /\ cpc' \in {cpc, "woken"} /\ want' = 0
      /\ UNCHANGED <<seekable, ring, seek_limit, eof, idle, request, tell, fill, calls, fails,
                     cancelled>>
  BY DEF ReadDelivers, WakeCache
<1>4. TypeOK' /\ StateTyped'
  <2>1. {seek_limit, offset, min_filepos, max_filepos, read_filepos, tell, pos, want}'
          \subseteq Nat
    <3>1. read_filepos \in Nat /\ pos \in Nat /\ k \in Nat
      BY <1>1, Numbers
    <3>2. read_filepos' \in Nat /\ pos' \in Nat
      BY <1>2, <3>1
    <3>q. QED
      BY <1>1, <1>3, <3>2, Numbers DEF ring
  <2>2. TypeOK'
    BY <1>1, <1>3, <2>1 DEF TypeOK, ring, request
  <2>3. StateTyped'
    BY <1>1, <1>2, <1>3 DEF StateTyped, ring
  <2>q. QED
    BY <2>2, <2>3
<1>5. RangeFits' /\ BytesThere'
  BY <1>1, <1>3 DEF RangeFits, BytesThere, CellOf, ring
<1>6. LinearInOrder'
  BY <1>1, <1>2, <1>3, Numbers DEF LinearInOrder, ring
<1>7. UserTracked'
  <2>1. read_filepos' \in 0..FileSize
    <3>1. read_filepos \in Nat /\ k \in Nat /\ FileSize \in Nat
      BY <1>1, Numbers, CacheAssumption DEF CacheAssumption
    <3>q. QED
      BY <1>2, <3>1
  <2>2. ~cancelled => pos = read_filepos
    BY <1>1, <1>3 DEF UserTracked, InControl
  <2>3. ~cancelled => pos' = read_filepos'
    BY <1>2, <2>2
  <2>q. QED
    BY <1>1, <1>3, <2>1, <2>3 DEF UserTracked, InControl, Positions, ring, request
<1>q. QED
  BY <1>4, <1>5, <1>6, <1>7 DEF Inductive

(* cache_seek: of an unseekable stream, inside the range only.             *)
LEMMA SeekPreserves ==
  ASSUME Inductive, NEW p \in SeekPos, Seek(p)
  PROVE  Inductive'
<1>1. /\ TypeOK /\ StateTyped /\ RangeFits /\ BytesThere /\ LinearInOrder /\ UserTracked
      /\ p \in Nat
  BY CacheAssumption DEF CacheAssumption, Inductive
<1>2. /\ upc = "call" /\ pos' = p /\ read_filepos' = p /\ got' = <<>> /\ eof' = FALSE
      /\ cpc' \in {cpc, "woken"} /\ ((cpc' = "read") <=> (cpc = "read")) /\ calls' = calls + 1
      /\ CanSeek(p)
      /\ UNCHANGED <<seekable, ring, seek_limit, idle, request, tell, fill, want, upc, fails,
                     cancelled>>
  BY DEF Seek, WakeCache
<1>3. TypeOK' /\ StateTyped'
  <2>1. TypeOK'
    <3>1. {seek_limit, offset, min_filepos, max_filepos, read_filepos, tell, pos, want}'
            \subseteq Nat
      BY <1>1, <1>2, Numbers DEF ring
    <3>q. QED
      BY <1>1, <1>2, <3>1 DEF TypeOK, ring, request
  <2>2. StateTyped'
    BY <1>1, <1>2 DEF StateTyped, ring
  <2>q. QED
    BY <2>1, <2>2
<1>4. RangeFits' /\ BytesThere'
  BY <1>1, <1>2 DEF RangeFits, BytesThere, CellOf, ring
<1>5. LinearInOrder'
  BY <1>1, <1>2 DEF LinearInOrder, CanSeek, ring
<1>6. UserTracked'
  BY <1>1, <1>2 DEF UserTracked, InControl, Positions, ring, request
<1>q. QED
  BY <1>3, <1>4, <1>5, <1>6 DEF Inductive

(* cache_control: the caller leaves a request behind only when playback is *)
(* aborted.                                                                *)
LEMMA ControlCallPreserves ==
  ASSUME Inductive, NEW c \in {"SIZE", "SEEK"}, NEW arg \in Sizes \cup {0}, ControlCall(c, arg)
  PROVE  Inductive'
<1>1. /\ TypeOK /\ StateTyped /\ RangeFits /\ BytesThere /\ LinearInOrder /\ UserTracked
  BY DEF Inductive
<1>2. /\ upc = "call" /\ calls' = calls + 1 /\ control' = c
      /\ UNCHANGED <<unchangedCache, idle, control_flush, pos, want, got, fails, cancelled>>
      /\ \/ cancelled /\ eof' = TRUE /\ control_arg' = 0 /\ UNCHANGED <<upc, cpc>>
         \/ /\ ~cancelled /\ control_arg' = arg /\ upc' = "control_wait" /\ eof' = eof
            /\ cpc' \in {cpc, "woken"} /\ ((cpc' = "read") <=> (cpc = "read"))
  BY DEF ControlCall, WakeCache
<1>3. TypeOK' /\ StateTyped'
  <2>1. TypeOK'
    <3>1. control_arg' \in Sizes \cup {0} /\ control' \in {"SIZE", "SEEK"}
      BY <1>2
    <3>q. QED
      BY <1>1, <1>2, <3>1 DEF TypeOK, unchangedCache, ring
  <2>2. StateTyped'
    BY <1>1, <1>2 DEF StateTyped, unchangedCache, ring
  <2>q. QED
    BY <2>1, <2>2
<1>4. RangeFits' /\ BytesThere' /\ LinearInOrder'
  BY <1>1, <1>2, CacheKept DEF unchangedCache
<1>5. UserTracked'
  BY <1>1, <1>2 DEF UserTracked, InControl, Positions, unchangedCache, ring
<1>q. QED
  BY <1>3, <1>4, <1>5 DEF Inductive

(* The cache starts empty, with a buffer that fits.                        *)
LEMMA InitInductive == Init => Inductive
<1>1. SUFFICES ASSUME Init
               PROVE  Inductive
  OBVIOUS
<1>2. /\ buffer_size \in Nat /\ buffer_size >= back_size + 2 /\ back_size \in Nat
      /\ seek_limit \in Nat /\ seek_limit < buffer_size
  <2>1. (IF seekable THEN MPMIN(Size, FileSize) ELSE Size) \in Nat
    BY CacheAssumption DEF CacheAssumption, MPMIN
  <2>2. SeekMin \in Nat
    BY CacheAssumption DEF CacheAssumption
  <2>3. /\ buffer_size = BufferFor(IF seekable THEN MPMIN(Size, FileSize) ELSE Size)
        /\ seek_limit = SeekLimitFor(buffer_size, SeekMin)
    BY <1>1 DEF Init
  <2>q. QED
    BY <2>1, <2>2, <2>3, BufferForSize
<1>3. TypeOK
  <2>1. seekable \in BOOLEAN
    BY <1>1, CacheAssumption DEF CacheAssumption, Init
  <2>2. {seek_limit, offset, min_filepos, max_filepos, read_filepos, tell, pos, want} \subseteq Nat
    BY <1>1, <1>2 DEF Init
  <2>q. QED
    BY <1>1, <1>2, <2>1, <2>2 DEF Init, TypeOK
<1>4. StateTyped
  <2>1. fill \in Nat \X Nat /\ got \in Seq(Nat)
    BY <1>1 DEF Init
  <2>q. QED
    BY <1>1, <1>2, <2>1 DEF Init, StateTyped
<1>5. RangeFits /\ BytesThere /\ LinearInOrder
  BY <1>1, <1>2 DEF Init, RangeFits, BytesThere, LinearInOrder
<1>6. UserTracked
  BY <1>1, CacheAssumption DEF CacheAssumption, Init, UserTracked, Positions
<1>q. QED
  BY <1>3, <1>4, <1>5, <1>6 DEF Inductive

(***************************************************************************)
(* Theorems                                                                *)
(***************************************************************************)

(* The inductive invariant of the cache and its user.                      *)
THEOREM InductiveHolds ==
  ASSUME LinearGrows
  PROVE  Spec => []Inductive
<1>1. Init => Inductive
  BY InitInductive
<1>2. Inductive /\ [Next]_vars => Inductive'
  <2>1. SUFFICES ASSUME Inductive, [Next]_vars
                 PROVE  Inductive'
    OBVIOUS
  <2>2. CASE CacheThread
    BY <2>1, <2>2, CacheLocksPreserves, CacheQuitsPreserves, ExecuteSizePreserves,
       ExecuteSeekPreserves, ExecuteNothingPreserves, WindowStepPreserves,
       FillBeginPreserves, FillEndPreserves
       DEF CacheThread
  <2>3. CASE UserThread
    BY <2>1, <2>3, PrefillFillPreserves, PrefillIdlePreserves, PrefillPingPreserves,
       ReadDeliversPreserves, ReadNothingPreserves, ReadWaitsPreserves,
       ControlReturnsPreserves, ControlAbandonedPreserves, ControlWaitsPreserves,
       JoinedPreserves, UninitPreserves
       DEF UserThread
  <2>4. CASE NewCall
    BY <2>1, <2>4, ReadCallPreserves, UninitPreserves, SeekPreserves, ControlCallPreserves
       DEF NewCall
  <2>5. CASE UserTimesOut \/ CacheTimesOut \/ Cancel
    BY <2>1, <2>5, UserTimesOutPreserves, CacheTimesOutPreserves, CancelPreserves
  <2>6. CASE UNCHANGED vars
    <3>1. TypeOK' /\ StateTyped' /\ UserTracked'
      BY <2>1, <2>6
         DEF Inductive, TypeOK, StateTyped, UserTracked, InControl, Positions, vars, ring, user,
             request
    <3>2. RangeFits' /\ BytesThere' /\ LinearInOrder'
      BY <2>1, <2>6, CacheKept DEF Inductive, vars
    <3>q. QED
      BY <3>1, <3>2 DEF Inductive
  <2>q. QED
    BY <2>1, <2>2, <2>3, <2>4, <2>5, <2>6 DEF Next
<1>q. QED
  BY <1>1, <1>2, PTL DEF Spec

(* Whatever the cache says it has is the byte of the source, while the     *)
(* thread reads ahead without the mutex too, and after each wrap, drop and *)
(* resize; none of the assertions about the ring buffer fails.             *)
THEOREM BytesIntactHolds ==
  ASSUME LinearGrows
  PROVE  Spec => []BytesIntact
<1>1. Inductive => BytesIntact
  <2>1. SUFFICES ASSUME Inductive
                 PROVE  BytesIntact
    OBVIOUS
  <2>2. TypeOK /\ StateTyped /\ RangeFits /\ BytesThere
    BY <2>1 DEF Inductive
  <2>3. \A p \in min_filepos..(max_filepos - 1) : CellOf(p) \in DOMAIN buffer
    BY <2>2, Cells DEF TypeOK
  <2>4. fill[1] + fill[2] <= buffer_size
    BY <2>2, Numbers DEF RangeFits
  <2>q. QED
    BY <2>2, <2>3, <2>4 DEF BytesIntact, CacheAsserts, StateTyped, RangeFits, BytesThere
<1>q. QED
  BY <1>1, InductiveHolds, PTL

(* A read of the source lets nothing fall off the buffer that lies within  *)
(* back_size of the position of the user.                                  *)
THEOREM BackBufferKeptHolds ==
  ASSUME LinearGrows
  PROVE  Spec => BackBufferKept
<1>1. Inductive /\ [Next]_vars =>
        [FillBegin /\ Cached(read_filepos)
           => min_filepos' <= MPMAX(min_filepos, read_filepos - back_size)]_vars
  <2>1. SUFFICES ASSUME Inductive, FillBegin, Cached(read_filepos)
                 PROVE  min_filepos' <= MPMAX(min_filepos, read_filepos - back_size)
    OBVIOUS
  <2>2. TypeOK /\ StateTyped /\ RangeFits /\ LinearInOrder
    BY <2>1 DEF Inductive
  <2>3. Window.min = min_filepos
    <3>1. ~(read_filepos < min_filepos) /\ ~(read_filepos > max_filepos + seek_limit)
      BY <2>1, <2>2, Numbers DEF Cached
    <3>q. QED
      BY <3>1 DEF Window
  <2>4. min_filepos' <= MPMAX(Window.min, read_filepos - back_size)
    BY <2>1, <2>2, ReadBegins
  <2>q. QED
    BY <2>3, <2>4
<1>q. QED
  BY <1>1, InductiveHolds, PTL DEF Spec, BackBufferKept

(***************************************************************************)
(* The cache is a byte stream                                              *)
(***************************************************************************)

(* The call that runs, as ByteStream knows it.                             *)
CallRuns == CASE upc \in {"read", "read_wait"} -> "read"
              [] upc \in {"control", "control_wait"} -> "control"
              [] upc \in {"uninit", "join", "closed"} -> "closed"
              [] OTHER -> "none"

(* What each place of the user is for ByteStream.                          *)
LEMMA CallCases ==
  /\ upc \in {"read", "read_wait"} => CallRuns = "read"
  /\ upc \in {"control", "control_wait"} => CallRuns = "control"
  /\ upc \in {"uninit", "join", "closed"} => CallRuns = "closed"
  /\ upc \in {"prefill", "prefill_idle", "prefill_ping", "prefill_wait", "call"}
       => CallRuns = "none"
BY DEF CallRuns

(* Waking the user is no step of its call.                                 *)
LEMMA WokenRuns ==
  ASSUME TypeOK, upc' \in {upc, UserWoken}
  PROVE  CallRuns' = CallRuns
BY DEF TypeOK, UserWoken, CallRuns

(* What leaves the user's position, bytes and call alone is no step, or    *)
(* the step in which something fails.                                      *)
LEMMA Unseen ==
  ASSUME StateTyped, UNCHANGED <<pos, got, cancelled>>, CallRuns' = CallRuns,
         fails' = fails \/ fails' = fails + 1
  PROVE  [S!Next]_(S!vars)
<1>1. fails \in Nat
  BY DEF StateTyped
<1>2. CASE fails' = fails
  BY <1>2 DEF S!vars, CallRuns
<1>3. CASE fails' = fails + 1
  BY <1>1, <1>3 DEF S!Next, S!Trouble, CallRuns
<1>q. QED
  BY <1>2, <1>3

(* The steps of the cache thread: the user sees none of them.              *)
LEMMA ThreadUnseen ==
  ASSUME Inductive, CacheThread \/ CacheTimesOut \/ UserTimesOut
  PROVE  [S!Next]_(S!vars)
<1>1. TypeOK /\ StateTyped
  BY DEF Inductive
<1>2. CASE CacheLocks \/ CacheQuits \/ CacheTimesOut \/ UserTimesOut
  <2>1. UNCHANGED <<pos, got, cancelled, fails>> /\ upc' \in {upc, UserWoken}
    BY <1>2 DEF CacheLocks, CacheQuits, CacheTimesOut, UserTimesOut, WakeUser, user
  <2>q. QED
    BY <1>1, <2>1, WokenRuns, Unseen
<1>3. CASE ExecuteSize \/ ExecuteSeek \/ ExecuteNothing
  <2>1. UNCHANGED <<pos, got, cancelled, fails>> /\ upc' \in {upc, UserWoken}
    BY <1>3 DEF ExecuteSize, ExecuteSeek, ExecuteNothing, ControlDone, LoopEnd, WakeUser, user
  <2>q. QED
    BY <1>1, <2>1, WokenRuns, Unseen
<1>4. CASE FillSeekFails \/ FillCancelled \/ FillFull \/ FillBegin
  <2>1. /\ UNCHANGED <<pos, got, cancelled>> /\ upc' \in {upc, UserWoken}
        /\ fails' = fails \/ fails' = fails + 1
    BY <1>4 DEF FillSeekFails, FillCancelled, FillFull, FillBegin, FillDone, LoopEnd, WakeUser, user
  <2>q. QED
    BY <1>1, <2>1, WokenRuns, Unseen
<1>5. CASE \E len \in 0..ReadChunk : FillEnd(len)
  <2>1. /\ UNCHANGED <<pos, got, cancelled>> /\ upc' \in {upc, UserWoken}
        /\ fails' = fails \/ fails' = fails + 1
    BY <1>5 DEF FillEnd, FillDone, LoopEnd, WakeUser, user
  <2>q. QED
    BY <1>1, <2>1, WokenRuns, Unseen
<1>q. QED
  BY <1>2, <1>3, <1>4, <1>5 DEF CacheThread

(* The bytes a read delivers are those at the user's position, or at the   *)
(* position a control left behind by an abort has moved the source to.     *)
LEMMA ReadDeliversImplements ==
  ASSUME Inductive, ReadDelivers
  PROVE  S!ReadSome \/ S!ReadElsewhere
<1>1. PICK k \in Nat \ {0} :
        /\ got' = [i \in 1..k |-> read_filepos + i - 1]
        /\ got' \in Seq(Nat) /\ Len(got') = k
        /\ read_filepos' = read_filepos + k /\ pos' = pos + k
        /\ read_filepos + k <= FileSize /\ read_filepos + k <= max_filepos
  BY Delivered
<1>2. read_filepos \in Nat /\ FileSize \in Nat /\ k \in Nat /\ k > 0
  BY Numbers, CacheAssumption DEF CacheAssumption, Inductive
<1>3. k \in 1..FileSize /\ read_filepos \in 0..FileSize
  BY <1>1, <1>2
<1>4. got' = S!Bytes(read_filepos, k)
  BY <1>1 DEF S!Bytes
<1>5. upc = "read" /\ upc' = "call" /\ UNCHANGED <<fails, cancelled>>
  BY DEF ReadDelivers
<1>6. CallRuns = "read" /\ CallRuns' = "none"
  BY <1>5 DEF CallRuns
<1>7. CASE pos = read_filepos
  BY <1>1, <1>3, <1>4, <1>5, <1>6, <1>7 DEF S!ReadSome, CallRuns
<1>8. CASE pos # read_filepos
  <2>1. cancelled
    BY <1>5, <1>8 DEF Inductive, UserTracked, InControl
  <2>q. QED
    BY <1>1, <1>3, <1>4, <1>5, <1>6, <2>1 DEF S!ReadElsewhere, CallRuns
<1>q. QED
  BY <1>7, <1>8

(* A read returns nothing at the end, after an error or an abort only.     *)
LEMMA ReadNothingImplements ==
  ASSUME Inductive, ReadNothing
  PROVE  S!ReadNothing
<1>1. /\ upc = "read" /\ upc' = "call" /\ UNCHANGED <<pos, got, fails, cancelled>>
      /\ EndOfData \/ cancelled
  BY DEF ReadNothing
<1>2. TypeOK /\ StateTyped /\ UserTracked
  BY DEF Inductive
<1>3. got = <<>> /\ (~cancelled => pos = read_filepos)
  BY <1>1, <1>2 DEF UserTracked, InControl
<1>4. pos >= FileSize \/ fails > 0 \/ cancelled
  <2>1. SUFFICES ASSUME ~cancelled, ~(fails > 0)
                 PROVE  pos >= FileSize
    OBVIOUS
  <2>2. max_filepos >= FileSize /\ read_filepos >= max_filepos
    BY <1>1, <1>2, <2>1 DEF EndOfData, UserTracked
  <2>3. FileSize \in Nat
    BY CacheAssumption DEF CacheAssumption
  <2>q. QED
    BY <1>2, <1>3, <2>1, <2>2, <2>3, Numbers
<1>5. CallRuns = "read" /\ CallRuns' = "none"
  BY <1>1 DEF CallRuns
<1>q. QED
  BY <1>1, <1>3, <1>4, <1>5 DEF S!ReadNothing, CallRuns

(* The steps of the user.                                                  *)
LEMMA UserImplements ==
  ASSUME Inductive, UserThread \/ NewCall \/ Cancel
  PROVE  [S!Next]_(S!vars)
<1>1. TypeOK /\ StateTyped /\ UserTracked
  BY DEF Inductive
<1>2. CASE PrefillIdle \/ PrefillPing \/ ReadWaits \/ ControlWaits \/ Joined
  <2>1. UNCHANGED <<pos, got, cancelled, fails>> /\ CallRuns' = CallRuns
    BY <1>2 DEF PrefillIdle, PrefillPing, ReadWaits, ControlWaits, Joined, user, CallRuns
  <2>q. QED
    BY <1>1, <2>1, Unseen
<1>3. CASE PrefillFill
  <2>1. /\ UNCHANGED <<pos, got, cancelled, fails>> /\ upc = "prefill"
        /\ upc' \in {"call", "uninit", "prefill_idle"}
    BY <1>3 DEF PrefillFill, user
  <2>2. CallRuns = "none" /\ CallRuns' \in {"none", "closed"}
    BY <2>1 DEF CallRuns
  <2>3. CASE CallRuns' = "none"
    BY <1>1, <2>1, <2>2, <2>3, Unseen
  <2>4. CASE CallRuns' = "closed"
    BY <2>1, <2>2, <2>4 DEF S!Next, S!Close, S!Begin, CallRuns
  <2>q. QED
    BY <2>2, <2>3, <2>4
<1>4. CASE Uninit
  <2>1. /\ UNCHANGED <<pos, got, cancelled, fails>> /\ upc \in {"call", "uninit"} /\ upc' = "join"
    BY <1>4 DEF Uninit, user
  <2>2. CallRuns \in {"none", "closed"} /\ CallRuns' = "closed"
    BY <2>1 DEF CallRuns
  <2>3. CASE CallRuns = "closed"
    BY <1>1, <2>1, <2>2, <2>3, Unseen
  <2>4. CASE CallRuns = "none"
    BY <2>1, <2>2, <2>4 DEF S!Next, S!Close, S!Begin, CallRuns
  <2>q. QED
    BY <2>2, <2>3, <2>4
<1>5. CASE ReadCall
  <2>1. /\ UNCHANGED <<pos, cancelled, fails>> /\ got' = <<>> /\ upc = "call" /\ upc' = "read"
    BY <1>5 DEF ReadCall
  <2>q. QED
    BY <2>1 DEF S!Next, S!Begin
<1>6. CASE ReadDelivers \/ ReadNothing
  BY <1>6, ReadDeliversImplements, ReadNothingImplements DEF S!Next
<1>7. CASE ControlReturns \/ ControlAbandoned
  <2>1. /\ upc = "control" /\ upc' = "call" /\ UNCHANGED <<got, cancelled, fails>>
        /\ pos' \in {pos, read_filepos}
    BY <1>7 DEF ControlReturns, ControlAbandoned, PositionAfter, user
  <2>2. pos' \in SeekPos \cup 0..FileSize
    BY <1>1, <2>1 DEF UserTracked, InControl, Positions
  <2>q. QED
    BY <2>1, <2>2 DEF S!Next, S!ControlDone
<1>8. CASE \E p \in SeekPos : Seek(p)
  <2>1. /\ upc = "call" /\ upc' = upc /\ got' = <<>> /\ pos' \in SeekPos
        /\ UNCHANGED <<cancelled, fails>>
    BY <1>8 DEF Seek
  <2>q. QED
    BY <2>1 DEF S!Next, S!Seek
<1>9. CASE (\E size \in Sizes : ControlCall("SIZE", size)) \/ ControlCall("SEEK", 0)
  <2>1. /\ upc = "call" /\ upc' \in {"call", "control_wait"}
        /\ UNCHANGED <<pos, got, cancelled, fails>>
    BY <1>9 DEF ControlCall
  <2>2. CASE upc' = "call"
    <3>1. CallRuns' = CallRuns
      BY <2>1, <2>2 DEF CallRuns
    <3>q. QED
      BY <1>1, <2>1, <3>1, Unseen
  <2>3. CASE upc' = "control_wait"
    BY <2>1, <2>3 DEF S!Next, S!Begin
  <2>q. QED
    BY <2>1, <2>2, <2>3
<1>10. CASE Cancel
  <2>1. UNCHANGED <<pos, got, upc, fails>> /\ cancelled' = TRUE
    BY <1>10 DEF Cancel, user
  <2>q. QED
    BY <2>1 DEF S!Next, S!Cancel
<1>q. QED
  BY <1>2, <1>3, <1>4, <1>5, <1>6, <1>7, <1>8, <1>9, <1>10 DEF UserThread, NewCall

(* The stream the user has with the cache in between is one it could have  *)
(* without: bytes in order from where it is, and nothing only at the end,  *)
(* after an error or an abort.                                             *)
THEOREM ByteStreamImplemented ==
  ASSUME LinearGrows
  PROVE  Spec => ImplementsByteStream
<1>1. Init => S!Init
  BY DEF Init, S!Init
<1>2. Inductive /\ [Next]_vars => [S!Next]_(S!vars)
  <2>1. SUFFICES ASSUME Inductive, [Next]_vars
                 PROVE  [S!Next]_(S!vars)
    OBVIOUS
  <2>2. CASE UNCHANGED vars
    BY <2>2 DEF vars, user, S!vars
  <2>3. CASE Next
    BY <2>1, <2>3, ThreadUnseen, UserImplements DEF Next
  <2>q. QED
    BY <2>1, <2>2, <2>3
<1>q. QED
  BY <1>1, <1>2, InductiveHolds, PTL DEF Spec, ImplementsByteStream, S!Spec

=============================================================================
