---------------------------- MODULE DemuxProofs ----------------------------
(***************************************************************************)
(* Theorems about Demux.  Inductive is the inductive invariant: one lemma  *)
(* per lock region shows that the region preserves it, and the safety      *)
(* properties follow from it.                                              *)
(***************************************************************************)
EXTENDS Demux, SequenceTheorems, FiniteSetTheorems, TLAPS

(* What every step must preserve of the packets.                           *)
Queues == SeekState /\ (\A s \in Streams : LastPos(s)) /\ PacketsInOrder

Sleepers == NotBothAsleep /\ NoRequestSleptOver

(* The least element of a set of naturals.                                 *)
LEMMA LeastOfNat ==
  ASSUME NEW S \in SUBSET Nat, S # {}
  PROVE  \E m \in S : \A n \in S : m <= n
<1> DEFINE below == {1 .. n : n \in S}
<1>1. below \subseteq FiniteSubsetsOf(Nat) /\ below # {}
  <2>1. \A n \in S : (1 .. n) \in SUBSET Nat /\ IsFiniteSet(1 .. n)
    BY FS_Interval
  <2>q. QED
    BY <2>1 DEF FiniteSubsetsOf
<1>2. PICK B \in below : \A C \in below : <<C, B>> \notin StrictSubsetOrdering(Nat)
  BY <1>1, FS_StrictSubsetOrderingWellFounded, WFMin
<1>3. PICK m \in S : B = 1 .. m
  OBVIOUS
<1>4. ASSUME NEW n \in S, n < m
      PROVE  FALSE
  <2>1. 1 .. n \in below /\ (1 .. n) \subseteq B /\ m \in B /\ m \notin 1 .. n
    BY <1>3, <1>4
  <2> DEFINE C == 1 .. n
  <2>2. C \in below /\ C \subseteq B /\ C # B /\ B \in SUBSET Nat /\ C \in SUBSET Nat
    BY <1>3, <2>1
  <2>3. <<C, B>> \in StrictSubsetOrdering(Nat)
    BY <2>2 DEF StrictSubsetOrdering
  <2>q. QED
    BY <1>2, <2>2, <2>3
<1>q. QED
  BY <1>4

(* The constants' types, in the form the proofs use.                       *)
LEMMA Lengths == Len(File) \in Nat /\ MaxSeeks \in Nat /\ MaxSwitches \in Nat
BY ConstantsAssumption, LenProperties DEF ConstantsAssumption

(* The fields of a stream.                                                 *)
LEMMA StreamFields ==
  ASSUME TypeOK, NEW s \in Streams
  PROVE  /\ ds[s] \in demux_stream
         /\ ds[s].selected \in BOOLEAN /\ ds[s].active \in BOOLEAN
         /\ ds[s].eof \in BOOLEAN /\ ds[s].refreshing \in BOOLEAN
         /\ ds[s].queue \in Seq(Packets)
         /\ ds[s].base_ts \in Positions /\ ds[s].last_ts \in Positions
         /\ ds[s].last_pos \in Positions /\ ds[s].returned \in 0 .. Len(File)
BY DEF TypeOK, demux_stream

(* A step that changes neither the queues nor the position of the thread   *)
(* keeps what holds of the packets.                                        *)
LEMMA QueuesKept ==
  ASSUME Inductive, UNCHANGED <<file, origin, epoch, seeking, seek_pts>>,
         \A s \in Streams :
           /\ ds'[s].queue = ds[s].queue /\ ds'[s].last_pos = ds[s].last_pos
           /\ ds'[s].base_ts = ds[s].base_ts /\ ds'[s].last_ts = ds[s].last_ts
           /\ ds'[s].returned = ds[s].returned /\ ds'[s].selected = ds[s].selected
           /\ ds'[s].refreshing = ds[s].refreshing
  PROVE  Queues'
<1>1. SeekState'
  BY DEF Inductive, SeekState
<1>2. \A s \in Streams : LastPos(s)'
  BY DEF Inductive, LastPos
<1>3. PacketsInOrder'
  BY DEF Inductive, PacketsInOrder, PacketsFromLastSeek, PacketsContiguous
<1>q. QED
  BY <1>1, <1>2, <1>3 DEF Queues

(* The thread ends.                                                        *)
LEMMA ExitPreserves ==
  ASSUME Inductive, ThreadExit
  PROVE  Inductive'
<1>1. TypeOK'
  BY DEF Inductive, TypeOK, ThreadExit, Unlocked, ThreadStates, requestVars, historyVars
<1>2. FlagsAgree'
  BY DEF Inductive, FlagsAgree, ThreadExit, CanIterate, Unlocked, requestVars, historyVars
<1>3. Sleepers'
  BY DEF Inductive, Sleepers, NotBothAsleep, NoRequestSleptOver, FlagsAgree, ThreadExit,
         CanIterate, Unlocked, requestVars, historyVars, Pausing, Starved
<1>4. Queues'
  BY QueuesKept DEF ThreadExit, requestVars, historyVars
<1>5. NoMissedPacket'
  BY DEF Inductive, NoMissedPacket, ThreadExit, historyVars
<1>q. QED
  BY <1>1, <1>2, <1>3, <1>4, <1>5 DEF Inductive, Queues, Sleepers

(* The thread goes to sleep as it is asked to.                             *)
LEMMA PausePreserves ==
  ASSUME Inductive, ThreadPause
  PROVE  Inductive'
<1>1. TypeOK'
  BY DEF Inductive, TypeOK, ThreadPause, Sleep, Signalled, ThreadStates, historyVars
<1>2. FlagsAgree'
  BY DEF Inductive, FlagsAgree, ThreadPause, CanIterate, Sleep, Signalled, historyVars
<1>3. Sleepers'
  BY DEF Inductive, Sleepers, NotBothAsleep, NoRequestSleptOver, FlagsAgree, ThreadPause,
         CanIterate, Sleep, Signalled, historyVars, Pausing, Starved
<1>4. Queues'
  BY QueuesKept DEF ThreadPause, historyVars
<1>5. NoMissedPacket'
  BY DEF Inductive, NoMissedPacket, ThreadPause, historyVars
<1>q. QED
  BY <1>1, <1>2, <1>3, <1>4, <1>5 DEF Inductive, Queues, Sleepers

(* The thread takes up a track switch.                                     *)
LEMMA ExecuteTrackswitchPreserves ==
  ASSUME Inductive, ExecuteTrackswitch
  PROVE  Inductive'
<1>1. TypeOK'
  BY Lengths DEF Inductive, TypeOK, ThreadStates, UserStates, ExecuteTrackswitch, Working,
     CanIterate, Pausing, Unlocked, historyVars
<1>2. FlagsAgree'
  BY DEF Inductive, TypeOK, FlagsAgree, ExecuteTrackswitch, Working, CanIterate, Pausing,
         Unlocked, historyVars
<1>3. Sleepers'
  BY DEF Inductive, TypeOK, Sleepers, NotBothAsleep, NoRequestSleptOver, Pausing, Starved,
         FlagsAgree, ExecuteTrackswitch, Working, CanIterate, Unlocked, historyVars
<1>4. Queues'
  BY QueuesKept DEF ExecuteTrackswitch, Working, CanIterate, Pausing, Unlocked, historyVars
<1>5. NoMissedPacket'
  BY DEF Inductive, NoMissedPacket, ExecuteTrackswitch, Working, CanIterate, Pausing, Unlocked,
         historyVars
<1>q. QED
  BY <1>1, <1>2, <1>3, <1>4, <1>5 DEF Inductive, Queues, Sleepers

(* The thread goes to read.                                                *)
LEMMA ReadPreserves ==
  ASSUME Inductive, ReadPacket
  PROVE  Inductive'
<1>1. TypeOK'
  BY Lengths DEF Inductive, TypeOK, ThreadStates, UserStates, ReadPacket, Working, CanIterate,
     Pausing, Unlocked, historyVars
<1>2. FlagsAgree'
  BY DEF Inductive, TypeOK, FlagsAgree, ReadPacket, Working, CanIterate, Pausing, Unlocked,
         historyVars
<1>3. Sleepers'
  BY DEF Inductive, TypeOK, Sleepers, NotBothAsleep, NoRequestSleptOver, Pausing, Starved,
         FlagsAgree, ReadPacket, Working, CanIterate, Unlocked, historyVars
<1>4. Queues'
  BY QueuesKept DEF ReadPacket, Working, CanIterate, Pausing, Unlocked, historyVars
<1>5. NoMissedPacket'
  BY DEF Inductive, NoMissedPacket, ReadPacket, Working, CanIterate, Pausing, Unlocked,
         historyVars
<1>q. QED
  BY <1>1, <1>2, <1>3, <1>4, <1>5 DEF Inductive, Queues, Sleepers

(* Full queues.                                                            *)
LEMMA OverflowPreserves ==
  ASSUME Inductive, ReadPacketOverflow
  PROVE  Inductive'
<1>0. ASSUME NEW s \in Streams
      PROVE  /\ ds'[s] \in demux_stream
             /\ ds'[s].queue = ds[s].queue /\ ds'[s].last_pos = ds[s].last_pos
             /\ ds'[s].base_ts = ds[s].base_ts /\ ds'[s].last_ts = ds[s].last_ts
             /\ ds'[s].returned = ds[s].returned /\ ds'[s].selected = ds[s].selected
             /\ ds'[s].refreshing = ds[s].refreshing /\ ds'[s].active = ds[s].active
             /\ ds[s].eof \/ ds[s].queue = <<>> => ds'[s].eof
  BY StreamFields DEF ReadPacketOverflow, Inductive, TypeOK, demux_stream
<1>a. /\ UNCHANGED <<last_eof, eof, tracks_switched, start_refresh_seek, seeking, seek_pts,
                      thread_request_pause, thread_terminate, file, fill_eof, origin, user,
                      awaiting, epoch, switches>>
      /\ ~thread_paused' /\ ~thread_terminate /\ thread_request_pause = 0
      /\ wakeup' = {"thread"} /\ pc' = "wait" /\ locked' = FALSE /\ overflow' = TRUE
      /\ thread_paused' = FALSE /\ ~eof /\ ~tracks_switched /\ ~seeking
  BY DEF Inductive, FlagsAgree, ReadPacketOverflow, Working, Pausing, Sleep, Signalled
<1>1. TypeOK'
  <2>1. ds' \in [Streams -> demux_stream]
    BY <1>0 DEF ReadPacketOverflow
  <2>q. QED
    BY <1>a, <2>1 DEF Inductive, TypeOK, ThreadStates, UserStates
<1>2. FlagsAgree'
  BY <1>a, <1>0 DEF Inductive, TypeOK, UserStates, FlagsAgree
<1>3. Sleepers'
  BY <1>a, <1>0 DEF Sleepers, NotBothAsleep, NoRequestSleptOver, Starved, Pausing
<1>4. Queues'
  BY <1>a, <1>0, QueuesKept
<1>5. NoMissedPacket'
  BY <1>a, <1>0 DEF Inductive, TypeOK, NoMissedPacket
<1>q. QED
  BY <1>1, <1>2, <1>3, <1>4, <1>5 DEF Inductive, Queues, Sleepers

(* The thread goes to sleep: no stream lacks packets.                      *)
LEMMA NothingPreserves ==
  ASSUME Inductive, NothingToRead
  PROVE  Inductive'
<1>1. TypeOK'
  BY Lengths DEF Inductive, TypeOK, ThreadStates, UserStates, NothingToRead, ReadMore, Working,
     CanIterate, Pausing, historyVars, Sleep, Signalled
<1>2. FlagsAgree'
  BY DEF Inductive, TypeOK, FlagsAgree, NothingToRead, ReadMore, Working, CanIterate, Pausing,
         historyVars, Sleep, Signalled
<1>3. Sleepers'
  BY DEF Inductive, TypeOK, Sleepers, NotBothAsleep, NoRequestSleptOver, Pausing, Starved,
         FlagsAgree, NothingToRead, ReadMore, Working, CanIterate, historyVars, Sleep, Signalled
<1>4. Queues'
  BY QueuesKept DEF NothingToRead, ReadMore, Working, CanIterate, Pausing, historyVars, Sleep,
     Signalled
<1>5. NoMissedPacket'
  BY DEF Inductive, NoMissedPacket, NothingToRead, ReadMore, Working, CanIterate, Pausing,
         historyVars, Sleep, Signalled
<1>q. QED
  BY <1>1, <1>2, <1>3, <1>4, <1>5 DEF Inductive, Queues, Sleepers

(* The thread has read.                                                    *)
LEMMA FillDonePreserves ==
  ASSUME Inductive, FillDone
  PROVE  Inductive'
<1> USE DEF FillDone, NotifyUser, Signalled, requestVars
<1>0. ASSUME NEW s \in Streams
      PROVE  /\ ds'[s] \in demux_stream
             /\ ds'[s].queue = ds[s].queue /\ ds'[s].last_pos = ds[s].last_pos
             /\ ds'[s].base_ts = ds[s].base_ts /\ ds'[s].last_ts = ds[s].last_ts
             /\ ds'[s].returned = ds[s].returned /\ ds'[s].selected = ds[s].selected
             /\ ds'[s].refreshing = ds[s].refreshing /\ ds'[s].active = ds[s].active
             /\ ds'[s].eof = (ds[s].eof \/ fill_eof)
  BY StreamFields DEF Inductive, TypeOK, demux_stream
<1>1. TypeOK'
  <2>1. ds' \in [Streams -> demux_stream]
    BY <1>0 DEF Inductive, TypeOK
  <2>q. QED
    BY <2>1 DEF Inductive, TypeOK, ThreadStates, UserStates
<1>2. FlagsAgree'
  BY <1>0, StreamFields DEF Inductive, TypeOK, UserStates, FlagsAgree
<1>3. Sleepers'
  BY <1>0 DEF Inductive, TypeOK, Sleepers, NotBothAsleep, NoRequestSleptOver, Starved, Pausing,
     FlagsAgree
<1>4. Queues'
  BY <1>0, QueuesKept
<1>5. NoMissedPacket'
  BY <1>0 DEF Inductive, TypeOK, NoMissedPacket
<1>q. QED
  BY <1>1, <1>2, <1>3, <1>4, <1>5 DEF Inductive, Queues, Sleepers

(* The implementation has seeked.                                          *)
LEMMA SeekReturnsPreserves ==
  ASSUME Inductive, SeekReturns
  PROVE  Inductive'
<1>1. TypeOK'
  BY Lengths DEF Inductive, TypeOK, ThreadStates, UserStates, SeekReturns, requestVars,
     historyVars
<1>2. FlagsAgree'
  BY DEF Inductive, TypeOK, FlagsAgree, SeekReturns, requestVars, historyVars
<1>3. Sleepers'
  BY DEF Inductive, TypeOK, Sleepers, NotBothAsleep, NoRequestSleptOver, Pausing, Starved,
         FlagsAgree, SeekReturns, requestVars, historyVars
<1>4. Queues'
  BY QueuesKept DEF SeekReturns, requestVars, historyVars
<1>5. NoMissedPacket'
  BY DEF Inductive, NoMissedPacket, SeekReturns, requestVars, historyVars
<1>q. QED
  BY <1>1, <1>2, <1>3, <1>4, <1>5 DEF Inductive, Queues, Sleepers

(* The second region of a track switch.                                    *)
LEMMA SwitchedPreserves ==
  ASSUME Inductive, SwitchedTracks
  PROVE  Inductive'
<1>1. TypeOK'
  BY Lengths DEF Inductive, TypeOK, ThreadStates, UserStates, SwitchedTracks, UserAt, Idle,
     historyVars, threadVars, Signalled
<1>2. FlagsAgree'
  BY DEF Inductive, TypeOK, FlagsAgree, SwitchedTracks, UserAt, Idle, historyVars, threadVars,
         Signalled
<1>3. Sleepers'
  BY DEF Inductive, TypeOK, Sleepers, NotBothAsleep, NoRequestSleptOver, Pausing, Starved,
         FlagsAgree, SwitchedTracks, UserAt, Idle, historyVars, threadVars, Signalled
<1>4. Queues'
  BY QueuesKept DEF SwitchedTracks, UserAt, Idle, historyVars, threadVars, Signalled
<1>5. NoMissedPacket'
  BY DEF Inductive, NoMissedPacket, SwitchedTracks, UserAt, Idle, historyVars, threadVars,
         Signalled
<1>q. QED
  BY <1>1, <1>2, <1>3, <1>4, <1>5 DEF Inductive, Queues, Sleepers

(* demux_pause up to its wait.                                             *)
LEMMA PauseCallPreserves ==
  ASSUME Inductive, demux_pause
  PROVE  Inductive'
<1>1. TypeOK'
  BY Lengths DEF Inductive, TypeOK, FlagsAgree, ThreadStates, UserStates, demux_pause, UserAt,
     historyVars, threadVars, Signalled
<1>2. FlagsAgree'
  BY DEF Inductive, TypeOK, FlagsAgree, demux_pause, UserAt, historyVars, threadVars, Signalled
<1>3. Sleepers'
  BY DEF Inductive, TypeOK, Sleepers, NotBothAsleep, NoRequestSleptOver, Pausing, Starved,
         FlagsAgree, demux_pause, UserAt, historyVars, threadVars, Signalled
<1>4. Queues'
  BY QueuesKept DEF demux_pause, UserAt, historyVars, threadVars, Signalled
<1>5. NoMissedPacket'
  BY DEF Inductive, NoMissedPacket, demux_pause, UserAt, historyVars, threadVars, Signalled
<1>q. QED
  BY <1>1, <1>2, <1>3, <1>4, <1>5 DEF Inductive, Queues, Sleepers

(* The wait of demux_pause ends or goes on.                                *)
LEMMA PauseWokenPreserves ==
  ASSUME Inductive, PauseWoken
  PROVE  Inductive'
<1>1. TypeOK'
  <2>1. user' \in UserStates /\ wakeup' \subseteq {"thread", "user"}
    BY DEF Inductive, TypeOK, UserStates, PauseWoken
  <2>q. QED
    BY <2>1 DEF Inductive, TypeOK, ThreadStates, PauseWoken, requestVars, historyVars, threadVars
<1>2. FlagsAgree'
  BY DEF Inductive, TypeOK, FlagsAgree, PauseWoken, UserAt, UserWoken, requestVars, historyVars,
         threadVars
<1>3. Sleepers'
  BY DEF Inductive, TypeOK, Sleepers, NotBothAsleep, NoRequestSleptOver, Pausing, Starved,
         FlagsAgree, PauseWoken, UserAt, UserWoken, requestVars, historyVars, threadVars
<1>4. Queues'
  BY QueuesKept DEF PauseWoken, UserAt, UserWoken, requestVars, historyVars, threadVars
<1>5. NoMissedPacket'
  BY DEF Inductive, NoMissedPacket, PauseWoken, UserAt, UserWoken, requestVars, historyVars,
         threadVars
<1>q. QED
  BY <1>1, <1>2, <1>3, <1>4, <1>5 DEF Inductive, Queues, Sleepers

(* demux_unpause                                                           *)
LEMMA UnpausePreserves ==
  ASSUME Inductive, demux_unpause
  PROVE  Inductive'
<1>1. TypeOK'
  BY Lengths DEF Inductive, TypeOK, FlagsAgree, ThreadStates, UserStates, demux_unpause, UserAt,
     Idle, historyVars, threadVars, Signalled
<1>2. FlagsAgree'
  BY DEF Inductive, TypeOK, FlagsAgree, demux_unpause, UserAt, Idle, historyVars, threadVars,
         Signalled
<1>3. Sleepers'
  BY DEF Inductive, TypeOK, Sleepers, NotBothAsleep, NoRequestSleptOver, Pausing, Starved,
         FlagsAgree, demux_unpause, UserAt, Idle, historyVars, threadVars, Signalled
<1>4. Queues'
  BY QueuesKept DEF demux_unpause, UserAt, Idle, historyVars, threadVars, Signalled
<1>5. NoMissedPacket'
  BY DEF Inductive, NoMissedPacket, demux_unpause, UserAt, Idle, historyVars, threadVars,
         Signalled
<1>q. QED
  BY <1>1, <1>2, <1>3, <1>4, <1>5 DEF Inductive, Queues, Sleepers

(* demux_stop_thread up to the join.                                       *)
LEMMA StopPreserves ==
  ASSUME Inductive, demux_stop_thread
  PROVE  Inductive'
<1>1. TypeOK'
  BY Lengths DEF Inductive, TypeOK, ThreadStates, UserStates, demux_stop_thread, UserAt,
     historyVars, threadVars, Signalled
<1>2. FlagsAgree'
  BY DEF Inductive, TypeOK, FlagsAgree, demux_stop_thread, UserAt, historyVars, threadVars,
         Signalled
<1>3. Sleepers'
  BY DEF Inductive, TypeOK, Sleepers, NotBothAsleep, NoRequestSleptOver, Pausing, Starved,
         FlagsAgree, demux_stop_thread, UserAt, historyVars, threadVars, Signalled
<1>4. Queues'
  BY QueuesKept DEF demux_stop_thread, UserAt, historyVars, threadVars, Signalled
<1>5. NoMissedPacket'
  BY DEF Inductive, NoMissedPacket, demux_stop_thread, UserAt, historyVars, threadVars, Signalled
<1>q. QED
  BY <1>1, <1>2, <1>3, <1>4, <1>5 DEF Inductive, Queues, Sleepers

(* The thread has been joined.                                             *)
LEMMA JoinedPreserves ==
  ASSUME Inductive, Joined
  PROVE  Inductive'
<1>1. TypeOK'
  BY Lengths DEF Inductive, TypeOK, ThreadStates, UserStates, Joined, requestVars, historyVars,
     threadVars
<1>2. FlagsAgree'
  BY DEF Inductive, TypeOK, FlagsAgree, Joined, requestVars, historyVars, threadVars
<1>3. Sleepers'
  BY DEF Inductive, TypeOK, Sleepers, NotBothAsleep, NoRequestSleptOver, Pausing, Starved,
         FlagsAgree, Joined, requestVars, historyVars, threadVars
<1>4. Queues'
  BY QueuesKept DEF Joined, requestVars, historyVars, threadVars
<1>5. NoMissedPacket'
  BY DEF Inductive, NoMissedPacket, Joined, requestVars, historyVars, threadVars
<1>q. QED
  BY <1>1, <1>2, <1>3, <1>4, <1>5 DEF Inductive, Queues, Sleepers

(* A spurious wakeup.                                                      *)
LEMMA SpuriousPreserves ==
  ASSUME Inductive, NEW p \in {"thread", "user"}, SpuriousWakeup(p)
  PROVE  Inductive'
<1>1. TypeOK'
  BY Lengths DEF Inductive, TypeOK, ThreadStates, UserStates, SpuriousWakeup, requestVars,
     historyVars, threadVars
<1>2. FlagsAgree'
  BY DEF Inductive, TypeOK, FlagsAgree, SpuriousWakeup, requestVars, historyVars, threadVars
<1>3. Sleepers'
  BY DEF Inductive, TypeOK, Sleepers, NotBothAsleep, NoRequestSleptOver, Pausing, Starved,
         FlagsAgree, SpuriousWakeup, requestVars, historyVars, threadVars
<1>4. Queues'
  BY QueuesKept DEF SpuriousWakeup, requestVars, historyVars, threadVars
<1>5. NoMissedPacket'
  BY DEF Inductive, NoMissedPacket, SpuriousWakeup, requestVars, historyVars, threadVars
<1>q. QED
  BY <1>1, <1>2, <1>3, <1>4, <1>5 DEF Inductive, Queues, Sleepers

(* What ds_flush makes of a stream.                                        *)
LEMMA FlushedFields ==
  ASSUME TypeOK, NEW s \in Streams
  PROVE  /\ Flushed(s) \in demux_stream
         /\ Flushed(s).queue = <<>> /\ Flushed(s).returned = 0
         /\ Flushed(s).last_pos = NOPTS /\ Flushed(s).base_ts = NOPTS
         /\ Flushed(s).last_ts = NOPTS
         /\ Flushed(s).eof = FALSE /\ Flushed(s).active = FALSE
         /\ Flushed(s).refreshing = FALSE /\ Flushed(s).selected = ds[s].selected
<1>1. ds[s] \in demux_stream
  BY StreamFields
<1>2. NOPTS \in Positions /\ 0 \in 0 .. Len(File) /\ <<>> \in Seq(Packets)
  BY Lengths, EmptySeq DEF Positions
<1>q. QED
  BY <1>1, <1>2 DEF Flushed, demux_stream

(* A stream without last_pos was given no packet since its last flush.     *)
LEMMA NoPackets ==
  ASSUME Inductive, NEW s \in Streams, ds[s].last_pos = NOPTS
  PROVE  ds[s].queue = <<>> /\ ds[s].returned = 0
<1>1. ASSUME ds[s].queue # <<>>
      PROVE  FALSE
  <2>1. Len(ds[s].queue) \in 1 .. Len(ds[s].queue)
    BY <1>1, StreamFields, EmptySeq, LenProperties DEF Inductive
  <2>2. ds[s].queue[Len(ds[s].queue)].pos \in 1 .. Len(File)
    <3>1. ds[s].queue[Len(ds[s].queue)] \in Packets
      BY <2>1, StreamFields, ElementOfSeq DEF Inductive
    <3>q. QED
      BY <3>1 DEF Packets
  <2>q. QED
    BY <1>1, <2>2, Lengths DEF Inductive, LastPos, NOPTS
<1>q. QED
  BY <1>1, StreamFields, Lengths DEF Inductive, LastPos, NOPTS

(* The thread takes the queued seek: nothing is queued that was read       *)
(* before it.                                                              *)
LEMMA ExecuteSeekPreserves ==
  ASSUME Inductive, ExecuteSeek
  PROVE  Inductive'
<1>a. /\ UNCHANGED <<ds, last_eof, eof, tracks_switched, start_refresh_seek, seek_pts, wakeup,
                      thread_request_pause, thread_terminate, user, historyVars>>
      /\ thread_paused' = FALSE /\ thread_request_pause <= 0 /\ ~thread_terminate
      /\ seeking /\ seeking' = FALSE /\ fill_eof' = FALSE /\ locked' = FALSE
      /\ file' = seek_pts - 1 /\ origin' = epoch /\ pc' = "seek"
      /\ "thread" \notin wakeup
  BY DEF Inductive, TypeOK, FlagsAgree, ExecuteSeek, Working, CanIterate, Pausing, Unlocked
<1>1. TypeOK'
  <2>1. file' \in 0 .. Len(File)
    BY <1>a, Lengths DEF Inductive, SeekState
  <2>q. QED
    BY <1>a, <2>1, Lengths DEF Inductive, TypeOK, ThreadStates, UserStates, historyVars
<1>2. FlagsAgree'
  BY <1>a DEF Inductive, TypeOK, FlagsAgree, historyVars
<1>3. Sleepers'
  BY <1>a DEF Inductive, Sleepers, NotBothAsleep, NoRequestSleptOver
<1>4. Queues'
  <2>1. \A s \in Streams : ds[s].last_pos = NOPTS /\ ds[s].queue = <<>> /\ ds[s].returned = 0
    BY <1>a, NoPackets DEF Inductive, SeekState
  <2>2. \A s \in Streams : ds[s].base_ts = NOPTS /\ ds[s].last_ts = NOPTS /\ ~ds[s].refreshing
    BY <2>1 DEF Inductive, LastPos
  <2>3. SeekState'
    BY <1>a DEF SeekState, historyVars
  <2>4. \A s \in Streams : LastPos(s)'
    BY <1>a, <2>1, <2>2 DEF LastPos, NOPTS
  <2>5. PacketsInOrder'
    BY <1>a, <2>1 DEF PacketsInOrder, PacketsFromLastSeek, PacketsContiguous
  <2>q. QED
    BY <2>3, <2>4, <2>5 DEF Queues
<1>5. NoMissedPacket'
  BY <1>a DEF Inductive, NoMissedPacket, historyVars
<1>q. QED
  BY <1>1, <1>2, <1>3, <1>4, <1>5 DEF Inductive, Queues, Sleepers

(* Flushing all streams: demux_flush and demux_seek.                       *)
LEMMA FlushPreserves ==
  ASSUME Inductive, demux_flush
  PROVE  Inductive'
<1> USE DEF demux_flush, FlushLocked
<1>0. \A s \in Streams :
        /\ ds'[s] = Flushed(s) /\ ds'[s] \in demux_stream /\ ds'[s].active = FALSE
        /\ ds'[s].queue = <<>> /\ ds'[s].returned = 0 /\ ds'[s].last_pos = NOPTS
        /\ ds'[s].base_ts = NOPTS /\ ds'[s].last_ts = NOPTS /\ ds'[s].refreshing = FALSE
  BY FlushedFields DEF Inductive
<1>1. TypeOK'
  <2>1. ds' \in [Streams -> demux_stream]
    BY <1>0
  <2>q. QED
    BY <2>1 DEF Inductive, TypeOK, ThreadStates, UserStates, requestVars, threadVars
<1>2. FlagsAgree'
  BY <1>0 DEF Inductive, TypeOK, FlagsAgree, UserAt, requestVars, threadVars
<1>3. Sleepers'
  BY <1>0 DEF Inductive, TypeOK, Sleepers, NotBothAsleep, NoRequestSleptOver, Starved, Pausing,
     requestVars
<1>4. Queues'
  <2>1. SeekState'
    BY <1>0 DEF Inductive, SeekState, requestVars, threadVars
  <2>2. \A s \in Streams : LastPos(s)'
    BY <1>0 DEF LastPos, NOPTS
  <2>3. PacketsInOrder'
    BY <1>0 DEF PacketsInOrder, PacketsFromLastSeek, PacketsContiguous
  <2>q. QED
    BY <2>1, <2>2, <2>3 DEF Queues
<1>5. NoMissedPacket'
  BY DEF NoMissedPacket
<1>q. QED
  BY <1>1, <1>2, <1>3, <1>4, <1>5 DEF Inductive, Queues, Sleepers

(* demux_seek: the queues are empty until the thread takes the seek.       *)
LEMMA SeekPreserves ==
  ASSUME Inductive, NEW pts \in 1 .. Len(File), demux_seek(pts)
  PROVE  Inductive'
<1> USE DEF demux_seek, FlushLocked, Signalled
<1>0. \A s \in Streams :
        /\ ds'[s] = Flushed(s) /\ ds'[s] \in demux_stream /\ ds'[s].active = FALSE
        /\ ds'[s].queue = <<>> /\ ds'[s].returned = 0 /\ ds'[s].last_pos = NOPTS
        /\ ds'[s].base_ts = NOPTS /\ ds'[s].last_ts = NOPTS /\ ds'[s].refreshing = FALSE
  BY FlushedFields DEF Inductive
<1>1. TypeOK'
  <2>1. ds' \in [Streams -> demux_stream]
    BY <1>0
  <2>2. epoch' \in 0 .. MaxSeeks /\ seek_pts' \in 0 .. Len(File)
    BY Lengths DEF Inductive, TypeOK
  <2>q. QED
    BY <2>1, <2>2 DEF Inductive, TypeOK, ThreadStates, UserStates, threadVars
<1>2. FlagsAgree'
  BY <1>0 DEF Inductive, TypeOK, FlagsAgree, UserAt, threadVars
<1>3. Sleepers'
  BY DEF Sleepers, NotBothAsleep, NoRequestSleptOver
<1>4. Queues'
  <2>1. SeekState'
    BY <1>0 DEF Inductive, SeekState, threadVars
  <2>2. \A s \in Streams : LastPos(s)'
    BY <1>0 DEF LastPos, NOPTS
  <2>3. PacketsInOrder'
    BY <1>0 DEF PacketsInOrder, PacketsFromLastSeek, PacketsContiguous
  <2>q. QED
    BY <2>1, <2>2, <2>3 DEF Queues
<1>5. NoMissedPacket'
  BY DEF NoMissedPacket
<1>q. QED
  BY <1>1, <1>2, <1>3, <1>4, <1>5 DEF Inductive, Queues, Sleepers

(* The first region of a track switch flushes one stream.                  *)
LEMMA SelectPreserves ==
  ASSUME Inductive, NEW s \in Streams, demuxer_select_track(s)
  PROVE  Inductive'
<1> USE DEF demuxer_select_track
<1>0. /\ ds' \in [Streams -> demux_stream] /\ ds'[s].active = FALSE
      /\ ds'[s].queue = <<>> /\ ds'[s].returned = 0 /\ ds'[s].last_pos = NOPTS
      /\ ds'[s].base_ts = NOPTS /\ ds'[s].last_ts = NOPTS /\ ds'[s].refreshing = FALSE
      /\ \A r \in Streams : r # s => ds'[r] = ds[r]
  BY FlushedFields DEF Inductive, TypeOK, demux_stream
<1>1. TypeOK'
  <2>1. switches' \in 0 .. MaxSwitches
    BY Lengths DEF Inductive, TypeOK
  <2>2. user' \in UserStates
    BY DEF UserStates
  <2>3. start_refresh_seek' \in BOOLEAN
    BY StreamFields DEF Inductive, TypeOK
  <2>q. QED
    BY <1>0, <2>1, <2>2, <2>3 DEF Inductive, TypeOK, ThreadStates, threadVars
<1>2. FlagsAgree'
  BY <1>0 DEF Inductive, TypeOK, FlagsAgree, UserAt, threadVars
<1>3. Sleepers'
  BY <1>0 DEF Inductive, TypeOK, Sleepers, NotBothAsleep, NoRequestSleptOver, Starved, Pausing
<1>4. Queues'
  <2>1. SeekState'
    BY <1>0 DEF Inductive, SeekState, threadVars
  <2>2. ASSUME NEW r \in Streams
        PROVE  LastPos(r)'
    BY <1>0 DEF Inductive, LastPos, NOPTS, threadVars
  <2>3. PacketsInOrder'
    BY <1>0 DEF Inductive, PacketsInOrder, PacketsFromLastSeek, PacketsContiguous
  <2>q. QED
    BY <2>1, <2>2, <2>3 DEF Queues
<1>5. NoMissedPacket'
  BY DEF NoMissedPacket
<1>q. QED
  BY <1>1, <1>2, <1>3, <1>4, <1>5 DEF Inductive, Queues, Sleepers


(* The refresh seek goes behind what every stream in refresh was given.    *)
LEMMA StartIsLeast ==
  ASSUME Inductive, StartTs # NOPTS
  PROVE  /\ StartTs \in 1 .. Len(File)
         /\ \A s \in Streams : ds[s].last_pos # NOPTS => StartTs <= ds[s].last_pos
<1> DEFINE known == {ds[s].base_ts : s \in Streams} \ {NOPTS}
<1>1. known \subseteq 1 .. Len(File)
  BY StreamFields DEF Inductive, Positions
<1>2. known # {} /\ known \in SUBSET Nat
  <2>1. known # {}
    BY DEF StartTs
  <2>2. 1 .. Len(File) \in SUBSET Nat
    OBVIOUS
  <2>q. QED
    BY <1>1, <2>1, <2>2
<1>3. \E t \in known : \A u \in known : t <= u
  BY <1>2, LeastOfNat
<1>4. StartTs \in known /\ \A u \in known : StartTs <= u
  BY <1>2, <1>3 DEF StartTs
<1>5. ASSUME NEW s \in Streams, ds[s].last_pos # NOPTS
      PROVE  StartTs <= ds[s].last_pos
  <2>1. ds[s].base_ts \in 1 .. ds[s].last_pos /\ ds[s].last_pos \in 1 .. Len(File)
    BY <1>5, StreamFields DEF Inductive, LastPos, Positions
  <2>2. ds[s].base_ts \in known
    BY <2>1 DEF NOPTS
  <2>3. StartTs <= ds[s].base_ts
    BY <1>4, <2>2
  <2>4. StartTs \in 1 .. Len(File)
    BY <1>1, <1>4
  <2>q. QED
    BY <2>1, <2>3, <2>4, Lengths
<1>q. QED
  BY <1>1, <1>4, <1>5

(* The thread seeks back for a refresh, or does not have to.               *)
LEMMA TrackswitchDonePreserves ==
  ASSUME Inductive, TrackswitchDone
  PROVE  Inductive'
<1>a. /\ UNCHANGED <<last_eof, eof, tracks_switched, seeking, seek_pts, thread_request_pause,
                      thread_paused, thread_terminate, wakeup, fill_eof, origin, user,
                      awaiting, epoch, overflow, switches>>
      /\ start_refresh_seek' = FALSE
      /\ pc = "switch" /\ pc' \in {"seek", "loop"} /\ locked' \in BOOLEAN
  BY DEF TrackswitchDone, Unlocked, historyVars
<1>b. \/ ds' = ds /\ file' = file
      \/ /\ StartTs # NOPTS /\ file' = IF StartTs > 2 THEN StartTs - 2 ELSE 0
         /\ ds' = [s \in Streams |-> [ds[s] EXCEPT !.refreshing = @ \/ Refreshes(s)]]
  BY DEF TrackswitchDone
<1>0. ASSUME NEW s \in Streams
      PROVE  /\ ds'[s] \in demux_stream
             /\ ds'[s].queue = ds[s].queue /\ ds'[s].last_pos = ds[s].last_pos
             /\ ds'[s].base_ts = ds[s].base_ts /\ ds'[s].last_ts = ds[s].last_ts
             /\ ds'[s].returned = ds[s].returned /\ ds'[s].selected = ds[s].selected
             /\ ds'[s].active = ds[s].active /\ ds'[s].eof = ds[s].eof
             /\ \/ file' = file /\ ds'[s].refreshing = ds[s].refreshing
                \/ ds[s].last_pos # NOPTS /\ ds'[s].refreshing /\ file' < ds[s].last_pos
                \/ ds[s].last_pos = NOPTS /\ ds'[s].refreshing = ds[s].refreshing
  <2>1. CASE ds' = ds /\ file' = file
    BY <2>1, StreamFields DEF Inductive
  <2>2. CASE ~(ds' = ds /\ file' = file)
    <3>1. /\ StartTs # NOPTS /\ file' = IF StartTs > 2 THEN StartTs - 2 ELSE 0
          /\ ds'[s] = [ds[s] EXCEPT !.refreshing = @ \/ Refreshes(s)]
      BY <2>2, <1>b
    <3>2. /\ ds'[s] \in demux_stream
          /\ ds'[s].queue = ds[s].queue /\ ds'[s].last_pos = ds[s].last_pos
          /\ ds'[s].base_ts = ds[s].base_ts /\ ds'[s].last_ts = ds[s].last_ts
          /\ ds'[s].returned = ds[s].returned /\ ds'[s].selected = ds[s].selected
          /\ ds'[s].active = ds[s].active /\ ds'[s].eof = ds[s].eof
          /\ ds'[s].refreshing = (ds[s].refreshing \/ ds[s].last_pos # NOPTS)
      BY <3>1, StreamFields DEF Inductive, demux_stream, Refreshes
    <3>3. ds[s].last_pos # NOPTS => file' < ds[s].last_pos
      BY <3>1, StartIsLeast, StreamFields, Lengths DEF Inductive, Positions
    <3>q. QED
      BY <3>2, <3>3, StreamFields DEF Inductive
  <2>q. QED
    BY <2>1, <2>2
<1>1. TypeOK'
  <2>1. ds' \in [Streams -> demux_stream]
    BY <1>b, <1>0 DEF Inductive, TypeOK
  <2>2. file' \in 0 .. Len(File)
    BY <1>b, StartIsLeast, Lengths DEF Inductive, TypeOK
  <2>q. QED
    BY <1>a, <2>1, <2>2 DEF Inductive, TypeOK, ThreadStates, UserStates
<1>2. FlagsAgree'
  BY <1>a, <1>0 DEF Inductive, TypeOK, UserStates, FlagsAgree
<1>3. Sleepers'
  BY <1>a, <1>0 DEF Inductive, Sleepers, NotBothAsleep, NoRequestSleptOver, Starved, Pausing,
     FlagsAgree
<1>4. Queues'
  <2>1. SeekState'
    BY <1>a, <1>0 DEF Inductive, SeekState
  <2>2. ASSUME NEW s \in Streams
        PROVE  LastPos(s)'
    <3>1. LastPos(s)
      BY DEF Inductive
    <3>2. file' < ds[s].last_pos => ds[s].last_pos + 1 .. file' = {}
      <4>1. file' \in Nat /\ ds[s].last_pos \in Int
        BY <1>1, StreamFields, Lengths DEF Inductive, TypeOK, Positions, NOPTS
      <4>q. QED
        BY <4>1
    <3>q. QED
      BY <3>1, <3>2, <1>0 DEF LastPos
  <2>3. PacketsInOrder'
    BY <1>a, <1>0 DEF Inductive, PacketsInOrder, PacketsFromLastSeek, PacketsContiguous
  <2>q. QED
    BY <2>1, <2>2, <2>3 DEF Queues
<1>5. NoMissedPacket'
  BY <1>a, <1>0 DEF Inductive, TypeOK, NoMissedPacket
<1>q. QED
  BY <1>1, <1>2, <1>3, <1>4, <1>5 DEF Inductive, Queues, Sleepers

(* The packet after the thread's position, if the stream takes it, comes   *)
(* right after the last one the stream was given.                          *)
LEMMA NextPacket ==
  ASSUME Inductive, NEW s \in Streams, file < Len(File), File[file + 1] = s,
         Wanted(s), ~DropsSeen(s, file + 1)
  PROVE  /\ file + 1 > ds[s].last_pos
         /\ ds[s].last_pos # NOPTS => Consecutive(s, ds[s].last_pos, file + 1)
         /\ ds[s].base_ts = NOPTS => ds[s].last_pos = NOPTS /\ ds[s].last_ts = NOPTS
<1>1. file \in Nat /\ ds[s].last_pos \in Positions /\ LastPos(s)
  BY StreamFields, Lengths DEF Inductive, TypeOK
<1>2. file + 1 > ds[s].last_pos
  BY <1>1, Lengths DEF LastPos, DropsSeen, Positions, NOPTS
<1>3. ASSUME ds[s].last_pos # NOPTS
      PROVE  Consecutive(s, ds[s].last_pos, file + 1)
  <2>1. InStream(s, file + 1)
    BY <1>1, Lengths, LenProperties, ConstantsAssumption DEF InStream, ConstantsAssumption
  <2>2. ds[s].last_pos + 1 .. (file + 1) - 1 = ds[s].last_pos + 1 .. file
    BY <1>1, Lengths DEF Positions, NOPTS
  <2>q. QED
    BY <1>1, <1>2, <1>3, <2>1, <2>2 DEF LastPos, Consecutive
<1>4. ds[s].base_ts = NOPTS => ds[s].last_pos = NOPTS /\ ds[s].last_ts = NOPTS
  BY <1>1, Lengths DEF LastPos, NOPTS, Positions
<1>q. QED
  BY <1>2, <1>3, <1>4

(* demux_add_packet with a packet the stream takes: it ends the queue, and *)
(* nothing else of the packets changes.                                    *)
LEMMA AddedKeepsQueues ==
  ASSUME Inductive, NEW s \in Streams, file < Len(File), File[file + 1] = s,
         Wanted(s), ~DropsSeen(s, file + 1), file' = file + 1,
         ds' = [ds EXCEPT ![s] = Added(s, file + 1)],
         UNCHANGED <<origin, epoch, seeking, seek_pts>>
  PROVE  /\ ds' \in [Streams -> demux_stream]
         /\ Queues'
<1> DEFINE pos == file + 1
           packet == [pos |-> pos, seek |-> origin]
           q == ds[s].queue
<1>1. /\ pos \in 1 .. Len(File) /\ packet \in Packets /\ packet.pos = pos
      /\ packet.seek = epoch /\ ~seeking
  BY Lengths DEF Inductive, TypeOK, SeekState, Packets, Wanted
<1>2. /\ q \in Seq(Packets) /\ Len(q) \in Nat /\ Append(q, packet) \in Seq(Packets)
      /\ Len(Append(q, packet)) = Len(q) + 1 /\ Append(q, packet)[Len(q) + 1] = packet
      /\ \A i \in 1 .. Len(q) : Append(q, packet)[i] = q[i]
      /\ Append(q, packet) # <<>>
  BY <1>1, StreamFields, AppendProperties, LenProperties DEF Inductive
<1>3. /\ ds'[s].queue = Append(q, packet) /\ ds'[s].last_pos = pos
      /\ ds'[s].returned = ds[s].returned /\ ds'[s].selected = ds[s].selected
      /\ ds'[s].active = ds[s].active
      /\ ds'[s].last_ts = IF pos > ds[s].last_ts THEN pos ELSE ds[s].last_ts
      /\ ds'[s].base_ts = IF ds[s].base_ts = NOPTS THEN ds'[s].last_ts ELSE ds[s].base_ts
      /\ \A r \in Streams : r # s => ds'[r] = ds[r]
  BY StreamFields DEF Added, demux_stream, Inductive, TypeOK
<1>4. /\ pos > ds[s].last_pos
      /\ ds[s].last_pos # NOPTS => Consecutive(s, ds[s].last_pos, pos)
      /\ ds[s].base_ts = NOPTS => ds[s].last_pos = NOPTS /\ ds[s].last_ts = NOPTS
  BY NextPacket
<1>5. ds' \in [Streams -> demux_stream]
  <2> DEFINE last == IF pos > ds[s].last_ts THEN pos ELSE ds[s].last_ts
  <2>1. /\ pos \in Positions /\ last \in Positions
        /\ (IF ds[s].base_ts = NOPTS THEN last ELSE ds[s].base_ts) \in Positions
    BY <1>1, StreamFields DEF Positions, Inductive
  <2>2. (ds[s].refreshing /\ pos < ds[s].last_pos) \in BOOLEAN
    OBVIOUS
  <2>3. Added(s, pos) \in demux_stream
    <3> HIDE DEF pos, last, q, packet
    <3>1. ASSUME NEW d \in demux_stream, NEW c \in Seq(Packets), NEW p \in Positions,
                 NEW b \in BOOLEAN, NEW l \in Positions, NEW t \in Positions
          PROVE  [d EXCEPT !.queue = c, !.last_pos = p, !.eof = FALSE, !.refreshing = b,
                           !.last_ts = l, !.base_ts = t] \in demux_stream
      BY DEF demux_stream
    <3>2. Added(s, pos) =
            [ds[s] EXCEPT !.queue = Append(q, packet), !.last_pos = pos, !.eof = FALSE,
                          !.refreshing = ds[s].refreshing /\ pos < ds[s].last_pos,
                          !.last_ts = last,
                          !.base_ts = IF ds[s].base_ts = NOPTS THEN last ELSE ds[s].base_ts]
      BY DEF Added, last, q, packet
    <3>3. ds[s] \in demux_stream
      BY StreamFields DEF Inductive
    <3>4. PICK c \in Seq(Packets) : c = Append(q, packet)
      BY <1>2
    <3>5. PICK b \in BOOLEAN : b = (ds[s].refreshing /\ pos < ds[s].last_pos)
      BY <2>2
    <3>6. PICK l \in Positions, t \in Positions :
            l = last /\ t = IF ds[s].base_ts = NOPTS THEN last ELSE ds[s].base_ts
      BY <2>1
    <3>7. pos \in Positions
      BY <2>1
    <3>8. [ds[s] EXCEPT !.queue = c, !.last_pos = pos, !.eof = FALSE, !.refreshing = b,
                        !.last_ts = l, !.base_ts = t] \in demux_stream
      BY <3>1, <3>3, <3>7
    <3>q. QED
      BY <3>2, <3>4, <3>5, <3>6, <3>8
  <2>q. QED
    BY <2>3 DEF Inductive, TypeOK
<1>6. SeekState'
  BY <1>1 DEF Inductive, SeekState
<1>7. LastPos(s)'
  <2>1. \A i \in DOMAIN ds'[s].queue : ds'[s].queue[i].pos <= pos
    <3>1. \A i \in 1 .. Len(q) : q[i].pos <= ds[s].last_pos
      BY <1>2, LenProperties DEF Inductive, LastPos
    <3>2. \A i \in 1 .. Len(q) : q[i] \in Packets
      BY <1>2, ElementOfSeq
    <3>3. DOMAIN Append(q, packet) = 1 .. Len(q) + 1
      BY <1>2, LenProperties
    <3>q. QED
      <4>1. ASSUME NEW i \in 1 .. Len(q)
            PROVE  Append(q, packet)[i].pos <= pos
        <5>1. Append(q, packet)[i] = q[i] /\ q[i].pos \in 1 .. Len(File)
          BY <1>2, <3>2 DEF Packets
        <5>2. q[i].pos <= ds[s].last_pos /\ ds[s].last_pos < pos /\ ds[s].last_pos \in Int
          BY <1>4, <3>1, StreamFields, Lengths DEF Inductive, Positions, NOPTS
        <5>q. QED
          BY <1>1, <5>1, <5>2, Lengths
      <4>2. Append(q, packet)[Len(q) + 1].pos <= pos
        BY <1>1, <1>2, Lengths
      <4>3. \A i \in 1 .. Len(q) + 1 : i \in 1 .. Len(q) \/ i = Len(q) + 1
        BY <1>2
      <4>q. QED
        BY <1>3, <3>3, <4>1, <4>2, <4>3
  <2>2. ds'[s].base_ts \in 1 .. pos
    <3>1. ds[s].base_ts # NOPTS => ds[s].base_ts \in 1 .. ds[s].last_pos
      BY DEF Inductive, LastPos
    <3>q. QED
      BY <1>1, <1>3, <1>4, <3>1, StreamFields, Lengths DEF Inductive, Positions, NOPTS
  <2>3. pos + 1 .. file' = {} /\ pos # NOPTS
    BY <1>1, Lengths DEF NOPTS
  <2>4. pos <= file' /\ ds[s].selected
    BY <1>1, Lengths DEF Wanted
  <2>5. ds'[s].queue # <<>> /\ ds'[s].queue[Len(ds'[s].queue)].pos = pos
    BY <1>1, <1>2, <1>3
  <2> HIDE DEF pos
  <2>q. QED
    BY <1>3, <2>1, <2>2, <2>3, <2>4, <2>5 DEF LastPos
<1>8. ASSUME NEW r \in Streams, r # s
      PROVE  LastPos(r)'
  <2>1. LastPos(r) /\ ds'[r] = ds[r] /\ file \in Nat /\ ds[r].last_pos \in Positions
    BY <1>3, <1>8, StreamFields, Lengths DEF Inductive, TypeOK
  <2>2. ~InStream(r, pos)
    BY <1>8 DEF InStream
  <2>3. ASSUME ds[r].last_pos # NOPTS, NEW p \in ds[r].last_pos + 1 .. file'
        PROVE  ~InStream(r, p)
    <3>1. p = pos \/ p \in ds[r].last_pos + 1 .. file
      BY <2>1, <2>3, Lengths DEF Positions, NOPTS
    <3>q. QED
      BY <2>1, <2>2, <2>3, <3>1 DEF LastPos
  <2>4. ds[r].last_pos <= file => ds[r].last_pos <= file'
    BY <2>1, Lengths DEF Positions, NOPTS
  <2>q. QED
    BY <2>1, <2>3, <2>4 DEF LastPos
<1>9. PacketsFromLastSeek'
  <2>1. DOMAIN q = 1 .. Len(q) /\ DOMAIN Append(q, packet) = 1 .. Len(q) + 1
    BY <1>2, LenProperties
  <2>2. \A i \in 1 .. Len(q) + 1 : i \in 1 .. Len(q) \/ i = Len(q) + 1
    BY <1>2
  <2>3. \A r \in Streams : \A i \in DOMAIN ds[r].queue : ds[r].queue[i].seek = epoch
    BY DEF Inductive, PacketsInOrder, PacketsFromLastSeek
  <2>4. \A i \in 1 .. Len(q) + 1 : Append(q, packet)[i].seek = epoch
    BY <1>1, <1>2, <2>1, <2>2, <2>3
  <2>5. ASSUME NEW r \in Streams, NEW i \in DOMAIN ds'[r].queue
        PROVE  ds'[r].queue[i].seek = epoch
    <3>1. CASE r = s
      BY <1>3, <2>1, <2>4, <3>1
    <3>2. CASE r # s
      BY <1>3, <2>3, <3>2
    <3>q. QED
      BY <3>1, <3>2
  <2>q. QED
    BY <2>5 DEF PacketsFromLastSeek
<1>10. PacketsContiguous'
  <2>1. ASSUME NEW i \in 1 .. (Len(q) + 1) - 1
        PROVE  Consecutive(s, ds'[s].queue[i].pos, ds'[s].queue[i + 1].pos)
    <3>1. CASE i = Len(q)
      <4>1. q # <<>> /\ q[i].pos = ds[s].last_pos /\ q[i] \in Packets
        BY <1>2, <3>1, ElementOfSeq DEF Inductive, LastPos
      <4>2. ds[s].last_pos # NOPTS
        BY <4>1, Lengths DEF Packets, NOPTS
      <4>3. ds'[s].queue[i] = q[i] /\ ds'[s].queue[i + 1] = packet
        BY <1>2, <1>3, <3>1
      <4>q. QED
        BY <1>1, <1>4, <4>1, <4>2, <4>3
    <3>2. CASE i # Len(q)
      <4>1. i \in 1 .. Len(q) - 1 /\ i \in 1 .. Len(q) /\ i + 1 \in 1 .. Len(q)
        BY <1>2, <3>2
      <4>2. ds'[s].queue[i] = q[i] /\ ds'[s].queue[i + 1] = q[i + 1]
        BY <1>2, <1>3, <4>1
      <4>3. Consecutive(s, q[i].pos, q[i + 1].pos)
        BY <4>1 DEF Inductive, PacketsInOrder, PacketsContiguous
      <4>q. QED
        BY <4>2, <4>3
    <3>q. QED
      BY <3>1, <3>2
  <2>2. ASSUME ds[s].returned # 0
        PROVE  Consecutive(s, ds[s].returned, ds'[s].queue[1].pos)
    <3>1. CASE q = <<>>
      <4>1. ds'[s].queue[1] = packet /\ ds[s].last_pos = ds[s].returned
        BY <1>2, <1>3, <2>2, <3>1 DEF Inductive, LastPos
      <4>q. QED
        BY <1>1, <1>4, <2>2, <4>1, StreamFields, Lengths DEF Inductive, NOPTS
    <3>2. CASE q # <<>>
      <4>1. 1 \in 1 .. Len(q)
        BY <1>2, <3>2, EmptySeq
      <4>q. QED
        BY <1>2, <1>3, <2>2, <3>2, <4>1 DEF Inductive, PacketsInOrder, PacketsContiguous
    <3>q. QED
      BY <3>1, <3>2
  <2>3. ASSUME NEW r \in Streams, r # s
        PROVE  LET c == ds'[r].queue IN
                 /\ \A i \in 1 .. Len(c) - 1 : Consecutive(r, c[i].pos, c[i + 1].pos)
                 /\ c # <<>> /\ ds'[r].returned # 0 => Consecutive(r, ds'[r].returned, c[1].pos)
    BY <1>3, <2>3 DEF Inductive, PacketsInOrder, PacketsContiguous
  <2>4. Len(ds'[s].queue) = Len(q) + 1 /\ ds'[s].returned = ds[s].returned
    BY <1>2, <1>3
  <2>5. LET c == ds'[s].queue IN
          /\ \A i \in 1 .. Len(c) - 1 : Consecutive(s, c[i].pos, c[i + 1].pos)
          /\ c # <<>> /\ ds'[s].returned # 0 => Consecutive(s, ds'[s].returned, c[1].pos)
    BY <2>1, <2>2, <2>4
  <2>6. \A r \in Streams : LET c == ds'[r].queue IN
          /\ \A i \in 1 .. Len(c) - 1 : Consecutive(r, c[i].pos, c[i + 1].pos)
          /\ c # <<>> /\ ds'[r].returned # 0 => Consecutive(r, ds'[r].returned, c[1].pos)
    BY <2>3, <2>5
  <2>q. QED
    BY <2>6 DEF PacketsContiguous, Consecutive, InStream
<1>q. QED
  BY <1>5, <1>6, <1>7, <1>8, <1>9, <1>10 DEF Queues, PacketsInOrder

(* demux_add_packet with a packet the stream does not want, or has seen.   *)
LEMMA DroppedKeepsQueues ==
  ASSUME Inductive, NEW s \in Streams, file < Len(File), File[file + 1] = s,
         ~(Wanted(s) /\ ~DropsSeen(s, file + 1)), file' = file + 1,
         ds' = [ds EXCEPT ![s] = Dropped(s, file + 1)],
         UNCHANGED <<origin, epoch, seeking, seek_pts>>
  PROVE  /\ ds' \in [Streams -> demux_stream]
         /\ Queues'
<1>1. file \in Nat /\ \A r \in Streams : ds[r].last_pos \in Positions
  BY StreamFields, Lengths DEF Inductive, TypeOK
<1>2. ASSUME NEW r \in Streams
      PROVE  /\ ds'[r] \in demux_stream
             /\ ds'[r].queue = ds[r].queue /\ ds'[r].last_pos = ds[r].last_pos
             /\ ds'[r].base_ts = ds[r].base_ts /\ ds'[r].last_ts = ds[r].last_ts
             /\ ds'[r].returned = ds[r].returned /\ ds'[r].selected = ds[r].selected
             /\ ds'[r].active = ds[r].active /\ ds'[r].eof = ds[r].eof
             /\ ds'[r].refreshing = IF r = s THEN ds[s].refreshing /\ file + 1 < ds[s].last_pos
                                    ELSE ds[r].refreshing
  BY StreamFields DEF Dropped, demux_stream, Inductive, TypeOK
<1>3. ds' \in [Streams -> demux_stream]
  BY <1>2 DEF Inductive, TypeOK
<1>4. SeekState'
  BY <1>2 DEF Inductive, SeekState
<1>5. ASSUME NEW r \in Streams
      PROVE  LastPos(r)'
  <2>1. CASE r = s
    <3>1. LastPos(s) /\ (ds[s].last_pos # NOPTS => ds[s].selected /\ ~seeking)
      BY DEF Inductive, LastPos, SeekState
    <3>2. ds[s].last_pos # NOPTS => ds[s].refreshing /\ file + 1 <= ds[s].last_pos
      BY <3>1 DEF Wanted, DropsSeen
    <3>3. ds[s].last_pos # NOPTS => ds[s].last_pos + 1 .. file' = {}
      BY <1>1, <3>2, Lengths DEF Positions, NOPTS
    <3>4. ASSUME ds[s].last_pos # NOPTS
          PROVE  ds'[s].refreshing \/ ds[s].last_pos <= file'
      <4>1. ds'[s].refreshing = (ds[s].refreshing /\ file + 1 < ds[s].last_pos)
        BY <1>2
      <4>2. file + 1 < ds[s].last_pos \/ ds[s].last_pos <= file + 1
        BY <1>1, Lengths DEF Positions, NOPTS
      <4>q. QED
        BY <3>2, <3>4, <4>1, <4>2
    <3>5. ds[s].last_pos = NOPTS => ~ds'[s].refreshing
      BY <1>2, <3>1 DEF LastPos
    <3>q. QED
      BY <1>2, <2>1, <3>1, <3>3, <3>4, <3>5 DEF LastPos
  <2>2. CASE r # s
    <3>1. LastPos(r) /\ ds[r].last_pos \in Positions
      BY <1>1 DEF Inductive
    <3>2. ASSUME ds[r].last_pos # NOPTS, NEW p \in ds[r].last_pos + 1 .. file'
          PROVE  ~InStream(r, p)
      <4>1. p = file + 1 \/ p \in ds[r].last_pos + 1 .. file
        BY <1>1, <3>1, <3>2, Lengths DEF Positions, NOPTS
      <4>q. QED
        BY <2>2, <3>1, <3>2, <4>1 DEF LastPos, InStream
    <3>3. ds[r].last_pos <= file => ds[r].last_pos <= file'
      BY <1>1, <3>1, Lengths DEF Positions, NOPTS
    <3>q. QED
      BY <1>2, <2>2, <3>1, <3>2, <3>3 DEF LastPos
  <2>q. QED
    BY <2>1, <2>2
<1>6. PacketsInOrder'
  BY <1>2 DEF Inductive, PacketsInOrder, PacketsFromLastSeek, PacketsContiguous
<1>q. QED
  BY <1>3, <1>4, <1>5, <1>6 DEF Queues

(* The implementation reads a packet, or finds the end of the file.        *)
LEMMA FillBufferPreserves ==
  ASSUME Inductive, FillBuffer
  PROVE  Inductive'
<1>a. /\ UNCHANGED <<tracks_switched, start_refresh_seek, seeking, seek_pts,
                      thread_request_pause, thread_paused, thread_terminate, locked, origin,
                      user, epoch, overflow, switches>>
      /\ pc = "fill" /\ pc' = "filled" /\ "thread" \notin wakeup
  BY DEF Inductive, FlagsAgree, FillBuffer, requestVars
<1>1. CASE file < Len(File) /\ Wanted(File[file + 1]) /\ ~DropsSeen(File[file + 1], file + 1)
  <2> DEFINE s == File[file + 1]
  <2>1. s \in Streams /\ file + 1 \in DOMAIN File
    BY <1>1, Lengths, ElementOfSeq, LenProperties, ConstantsAssumption DEF Inductive, TypeOK,
       ConstantsAssumption
  <2> HIDE DEF s
  <2>2. /\ file' = file + 1 /\ fill_eof' = FALSE /\ eof' = FALSE /\ last_eof' = FALSE
        /\ ds' = [ds EXCEPT ![s] = Added(s, file + 1)] /\ wakeup' = {}
        /\ awaiting' = IF ds[s].queue = <<>> THEN {} ELSE awaiting
    BY <1>1 DEF FillBuffer, demux_add_packet, NotifyUser, Signalled, s
  <2>3. ds' \in [Streams -> demux_stream] /\ Queues'
    BY <1>1, <1>a, <2>1, <2>2, AddedKeepsQueues DEF s
  <2>4. /\ ds'[s].active = ds[s].active /\ ds'[s].selected = ds[s].selected
        /\ \A r \in Streams : r # s => ds'[r] = ds[r]
    BY <2>1, <2>2, StreamFields DEF Added, demux_stream, Inductive, TypeOK
  <2>5. TypeOK'
    <3>1. file' \in 0 .. Len(File) /\ awaiting' \subseteq Streams
      BY <1>1, <2>2, Lengths DEF Inductive, TypeOK
    <3>q. QED
      BY <1>a, <2>2, <2>3, <3>1 DEF Inductive, TypeOK, ThreadStates, UserStates
  <2>6. FlagsAgree'
    BY <1>a, <2>1, <2>2, <2>4 DEF Inductive, TypeOK, UserStates, FlagsAgree
  <2>7. Sleepers'
    BY <2>2 DEF Sleepers, NotBothAsleep, NoRequestSleptOver
  <2>8. NoMissedPacket'
    BY <2>1, <2>2, <2>4 DEF Inductive, TypeOK, NoMissedPacket
  <2>q. QED
    BY <2>3, <2>5, <2>6, <2>7, <2>8 DEF Inductive, Queues, Sleepers
<1>2. CASE file < Len(File) /\ ~(Wanted(File[file + 1]) /\ ~DropsSeen(File[file + 1], file + 1))
  <2> DEFINE s == File[file + 1]
  <2>1. s \in Streams /\ file + 1 \in DOMAIN File
    BY <1>2, Lengths, ElementOfSeq, LenProperties, ConstantsAssumption DEF Inductive, TypeOK,
       ConstantsAssumption
  <2> HIDE DEF s
  <2>2. /\ file' = file + 1 /\ fill_eof' = FALSE
        /\ UNCHANGED <<eof, last_eof, awaiting, wakeup>>
        /\ ds' = [ds EXCEPT ![s] = Dropped(s, file + 1)]
    BY <1>2 DEF FillBuffer, demux_add_packet, s
  <2>3. ds' \in [Streams -> demux_stream] /\ Queues'
    BY <1>2, <1>a, <2>1, <2>2, DroppedKeepsQueues DEF s
  <2>4. \A r \in Streams :
          /\ ds'[r].active = ds[r].active /\ ds'[r].selected = ds[r].selected
          /\ ds'[r].eof = ds[r].eof /\ ds'[r].queue = ds[r].queue
    BY <2>1, <2>2, StreamFields DEF Dropped, demux_stream, Inductive, TypeOK
  <2>5. TypeOK'
    <3>1. file' \in 0 .. Len(File) /\ awaiting' \subseteq Streams
      BY <1>2, <2>2, Lengths DEF Inductive, TypeOK
    <3>q. QED
      BY <1>a, <2>2, <2>3, <3>1 DEF Inductive, TypeOK, ThreadStates, UserStates
  <2>6. FlagsAgree'
    BY <1>a, <2>1, <2>2, <2>4 DEF Inductive, TypeOK, UserStates, FlagsAgree
  <2>7. Sleepers'
    BY <1>a, <2>2 DEF Inductive, Sleepers, NotBothAsleep, NoRequestSleptOver
  <2>8. NoMissedPacket'
    BY <2>1, <2>2, <2>4 DEF Inductive, TypeOK, NoMissedPacket
  <2>q. QED
    BY <2>3, <2>5, <2>6, <2>7, <2>8 DEF Inductive, Queues, Sleepers
<1>3. CASE ~(file < Len(File))
  <2>1. fill_eof' = TRUE /\ UNCHANGED <<ds, eof, last_eof, awaiting, wakeup, file>>
    BY <1>3 DEF FillBuffer
  <2>2. TypeOK'
    BY <1>a, <2>1 DEF Inductive, TypeOK, ThreadStates, UserStates
  <2>3. FlagsAgree'
    BY <1>a, <2>1 DEF Inductive, FlagsAgree
  <2>4. Sleepers'
    BY <1>a, <2>1 DEF Inductive, Sleepers, NotBothAsleep, NoRequestSleptOver
  <2>5. Queues'
    BY <1>a, <2>1, QueuesKept
  <2>6. NoMissedPacket'
    BY <2>1 DEF Inductive, NoMissedPacket
  <2>q. QED
    BY <2>2, <2>3, <2>4, <2>5, <2>6 DEF Inductive, Queues, Sleepers
<1>q. QED
  BY <1>1, <1>2, <1>3

(* dequeue_packet keeps what holds of the packets: the packet that is      *)
(* returned is the one that the rest of the queue follows.                 *)
LEMMA DequeuedKeepsQueues ==
  ASSUME Inductive, NEW s \in Streams, ds[s].queue # <<>>,
         UNCHANGED <<file, origin, epoch, seeking, seek_pts>>,
         \A r \in Streams \ {s} : ds'[r] = ds[r],
         ds'[s].queue = Tail(ds[s].queue),
         ds'[s].base_ts = Head(ds[s].queue).pos, ds'[s].returned = Head(ds[s].queue).pos,
         ds'[s].last_pos = ds[s].last_pos, ds'[s].last_ts = ds[s].last_ts,
         ds'[s].selected = ds[s].selected, ds'[s].refreshing = ds[s].refreshing
  PROVE  Queues'
<1> DEFINE q == ds[s].queue
<1>1. /\ q \in Seq(Packets) /\ Len(q) \in Nat /\ Len(q) > 0 /\ 1 \in 1 .. Len(q)
      /\ Head(q) = q[1] /\ Tail(q) \in Seq(Packets) /\ Len(Tail(q)) = Len(q) - 1
      /\ \A i \in 1 .. Len(q) - 1 : Tail(q)[i] = q[i + 1]
      /\ DOMAIN q = 1 .. Len(q) /\ DOMAIN Tail(q) = 1 .. Len(q) - 1
  BY StreamFields, HeadTailProperties, EmptySeq, LenProperties DEF Inductive
<1>2. \A i \in 1 .. Len(q) : q[i].pos \in 1 .. Len(File) /\ q[i].pos <= ds[s].last_pos
  <2>1. \A i \in 1 .. Len(q) : q[i] \in Packets
    BY <1>1, ElementOfSeq
  <2>q. QED
    BY <1>1, <2>1 DEF Packets, Inductive, LastPos
<1>3. SeekState'
  BY DEF Inductive, SeekState
<1>4. ASSUME NEW r \in Streams
      PROVE  LastPos(r)'
  <2>1. CASE r # s
    BY <2>1 DEF Inductive, LastPos
  <2>2. CASE r = s
    <3>1. LastPos(s) /\ ds[s].last_pos = q[Len(q)].pos /\ ds[s].last_pos # NOPTS
      BY <1>1, <1>2, Lengths DEF Inductive, LastPos, NOPTS
    <3>2. ds'[s].last_pos = IF Tail(q) # <<>> THEN Tail(q)[Len(Tail(q))].pos
                            ELSE ds'[s].returned
      <4>1. CASE Tail(q) = <<>>
        <5>0. Len(Tail(q)) = 0
          BY <1>1, <4>1, EmptySeq, Zenon
        <5>1. Len(q) = 1
          BY <1>1, <5>0
        <5>q. QED
          BY <1>1, <3>1, <4>1, <5>1
      <4>2. CASE Tail(q) # <<>>
        <5>1. Len(q) - 1 \in 1 .. Len(q) - 1
          BY <1>1, <4>2, EmptySeq
        <5>2. Tail(q)[Len(Tail(q))] = q[(Len(q) - 1) + 1] /\ (Len(q) - 1) + 1 = Len(q)
          BY <1>1, <5>1
        <5>q. QED
          BY <3>1, <4>2, <5>2
      <4>q. QED
        BY <4>1, <4>2
    <3>3. \A i \in DOMAIN Tail(q) : Tail(q)[i].pos <= ds[s].last_pos
      <4>1. \A i \in 1 .. Len(q) - 1 : i + 1 \in 1 .. Len(q)
        BY <1>1
      <4>q. QED
        BY <1>1, <1>2, <4>1
    <3>4. ds'[s].base_ts \in 1 .. ds[s].last_pos /\ ds'[s].returned # 0
      BY <1>1, <1>2, <3>1, Lengths
    <3> HIDE DEF q
    <3>q. QED
      BY <2>2, <3>1, <3>2, <3>3, <3>4 DEF LastPos, q
  <2>q. QED
    BY <2>1, <2>2
<1>5. PacketsFromLastSeek'
  <2>1. \A r \in Streams : \A i \in DOMAIN ds[r].queue : ds[r].queue[i].seek = epoch
    BY DEF Inductive, PacketsInOrder, PacketsFromLastSeek
  <2>2. \A i \in 1 .. Len(q) - 1 : i + 1 \in 1 .. Len(q)
    BY <1>1
  <2>3. \A i \in DOMAIN Tail(q) : Tail(q)[i].seek = epoch
    BY <1>1, <2>1, <2>2
  <2>4. ASSUME NEW r \in Streams, NEW i \in DOMAIN ds'[r].queue
        PROVE  ds'[r].queue[i].seek = epoch
    <3>1. CASE r = s
      BY <2>3, <3>1
    <3>2. CASE r # s
      BY <2>1, <3>2
    <3>q. QED
      BY <3>1, <3>2
  <2>q. QED
    BY <2>4 DEF PacketsFromLastSeek
<1>6. PacketsContiguous'
  <2>1. ASSUME NEW i \in 1 .. Len(q) - 1
        PROVE  Consecutive(s, q[i].pos, q[i + 1].pos)
    BY DEF Inductive, PacketsInOrder, PacketsContiguous
  <2>2. ASSUME NEW i \in 1 .. Len(Tail(q)) - 1
        PROVE  Consecutive(s, Tail(q)[i].pos, Tail(q)[i + 1].pos)
    <3>1. i \in 1 .. Len(q) - 1 /\ i + 1 \in 1 .. Len(q) - 1
      BY <1>1
    <3>q. QED
      BY <1>1, <2>1, <3>1
  <2>3. ASSUME Tail(q) # <<>>
        PROVE  Consecutive(s, Head(q).pos, Tail(q)[1].pos)
    <3>1. 1 \in 1 .. Len(q) - 1
      BY <1>1, <2>3, EmptySeq
    <3>2. Tail(q)[1] = q[1 + 1]
      BY <1>1, <3>1
    <3>q. QED
      BY <1>1, <2>1, <3>1, <3>2
  <2>4. ASSUME NEW r \in Streams
        PROVE  LET c == ds'[r].queue IN
                 /\ \A i \in 1 .. Len(c) - 1 : Consecutive(r, c[i].pos, c[i + 1].pos)
                 /\ c # <<>> /\ ds'[r].returned # 0 => Consecutive(r, ds'[r].returned, c[1].pos)
    <3>1. CASE r = s
      BY <2>2, <2>3, <3>1
    <3>2. CASE r # s
      BY <3>2 DEF Inductive, PacketsInOrder, PacketsContiguous
    <3>q. QED
      BY <3>1, <3>2
  <2>q. QED
    BY <2>4 DEF PacketsContiguous, Consecutive, InStream
<1>q. QED
  BY <1>3, <1>4, <1>5, <1>6 DEF Queues, PacketsInOrder

(* What ds_get_packets does to its stream.                                 *)
LEMMA GetPacketsEffect ==
  ASSUME Inductive, NEW s \in Streams, NEW d \in demux_stream, NEW take \in BOOLEAN,
         d.queue = ds[s].queue, d.base_ts = ds[s].base_ts, d.last_ts = ds[s].last_ts,
         d.last_pos = ds[s].last_pos, d.returned = ds[s].returned,
         d.selected = ds[s].selected, d.refreshing = ds[s].refreshing,
         d.active = ds[s].active, GetPackets(s, d, take),
         UNCHANGED <<file, origin, epoch, seeking, seek_pts>>
  PROVE  /\ ds' \in [Streams -> demux_stream]
         /\ Queues'
         /\ \A r \in Streams : r # s => ds'[r] = ds[r]
         /\ ds'[s].eof = d.eof /\ ds'[s].selected = d.selected
         /\ ds[s].queue = <<>> => ds'[s].queue = <<>>
         /\ \/ /\ wakeup' = {"user"} /\ ds'[s].active /\ ds'[s].selected /\ ~d.eof
               /\ user' = [at |-> "get", stream |-> s, take |-> take]
               /\ ds[s].queue = <<>>
            \/ /\ wakeup' = {} /\ user' = [at |-> "idle"] /\ ds'[s].active = ds[s].active
            \/ /\ wakeup' = wakeup /\ user' = [at |-> "idle"] /\ ds'[s].active = ds[s].active
               /\ ds'[s].queue = ds[s].queue
               /\ ~ds[s].selected \/ ds[s].queue # <<>> \/ d.eof
<1>1. CASE d.selected /\ d.queue = <<>> /\ ~d.eof
  <2>1. /\ ds' = [ds EXCEPT ![s] = [d EXCEPT !.active = TRUE]] /\ wakeup' = {"user"}
        /\ user' = [at |-> "get", stream |-> s, take |-> take]
    BY <1>1 DEF GetPackets, Signalled
  <2>2. [d EXCEPT !.active = TRUE] \in demux_stream
    BY DEF demux_stream
  <2>3. /\ ds'[s] \in demux_stream /\ \A r \in Streams : r # s => ds'[r] = ds[r]
        /\ ds' \in [Streams -> demux_stream] /\ ds'[s] = [d EXCEPT !.active = TRUE]
    BY <2>1, <2>2 DEF Inductive, TypeOK
  <2>4. /\ ds'[s].queue = d.queue /\ ds'[s].base_ts = d.base_ts /\ ds'[s].last_ts = d.last_ts
        /\ ds'[s].last_pos = d.last_pos /\ ds'[s].returned = d.returned
        /\ ds'[s].selected = d.selected /\ ds'[s].refreshing = d.refreshing
        /\ ds'[s].eof = d.eof /\ ds'[s].active = TRUE
    BY <2>3 DEF demux_stream
  <2>5. Queues'
    BY <2>3, <2>4, QueuesKept
  <2>q. QED
    BY <1>1, <2>1, <2>3, <2>4, <2>5
<1>2. CASE ~(d.selected /\ d.queue = <<>> /\ ~d.eof) /\ take /\ d.queue # <<>>
  <2>1. ds' = [ds EXCEPT ![s] = Dequeued(d)] /\ wakeup' = {} /\ user' = [at |-> "idle"]
    BY <1>2 DEF GetPackets, Signalled, Idle
  <2>2. Tail(d.queue) \in Seq(Packets) /\ Head(d.queue).pos \in 1 .. Len(File)
    <3>1. d.queue \in Seq(Packets)
      BY DEF demux_stream
    <3>2. Head(d.queue) \in Packets /\ Tail(d.queue) \in Seq(Packets)
      BY <1>2, <3>1, HeadTailProperties
    <3>q. QED
      BY <3>2 DEF Packets
  <2>3. Head(d.queue).pos \in Positions /\ Head(d.queue).pos \in 0 .. Len(File)
    BY <2>2, Lengths DEF Positions
  <2>4. Dequeued(d) \in demux_stream
    BY <2>2, <2>3 DEF Dequeued, demux_stream
  <2>5. /\ \A r \in Streams : r # s => ds'[r] = ds[r]
        /\ ds' \in [Streams -> demux_stream] /\ ds'[s] = Dequeued(d)
    BY <2>1, <2>4 DEF Inductive, TypeOK
  <2>6. /\ ds'[s].queue = Tail(d.queue) /\ ds'[s].base_ts = Head(d.queue).pos
        /\ ds'[s].last_ts = d.last_ts /\ ds'[s].last_pos = d.last_pos
        /\ ds'[s].returned = Head(d.queue).pos /\ ds'[s].selected = d.selected
        /\ ds'[s].refreshing = d.refreshing /\ ds'[s].eof = d.eof
        /\ ds'[s].active = d.active
    BY <2>5 DEF demux_stream, Dequeued
  <2>7. Queues'
    BY <1>2, <2>5, <2>6, DequeuedKeepsQueues
  <2>q. QED
    BY <1>2, <2>1, <2>5, <2>6, <2>7
<1>3. CASE ~(d.selected /\ d.queue = <<>> /\ ~d.eof) /\ ~(take /\ d.queue # <<>>)
  <2>1. /\ ds' = [ds EXCEPT ![s] = d] /\ wakeup' = IF take THEN {} ELSE wakeup
        /\ user' = [at |-> "idle"]
    BY <1>3 DEF GetPackets, Signalled, Idle
  <2>2. /\ \A r \in Streams : r # s => ds'[r] = ds[r]
        /\ ds' \in [Streams -> demux_stream] /\ ds'[s] = d
    BY <2>1 DEF Inductive, TypeOK
  <2>3. Queues'
    BY <2>2, QueuesKept
  <2>q. QED
    BY <1>3, <2>1, <2>2, <2>3
<1>q. QED
  BY <1>1, <1>2, <1>3

(* demux_read_packet and demux_get_next_pts up to their wait or return.    *)
LEMMA ReadCallPreserves ==
  ASSUME Inductive, NEW s \in Streams, NEW take \in BOOLEAN, demux_read_packet(s, take)
  PROVE  Inductive'
<1> DEFINE d == [ds[s] EXCEPT !.eof = FALSE]
<1>1. /\ UNCHANGED <<last_eof, requestVars, threadVars, epoch, overflow, switches>>
      /\ user.at = "idle" /\ eof' = FALSE /\ awaiting' = awaiting \ {s}
      /\ GetPackets(s, d, take)
  BY DEF demux_read_packet, UserAt
<1>2. /\ d \in demux_stream /\ d.queue = ds[s].queue /\ d.base_ts = ds[s].base_ts
      /\ d.last_ts = ds[s].last_ts /\ d.last_pos = ds[s].last_pos
      /\ d.returned = ds[s].returned /\ d.selected = ds[s].selected
      /\ d.refreshing = ds[s].refreshing /\ d.active = ds[s].active /\ d.eof = FALSE
  BY StreamFields DEF demux_stream, Inductive
<1> HIDE DEF d
<1>3. /\ ds' \in [Streams -> demux_stream]
      /\ Queues'
      /\ \A r \in Streams : r # s => ds'[r] = ds[r]
      /\ ds'[s].selected = ds[s].selected
      /\ ds[s].queue = <<>> => ds'[s].queue = <<>>
      /\ \/ /\ wakeup' = {"user"} /\ ds'[s].active /\ ds'[s].selected
            /\ user' = [at |-> "get", stream |-> s, take |-> take]
         \/ /\ wakeup' = {} /\ user' = [at |-> "idle"] /\ ds'[s].active = ds[s].active
         \/ /\ wakeup' = wakeup /\ user' = [at |-> "idle"] /\ ds'[s].active = ds[s].active
            /\ ds'[s].queue = ds[s].queue
            /\ ~ds[s].selected \/ ds[s].queue # <<>>
  BY <1>1, <1>2, GetPacketsEffect DEF requestVars, threadVars
<1>4. TypeOK'
  <2>1. wakeup' \subseteq {"thread", "user"}
    BY <1>3 DEF Inductive, TypeOK
  <2>2. user' \in UserStates
    <3>1. \/ user' = [at |-> "get", stream |-> s, take |-> take]
          \/ user' = [at |-> "idle"]
      BY <1>3
    <3>q. QED
      BY <3>1 DEF UserStates
  <2>q. QED
    BY <1>1, <1>3, <2>1, <2>2 DEF Inductive, TypeOK, ThreadStates, requestVars, threadVars
<1>5. FlagsAgree'
  BY <1>1, <1>3 DEF Inductive, TypeOK, FlagsAgree, requestVars, threadVars
<1>6. Sleepers'
  BY <1>1, <1>3 DEF Inductive, TypeOK, FlagsAgree, Sleepers, NotBothAsleep, NoRequestSleptOver,
     Starved, Pausing, requestVars
<1>7. NoMissedPacket'
  BY <1>1, <1>3 DEF Inductive, TypeOK, NoMissedPacket
<1>q. QED
  BY <1>3, <1>4, <1>5, <1>6, <1>7 DEF Inductive, Queues, Sleepers

(* The loop of ds_get_packets after its wait.                              *)
LEMMA GetWokenPreserves ==
  ASSUME Inductive, GetWoken
  PROVE  Inductive'
<1>1. /\ UNCHANGED <<last_eof, eof, requestVars, threadVars, historyVars>>
      /\ user.at = "get" /\ "user" \notin wakeup
      /\ GetPackets(user.stream, ds[user.stream], user.take)
  BY DEF GetWoken, UserWoken, UserAt
<1>2. PICK s \in Streams, take \in BOOLEAN : s = user.stream /\ take = user.take
  BY <1>1 DEF Inductive, TypeOK, UserStates
<1>3. ds[s] \in demux_stream /\ ds[s].active /\ GetPackets(s, ds[s], take)
  BY <1>1, <1>2, StreamFields DEF Inductive, FlagsAgree
<1>4. /\ ds' \in [Streams -> demux_stream]
      /\ Queues'
      /\ \A r \in Streams : r # s => ds'[r] = ds[r]
      /\ ds'[s].eof = ds[s].eof /\ ds'[s].selected = ds[s].selected
      /\ ds[s].queue = <<>> => ds'[s].queue = <<>>
      /\ \/ /\ wakeup' = {"user"} /\ ds'[s].active /\ ds'[s].selected /\ ~ds[s].eof
            /\ user' = [at |-> "get", stream |-> s, take |-> take]
         \/ /\ wakeup' = {} /\ user' = [at |-> "idle"] /\ ds'[s].active = ds[s].active
         \/ /\ wakeup' = wakeup /\ user' = [at |-> "idle"] /\ ds'[s].active = ds[s].active
            /\ ds'[s].queue = ds[s].queue
  <2>1. UNCHANGED <<file, origin, epoch, seeking, seek_pts>>
    BY <1>1 DEF requestVars, threadVars, historyVars
  <2>2. PICK d \in demux_stream : d = ds[s]
    BY <1>3
  <2>q. QED
    BY <1>3, <2>1, <2>2, GetPacketsEffect
<1>5. TypeOK'
  <2>1. wakeup' \subseteq {"thread", "user"}
    BY <1>4 DEF Inductive, TypeOK
  <2>2. user' \in UserStates
    <3>1. \/ user' = [at |-> "get", stream |-> s, take |-> take]
          \/ user' = [at |-> "idle"]
      BY <1>4
    <3>q. QED
      BY <3>1 DEF UserStates
  <2>q. QED
    BY <1>1, <1>4, <2>1, <2>2 DEF Inductive, TypeOK, ThreadStates, requestVars, threadVars,
       historyVars
<1>6. FlagsAgree'
  <2>1. \A r \in Streams : ds'[r].active => ds'[r].selected /\ (eof' => ds'[r].eof)
    BY <1>1, <1>3, <1>4 DEF Inductive, FlagsAgree
  <2>2. /\ thread_request_pause = 0 /\ ~thread_terminate
        /\ thread_paused => pc \in {"wait", "exited"}
        /\ pc # "exited" /\ ("thread" \in wakeup => pc = "wait")
        /\ UNCHANGED <<thread_request_pause, thread_terminate, thread_paused, pc>>
    BY <1>1 DEF Inductive, FlagsAgree, requestVars, threadVars
  <2>3. \/ user' = [at |-> "get", stream |-> s, take |-> take] /\ ds'[s].active
        \/ user' = [at |-> "idle"] /\ "user" \notin wakeup'
    BY <1>1, <1>4
  <2>4. "thread" \in wakeup' => pc' = "wait"
    BY <1>1, <1>4, <2>2
  <2>q. QED
    BY <2>1, <2>2, <2>3, <2>4 DEF FlagsAgree
<1>7. Sleepers'
  BY <1>1, <1>4 DEF Inductive, TypeOK, FlagsAgree, Sleepers, NotBothAsleep, NoRequestSleptOver,
     Starved, Pausing, requestVars
<1>8. NoMissedPacket'
  BY <1>1, <1>4 DEF Inductive, TypeOK, NoMissedPacket, historyVars
<1>q. QED
  BY <1>4, <1>5, <1>6, <1>7, <1>8 DEF Inductive, Queues, Sleepers

(* demux_read_packet_async                                                 *)
LEMMA AsyncPreserves ==
  ASSUME Inductive, NEW s \in Streams, demux_read_packet_async(s)
  PROVE  Inductive'
<1> DEFINE d == ds[s]
           e == IF d.queue # <<>> THEN Dequeued(d) ELSE d
<1>1. /\ UNCHANGED <<last_eof, requestVars, threadVars, user, epoch, overflow, switches>>
      /\ user.at = "idle" /\ eof' = FALSE /\ wakeup' = {}
      /\ ds' = [ds EXCEPT ![s] = [e EXCEPT !.active = d.selected]]
      /\ awaiting' = IF d.queue = <<>> /\ ~d.eof /\ d.selected THEN awaiting \cup {s}
                     ELSE awaiting \ {s}
  BY DEF demux_read_packet_async, UserAt, Signalled
<1>2. d \in demux_stream /\ d.queue \in Seq(Packets)
  BY StreamFields DEF Inductive
<1>3. d.queue # <<>> => /\ Tail(d.queue) \in Seq(Packets)
                        /\ Head(d.queue).pos \in 1 .. Len(File)
  <2>1. d.queue # <<>> => Tail(d.queue) \in Seq(Packets) /\ Head(d.queue) \in Packets
    BY <1>2, HeadTailProperties
  <2>q. QED
    BY <2>1 DEF Packets
<1>4. d.queue # <<>> => Head(d.queue).pos \in Positions /\ Head(d.queue).pos \in 0 .. Len(File)
  BY <1>3, Lengths DEF Positions
<1>5. Dequeued(d) \in demux_stream \/ d.queue = <<>>
  BY <1>2, <1>3, <1>4 DEF Dequeued, demux_stream
<1>6. /\ e \in demux_stream /\ e.selected = d.selected
      /\ e.queue = IF d.queue # <<>> THEN Tail(d.queue) ELSE d.queue
      /\ e.base_ts = IF d.queue # <<>> THEN Head(d.queue).pos ELSE d.base_ts
      /\ e.returned = IF d.queue # <<>> THEN Head(d.queue).pos ELSE d.returned
      /\ e.last_ts = d.last_ts /\ e.last_pos = d.last_pos /\ e.refreshing = d.refreshing
      /\ e.eof = d.eof
  BY <1>2, <1>5 DEF Dequeued, demux_stream
<1> HIDE DEF e
<1>7. /\ [e EXCEPT !.active = d.selected] \in demux_stream
      /\ ds'[s] = [e EXCEPT !.active = d.selected]
      /\ ds' \in [Streams -> demux_stream] /\ \A r \in Streams : r # s => ds'[r] = ds[r]
  <2>1. d.selected \in BOOLEAN
    BY StreamFields DEF Inductive
  <2>2. [e EXCEPT !.active = d.selected] \in demux_stream
    BY <1>6, <2>1 DEF demux_stream
  <2>q. QED
    BY <1>1, <2>2 DEF Inductive, TypeOK
<1>8. /\ ds'[s].selected = d.selected /\ ds'[s].active = d.selected /\ ds'[s].eof = d.eof
      /\ ds'[s].queue = e.queue /\ ds'[s].base_ts = e.base_ts
      /\ ds'[s].returned = e.returned /\ ds'[s].last_ts = e.last_ts
      /\ ds'[s].last_pos = e.last_pos /\ ds'[s].refreshing = e.refreshing
  BY <1>6, <1>7 DEF demux_stream
<1> HIDE DEF d
<1>9. Queues'
  <2>1. CASE d.queue # <<>>
    BY <1>1, <1>6, <1>7, <1>8, <2>1, DequeuedKeepsQueues DEF requestVars, threadVars, d
  <2>2. CASE d.queue = <<>>
    BY <1>1, <1>6, <1>7, <1>8, <2>2, QueuesKept DEF requestVars, threadVars, d
  <2>q. QED
    BY <2>1, <2>2
<1>10. TypeOK'
  BY <1>1, <1>7 DEF Inductive, TypeOK, ThreadStates, UserStates, Packets, requestVars, threadVars
<1>11. FlagsAgree'
  BY <1>1, <1>7, <1>8 DEF Inductive, TypeOK, FlagsAgree, requestVars, threadVars, d
<1>12. Sleepers'
  BY <1>1 DEF Sleepers, NotBothAsleep, NoRequestSleptOver
<1>13. NoMissedPacket'
  BY <1>1, <1>6, <1>7, <1>8 DEF Inductive, TypeOK, NoMissedPacket, d
<1>q. QED
  BY <1>9, <1>10, <1>11, <1>12, <1>13 DEF Inductive, Queues, Sleepers

(* The initial state, after demux_start_thread.                            *)
LEMMA InitEstablishes == Init => Inductive
<1> SUFFICES ASSUME Init
             PROVE  Inductive
  OBVIOUS
<1>1. \A s \in Streams :
        /\ ds[s] \in demux_stream /\ ds[s].queue = <<>> /\ ds[s].returned = 0
        /\ ds[s].last_pos = NOPTS /\ ds[s].base_ts = NOPTS /\ ds[s].last_ts = NOPTS
        /\ ds[s].active = FALSE /\ ds[s].refreshing = FALSE
  <2>1. <<>> \in Seq(Packets) /\ NOPTS \in Positions /\ 0 \in 0 .. Len(File)
    BY EmptySeq, Lengths DEF Positions
  <2>q. QED
    BY <2>1 DEF Init, demux_stream
<1>2. /\ last_eof = FALSE /\ eof = FALSE /\ tracks_switched = FALSE
      /\ start_refresh_seek = FALSE /\ seeking = FALSE /\ seek_pts = 0
      /\ thread_request_pause = 0 /\ thread_paused = FALSE /\ thread_terminate = FALSE
      /\ wakeup = {} /\ locked = FALSE /\ pc = "loop" /\ file = 0 /\ fill_eof = FALSE
      /\ origin = 0 /\ user = [at |-> "idle"] /\ awaiting = {} /\ epoch = 0
      /\ overflow = FALSE /\ switches = 0
  BY DEF Init
<1>3. TypeOK
  <2>1. ds \in [Streams -> demux_stream]
    BY <1>1 DEF Init
  <2>2. /\ 0 \in 0 .. Len(File) /\ 0 \in 0 .. MaxSeeks /\ 0 \in 0 .. MaxSwitches
        /\ 0 \in 0 .. 1
    BY Lengths
  <2>3. user \in UserStates
    BY <1>2 DEF UserStates
  <2>q. QED
    BY <1>2, <2>1, <2>2, <2>3 DEF TypeOK, ThreadStates
<1>4. FlagsAgree
  BY <1>1, <1>2 DEF FlagsAgree
<1>5. NotBothAsleep /\ NoRequestSleptOver
  BY <1>2 DEF NotBothAsleep, NoRequestSleptOver
<1>6. SeekState
  BY <1>2 DEF SeekState
<1>7. \A s \in Streams : LastPos(s)
  BY <1>1 DEF LastPos, NOPTS
<1>8. PacketsInOrder /\ NoMissedPacket
  BY <1>1, <1>2 DEF PacketsInOrder, PacketsFromLastSeek, PacketsContiguous, NoMissedPacket
<1>q. QED
  BY <1>3, <1>4, <1>5, <1>6, <1>7, <1>8 DEF Inductive

(* Every step of both threads preserves the invariant.                     *)
LEMMA NextPreserves == Inductive /\ [Next]_vars => Inductive'
<1> SUFFICES ASSUME Inductive, [Next]_vars
             PROVE  Inductive'
  OBVIOUS
<1>1. CASE ThreadStep
  BY <1>1, ExitPreserves, PausePreserves, ExecuteTrackswitchPreserves, TrackswitchDonePreserves,
     ExecuteSeekPreserves, SeekReturnsPreserves, ReadPreserves, OverflowPreserves,
     NothingPreserves, FillBufferPreserves, FillDonePreserves DEF ThreadStep
<1>2. CASE UserCall
  BY <1>2, ReadCallPreserves, AsyncPreserves, SelectPreserves, SeekPreserves, FlushPreserves,
     PauseCallPreserves, StopPreserves DEF UserCall
<1>3. CASE UserStep
  BY <1>3, GetWokenPreserves, SwitchedPreserves, PauseWokenPreserves, UnpausePreserves,
     JoinedPreserves DEF UserStep
<1>4. CASE \E p \in {"thread", "user"} : SpuriousWakeup(p)
  BY <1>4, SpuriousPreserves
<1>5. CASE UNCHANGED vars
  <2>1. UNCHANGED vars
    BY <1>5
  <2>2. TypeOK' /\ FlagsAgree'
    BY <2>1 DEF vars, requestVars, threadVars, historyVars, Inductive, TypeOK, FlagsAgree
  <2>3. Sleepers' /\ NoMissedPacket'
    BY <2>1 DEF vars, requestVars, threadVars, historyVars, Inductive, Sleepers, NotBothAsleep,
       NoRequestSleptOver, Pausing, Starved, NoMissedPacket
  <2>4. Queues'
    BY <2>1, QueuesKept DEF vars, requestVars, threadVars, historyVars
  <2>q. QED
    BY <2>2, <2>3, <2>4 DEF Inductive, Queues, Sleepers
<1>q. QED
  BY <1>1, <1>2, <1>3, <1>4, <1>5 DEF Next

(* The inductive invariant holds in every state of both threads.           *)
THEOREM InductiveHolds == Spec => []Inductive
<1>1. Init => Inductive
  BY InitEstablishes
<1>2. Inductive /\ [Next]_vars => Inductive'
  BY NextPreserves
<1>q. QED
  BY <1>1, <1>2, PTL DEF Spec

(* Nobody sleeps over a signal: the one condition variable never has two   *)
(* sleepers, and the thread that sleeps has nothing to do.                 *)
THEOREM NoLostWakeupHolds == Spec => []NoLostWakeup
<1>1. Inductive => NoLostWakeup
  BY DEF Inductive, NoLostWakeup
<1>q. QED
  BY <1>1, InductiveHolds, PTL

(* After demux_pause the thread keeps out of the demuxer implementation.   *)
THEOREM PausedMeansStoppedHolds == Spec => []PausedMeansStopped
<1>1. Inductive => PausedMeansStopped
  BY DEF Inductive, FlagsAgree, PausedMeansStopped
<1>q. QED
  BY <1>1, InductiveHolds, PTL

(* The queues hold packets of the last seek only, each right after the one *)
(* before it, whatever refresh seeks went on.                              *)
THEOREM PacketsInOrderHolds == Spec => []PacketsInOrder
<1>1. Inductive => PacketsInOrder
  BY DEF Inductive
<1>q. QED
  BY <1>1, InductiveHolds, PTL

(* A user who waits for the callback has no packet to fetch.               *)
THEOREM NoMissedPacketHolds == Spec => []NoMissedPacket
<1>1. Inductive => NoMissedPacket
  BY DEF Inductive
<1>q. QED
  BY <1>1, InductiveHolds, PTL

====
