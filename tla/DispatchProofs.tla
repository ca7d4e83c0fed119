--------------------------- MODULE DispatchProofs ---------------------------
(***************************************************************************)
(* Theorems about Dispatch.  Inductive is the inductive invariant; each    *)
(* region of the code preserves it (one lemma per region), and the safety  *)
(* properties follow from it.                                              *)
(***************************************************************************)
EXTENDS Dispatch, FiniteSetTheorems, SequenceTheorems, TLAPS

(* The suspends that are open are finitely many.                           *)
LEMMA OpenSuspendsFinite == IsFiniteSet(OpenSuspends)
<1>1. IsFiniteSet(1..MaxDepth)
  BY ConstantsAssumption, FS_Interval DEF ConstantsAssumption
<1>2. IsFiniteSet(Threads \X (1..MaxDepth))
  BY <1>1, ConstantsAssumption, FS_Product DEF ConstantsAssumption
<1>q. QED
  BY <1>2, FS_Subset DEF OpenSuspends

(* The counter is a natural number, and positive as soon as one thread has *)
(* a suspend open.                                                         *)
LEMMA CounterPositive ==
  ASSUME TypeOK, SuspendsCounted
  PROVE  /\ suspend_requested \in Nat
         /\ \A t \in Threads : depth[t] > 0 => suspend_requested > 0
<1>1. suspend_requested \in Nat
  BY OpenSuspendsFinite, FS_CardinalityType DEF SuspendsCounted
<1>2. ASSUME NEW t \in Threads, depth[t] > 0
      PROVE  suspend_requested > 0
  <2>1. <<t, 1>> \in OpenSuspends
    BY <1>2, ConstantsAssumption DEF ConstantsAssumption, TypeOK, OpenSuspends
  <2>2. Cardinality(OpenSuspends) # 0
    BY <2>1, OpenSuspendsFinite, FS_EmptySet
  <2>q. QED
    BY <1>1, <2>2 DEF SuspendsCounted
<1>q. QED
  BY <1>1, <1>2

(* A step that leaves the counter and the nesting alone keeps the count.   *)
LEMMA CountUnchanged ==
  ASSUME SuspendsCounted, UNCHANGED <<suspend_requested, depth>>
  PROVE  SuspendsCounted'
BY DEF SuspendsCounted, OpenSuspends

(* One more suspend of t adds one element to the set that is counted.      *)
LEMMA SuspendCounts ==
  ASSUME TypeOK, SuspendsCounted, NEW t \in Threads, NEW b \in BOOLEAN, SuspendBegin(t, b)
  PROVE  SuspendsCounted'
<1> DEFINE new == <<t, depth[t] + 1>>
<1>1. OpenSuspends' = OpenSuspends \cup {new}
  BY ConstantsAssumption DEF ConstantsAssumption, TypeOK, SuspendBegin, OpenSuspends
<1>2. new \notin OpenSuspends
  BY DEF TypeOK, OpenSuspends
<1>3. Cardinality(OpenSuspends') = Cardinality(OpenSuspends) + 1
  BY <1>1, <1>2, OpenSuspendsFinite, FS_AddElement
<1>q. QED
  BY <1>3 DEF SuspendsCounted, SuspendBegin

(* A resume of t takes its innermost suspend out of the set.               *)
LEMMA ResumeCounts ==
  ASSUME TypeOK, SuspendsCounted, NEW t \in Threads, CallState(t), mp_dispatch_resume(t)
  PROVE  SuspendsCounted'
<1> DEFINE old == <<t, depth[t]>>
<1>0. depth[t] > 0
  BY DEF mp_dispatch_resume, MayResume, CallState
<1>1. OpenSuspends' = OpenSuspends \ {old}
  BY <1>0, ConstantsAssumption
  DEF ConstantsAssumption, TypeOK, mp_dispatch_resume, OpenSuspends
<1>2. old \in OpenSuspends
  BY <1>0 DEF TypeOK, OpenSuspends
<1>3. Cardinality(OpenSuspends') = Cardinality(OpenSuspends) - 1
  BY <1>1, <1>2, OpenSuspendsFinite, FS_RemoveElement
<1>q. QED
  BY <1>3 DEF SuspendsCounted, mp_dispatch_resume

(* What mp_dispatch_append does to the fields it touches.                  *)
LEMMA AppendTypes ==
  ASSUME TypeOK, NEW t \in Threads, NEW k \in {"async", "sync"}, mp_dispatch_append(t, k)
  PROVE  /\ queue' \in Seq(Requests)
         /\ cond' \subseteq Threads \cup {Core}
         /\ issued' \in [Threads -> 0..MaxRequests]
<1>0. CallsOf[t] \in 0..MaxRequests /\ MaxRequests \in Nat
  BY ConstantsAssumption DEF ConstantsAssumption
<1>1. issued[t] + 1 \in 1..MaxRequests /\ issued[t] \in Nat
  BY <1>0 DEF TypeOK, mp_dispatch_append
<1>2. Request(t, k) \in Requests
  BY <1>1 DEF Request, Requests
<1>3. queue' \in Seq(Requests)
  BY <1>2 DEF TypeOK, mp_dispatch_append, InsertAtTail
<1>4. issued' \in [Threads -> 0..MaxRequests]
  BY <1>1 DEF TypeOK, mp_dispatch_append
<1>q. QED
  BY <1>3, <1>4 DEF mp_dispatch_append, Broadcast

(* mp_dispatch_enqueue appends an item.                                    *)
LEMMA EnqueuePreserves ==
  ASSUME Inductive, NEW t \in Threads, mp_dispatch_enqueue(t)
  PROVE  Inductive'
<1>1. TypeOK'
  BY AppendTypes DEF Inductive, TypeOK, ThreadStates, mp_dispatch_enqueue, Goto
<1>2. SuspendsCounted'
  BY CountUnchanged DEF Inductive, mp_dispatch_enqueue
<1>3. \A u \in Threads : CallState(u)'
  BY DEF Inductive, TypeOK, CallState, SuspendPending, mp_dispatch_enqueue,
         mp_dispatch_append, Goto
<1>4. LockOwners'
  BY DEF Inductive, TypeOK, CallState, LockOwners, InLockedSection,
     mp_dispatch_enqueue, Goto
<1>5. (suspended <=> Processing)'
  BY DEF Inductive, Processing, mp_dispatch_enqueue
<1>6. CoreStopped'
  BY DEF Inductive, TypeOK, CoreStopped, HasSuspended, SuspendPending, Processing,
         mp_dispatch_enqueue, Goto
<1>q. QED
  BY <1>1, <1>2, <1>3, <1>4, <1>5, <1>6 DEF Inductive

(* mp_dispatch_run appends an item and resets its flag.                    *)
LEMMA RunPreserves ==
  ASSUME Inductive, NEW t \in Threads, mp_dispatch_run(t)
  PROVE  Inductive'
<1>1. TypeOK'
  BY AppendTypes DEF Inductive, TypeOK, ThreadStates, mp_dispatch_run, FreshItem, Goto
<1>2. SuspendsCounted'
  BY CountUnchanged DEF Inductive, mp_dispatch_run
<1>3. \A u \in Threads : CallState(u)'
  BY DEF Inductive, TypeOK, CallState, SuspendPending, mp_dispatch_run,
     mp_dispatch_append, FreshItem, Goto
<1>4. LockOwners'
  BY ConstantsAssumption DEF ConstantsAssumption, Inductive, TypeOK, CallState,
     LockOwners, InLockedSection, mp_dispatch_run, mp_dispatch_append, FreshItem, Goto
<1>5. (suspended <=> Processing)'
  BY DEF Inductive, Processing, mp_dispatch_run, mp_dispatch_append, FreshItem, Goto
<1>6. CoreStopped'
  BY DEF Inductive, TypeOK, CallState, CoreStopped, HasSuspended, SuspendPending,
     Processing, mp_dispatch_run, mp_dispatch_append, FreshItem, Goto
<1>q. QED
  BY <1>1, <1>2, <1>3, <1>4, <1>5, <1>6 DEF Inductive

(* The first lock region of a suspend.                                     *)
LEMMA SuspendPreserves ==
  ASSUME Inductive, NEW t \in Threads, mp_dispatch_suspend(t)
  PROVE  Inductive'
<1>1. TypeOK'
  BY ConstantsAssumption DEF ConstantsAssumption, Inductive, TypeOK, ThreadStates,
     mp_dispatch_suspend, SuspendBegin, AfterSuspend, Goto
<1>2. SuspendsCounted'
  BY SuspendCounts DEF Inductive, mp_dispatch_suspend
<1>3. \A u \in Threads : CallState(u)'
  BY DEF Inductive, TypeOK, CallState, SuspendPending, mp_dispatch_suspend,
     SuspendBegin, AfterSuspend, Goto
<1>4. LockOwners'
  BY ConstantsAssumption DEF ConstantsAssumption, Inductive, TypeOK, CallState,
     LockOwners, InLockedSection, mp_dispatch_suspend, SuspendBegin, AfterSuspend, Goto
<1>5. (suspended <=> Processing)'
  BY DEF Inductive, Processing, mp_dispatch_suspend, SuspendBegin, AfterSuspend, Goto
<1>6. CoreStopped'
  BY DEF Inductive, TypeOK, CallState, CoreStopped, HasSuspended, SuspendPending,
     Processing, mp_dispatch_suspend, SuspendBegin, AfterSuspend, Goto
<1>q. QED
  BY <1>1, <1>2, <1>3, <1>4, <1>5, <1>6 DEF Inductive

(* The same for mp_dispatch_lock.                                         *)
LEMMA LockPreserves ==
  ASSUME Inductive, NEW t \in Threads, mp_dispatch_lock(t)
  PROVE  Inductive'
<1>0. CallsOf[t] \in 0..MaxRequests
  BY ConstantsAssumption DEF ConstantsAssumption
<1>1. TypeOK'
  BY <1>0, ConstantsAssumption DEF ConstantsAssumption, Inductive, TypeOK, ThreadStates,
     mp_dispatch_lock, SuspendBegin, AfterSuspend, Goto
<1>2. SuspendsCounted'
  BY SuspendCounts DEF Inductive, mp_dispatch_lock
<1>3. \A u \in Threads : CallState(u)'
  BY DEF Inductive, TypeOK, CallState, SuspendPending, mp_dispatch_lock, SuspendBegin,
     AfterSuspend, Goto
<1>4. LockOwners'
  BY ConstantsAssumption DEF ConstantsAssumption, Inductive, TypeOK, CallState,
     LockOwners, InLockedSection, mp_dispatch_lock, SuspendBegin, AfterSuspend, Goto
<1>5. (suspended <=> Processing)'
  BY DEF Inductive, Processing, mp_dispatch_lock, SuspendBegin, AfterSuspend, Goto
<1>6. CoreStopped'
  BY DEF Inductive, TypeOK, CallState, CoreStopped, HasSuspended, SuspendPending,
     Processing, mp_dispatch_lock, SuspendBegin, AfterSuspend, Goto
<1>q. QED
  BY <1>1, <1>2, <1>3, <1>4, <1>5, <1>6 DEF Inductive

(* The call of wakeup_fn.                                                  *)
LEMMA WakeupPreserves ==
  ASSUME Inductive, NEW t \in Threads, wakeup_fn(t)
  PROVE  Inductive'
<1>1. TypeOK'
  BY ConstantsAssumption DEF ConstantsAssumption, Inductive, TypeOK, ThreadStates,
     wakeup_fn, PostWakeup, Goto
<1>2. SuspendsCounted'
  BY CountUnchanged DEF Inductive, wakeup_fn
<1>3. \A u \in Threads : CallState(u)'
  BY DEF Inductive, TypeOK, CallState, SuspendPending, wakeup_fn, PostWakeup, Goto
<1>4. LockOwners'
  BY ConstantsAssumption DEF ConstantsAssumption, Inductive, TypeOK, CallState,
     LockOwners, InLockedSection, wakeup_fn, PostWakeup, Goto
<1>5. (suspended <=> Processing)'
  BY DEF Inductive, Processing, wakeup_fn, PostWakeup, Goto
<1>6. CoreStopped'
  BY DEF Inductive, TypeOK, CallState, CoreStopped, HasSuspended, SuspendPending,
     Processing, wakeup_fn, PostWakeup, Goto
<1>q. QED
  BY <1>1, <1>2, <1>3, <1>4, <1>5, <1>6 DEF Inductive

(* The wait of mp_dispatch_run.                                            *)
LEMMA RunWaitPreserves ==
  ASSUME Inductive, NEW t \in Threads, RunWait(t)
  PROVE  Inductive'
<1>1. TypeOK'
  BY ConstantsAssumption DEF ConstantsAssumption, Inductive, TypeOK, ThreadStates,
     RunWait, Goto
<1>2. SuspendsCounted'
  BY CountUnchanged DEF Inductive, RunWait
<1>3. \A u \in Threads : CallState(u)'
  BY DEF Inductive, TypeOK, CallState, SuspendPending, RunWait, Goto
<1>4. LockOwners'
  BY ConstantsAssumption DEF ConstantsAssumption, Inductive, TypeOK, CallState,
     LockOwners, InLockedSection, RunWait, Goto
<1>5. (suspended <=> Processing)'
  BY DEF Inductive, Processing, RunWait, Goto
<1>6. CoreStopped'
  BY DEF Inductive, TypeOK, CallState, CoreStopped, HasSuspended, SuspendPending,
     Processing, RunWait, Goto
<1>q. QED
  BY <1>1, <1>2, <1>3, <1>4, <1>5, <1>6 DEF Inductive

(* The lock regions of the loop in mp_dispatch_suspend.                    *)
LEMMA SuspendCheckPreserves ==
  ASSUME Inductive, NEW t \in Threads, SuspendCheck(t)
  PROVE  Inductive'
<1>1. TypeOK'
  BY ConstantsAssumption DEF ConstantsAssumption, Inductive, TypeOK, ThreadStates,
     SuspendCheck, AfterSuspend, Goto
<1>2. SuspendsCounted'
  BY CountUnchanged DEF Inductive, SuspendCheck
<1>3. \A u \in Threads : CallState(u)'
  BY DEF Inductive, TypeOK, CallState, SuspendPending, SuspendCheck, AfterSuspend, Goto
<1>4. LockOwners'
  BY ConstantsAssumption DEF ConstantsAssumption, Inductive, TypeOK, CallState,
     LockOwners, InLockedSection, SuspendCheck, AfterSuspend, Goto
<1>5. (suspended <=> Processing)'
  BY DEF Inductive, Processing, SuspendCheck, AfterSuspend, Goto
<1>6. CoreStopped'
  BY DEF Inductive, TypeOK, CallState, CoreStopped, HasSuspended, SuspendPending,
     Processing, SuspendCheck, AfterSuspend, Goto
<1>q. QED
  BY <1>1, <1>2, <1>3, <1>4, <1>5, <1>6 DEF Inductive

(* mp_dispatch_lock takes exclusive_lock.                                  *)
LEMMA LockAcquirePreserves ==
  ASSUME Inductive, NEW t \in Threads, LockAcquire(t)
  PROVE  Inductive'
<1>0. issued[t] \in 1..MaxRequests
  BY ConstantsAssumption DEF ConstantsAssumption, Inductive, TypeOK, CallState,
     LockAcquire
<1>1. TypeOK'
  BY <1>0 DEF Inductive, TypeOK, ThreadStates, LockAcquire, Requests, Goto
<1>2. SuspendsCounted'
  BY CountUnchanged DEF Inductive, LockAcquire
<1>3. \A u \in Threads : CallState(u)'
  BY DEF Inductive, TypeOK, CallState, SuspendPending, LockAcquire, Requests, Goto
<1>4. LockOwners'
  BY ConstantsAssumption DEF ConstantsAssumption, Inductive, TypeOK, CallState,
     LockOwners, InLockedSection, LockAcquire, Requests, Goto
<1>5. (suspended <=> Processing)'
  BY DEF Inductive, Processing, LockAcquire, Requests, Goto
<1>6. CoreStopped'
  BY DEF Inductive, TypeOK, CallState, CoreStopped, HasSuspended, SuspendPending,
     Processing, LockAcquire, Requests, Goto
<1>q. QED
  BY <1>1, <1>2, <1>3, <1>4, <1>5, <1>6 DEF Inductive

(* mp_dispatch_unlock releases it.                                         *)
LEMMA UnlockPreserves ==
  ASSUME Inductive, NEW t \in Threads, mp_dispatch_unlock(t)
  PROVE  Inductive'
<1>1. TypeOK'
  BY ConstantsAssumption DEF ConstantsAssumption, Inductive, TypeOK, ThreadStates,
     mp_dispatch_unlock, Goto
<1>2. SuspendsCounted'
  BY CountUnchanged DEF Inductive, mp_dispatch_unlock
<1>3. \A u \in Threads : CallState(u)'
  BY DEF Inductive, TypeOK, CallState, SuspendPending, mp_dispatch_unlock, Goto
<1>4. LockOwners'
  BY ConstantsAssumption DEF ConstantsAssumption, Inductive, TypeOK, CallState,
     LockOwners, InLockedSection, mp_dispatch_unlock, Goto
<1>5. (suspended <=> Processing)'
  BY DEF Inductive, Processing, mp_dispatch_unlock, Goto
<1>6. CoreStopped'
  BY DEF Inductive, TypeOK, CallState, CoreStopped, HasSuspended, SuspendPending,
     Processing, mp_dispatch_unlock, Goto
<1>q. QED
  BY <1>1, <1>2, <1>3, <1>4, <1>5, <1>6 DEF Inductive

(* A resume undoes the innermost suspend.                                  *)
LEMMA ResumePreserves ==
  ASSUME Inductive, NEW t \in Threads, mp_dispatch_resume(t)
  PROVE  Inductive'
<1>1. TypeOK'
  BY ConstantsAssumption DEF ConstantsAssumption, Inductive, TypeOK, ThreadStates,
     mp_dispatch_resume, MayResume, ResumeSleepers, CallState, Goto
<1>2. SuspendsCounted'
  BY ResumeCounts DEF Inductive
<1>3. \A u \in Threads : CallState(u)'
  BY DEF Inductive, TypeOK, CallState, SuspendPending, mp_dispatch_resume, MayResume,
     ResumeSleepers, CallState, Goto
<1>4. LockOwners'
  BY ConstantsAssumption DEF ConstantsAssumption, Inductive, TypeOK, CallState,
     LockOwners, InLockedSection, mp_dispatch_resume, MayResume, ResumeSleepers,
     CallState, Goto
<1>5. (suspended <=> Processing)'
  BY DEF Inductive, Processing, mp_dispatch_resume, MayResume, ResumeSleepers,
     CallState, Goto
<1>6. CoreStopped'
  BY DEF Inductive, TypeOK, CallState, CoreStopped, HasSuspended, SuspendPending,
     Processing, mp_dispatch_resume, MayResume, ResumeSleepers, CallState, Goto
<1>q. QED
  BY <1>1, <1>2, <1>3, <1>4, <1>5, <1>6 DEF Inductive

(* What one iteration of mp_dispatch_queue_process does to its fields.     *)
LEMMA IterateTypes ==
  ASSUME TypeOK, NEW timed \in BOOLEAN, NEW sleepers \in SUBSET (Threads \cup {Core}),
         Iterate(timed, sleepers)
  PROVE  /\ queue' \in Seq(Requests)
         /\ suspended' \in BOOLEAN
         /\ cond' \subseteq Threads \cup {Core}
         /\ core' \in CoreStates
         /\ current' \in Requests \cup {None}
         /\ core' \in {"took_item", "in_fn", "fn_done"} => current' \in Requests
<1>1. CASE queue # <<>>
  <2>1. Head(queue) \in Requests /\ Tail(queue) \in Seq(Requests)
    BY <1>1 DEF TypeOK
  <2>q. QED
    BY <1>1, <2>1 DEF TypeOK, CoreStates, Iterate
<1>2. CASE queue = <<>>
  BY <1>2 DEF TypeOK, CoreStates, Iterate
<1>q. QED
  BY <1>1, <1>2

(* An iteration keeps the invariant: it leaves the queue only when the     *)
(* counter is zero, and then no thread has a suspend open.                 *)
LEMMA IteratePreserves ==
  ASSUME Inductive, NEW timed \in BOOLEAN, NEW sleepers \in SUBSET (Threads \cup {Core}),
         Iterate(timed, sleepers),
         core # "in_fn",
         completed' \in [Threads -> BOOLEAN],
         UNCHANGED <<suspend_requested, exclusive_lock, wakeup, pc, locking, depth, issued, ran>>
  PROVE  Inductive'
<1>1. TypeOK'
  BY IterateTypes DEF Inductive, TypeOK
<1>2. SuspendsCounted'
  BY CountUnchanged DEF Inductive
<1>3. \A u \in Threads : CallState(u)'
  BY DEF Inductive, CallState, SuspendPending
<1>4. LockOwners'
  BY DEF Inductive, LockOwners, InLockedSection, Iterate
<1>5. (suspended <=> Processing)'
  BY DEF Processing, Iterate
<1>6. CoreStopped'
  <2>1. CASE core' # "outside"
    BY <2>1 DEF CoreStopped, Processing, Iterate
  <2>2. CASE core' = "outside"
    <3>1. suspend_requested = 0
      BY <2>2, CounterPositive DEF Inductive, Iterate, KeepProcessing
    <3>2. \A t \in Threads : depth[t] = 0
      BY <3>1, CounterPositive DEF Inductive, TypeOK
    <3>q. QED
      BY <3>2 DEF CoreStopped, HasSuspended
  <2>q. QED
    BY <2>1, <2>2
<1>q. QED
  BY <1>1, <1>2, <1>3, <1>4, <1>5, <1>6 DEF Inductive

(* mp_dispatch_queue_process starts.                                       *)
LEMMA EnterPreserves ==
  ASSUME Inductive, ProcessEnter
  PROVE  Inductive'
<1>1. PICK timed \in BOOLEAN : Iterate(timed, {})
  BY DEF ProcessEnter
<1>q. QED
  BY <1>1, IteratePreserves DEF ProcessEnter, Inductive, TypeOK

(* An item is done with.                                                   *)
LEMMA FinishPreserves ==
  ASSUME Inductive, ProcessFinish
  PROVE  Inductive'
<1>1. CASE current.kind = "async"
  BY <1>1, IteratePreserves DEF ProcessFinish, Inductive, TypeOK
<1>2. CASE current.kind = "sync"
  BY <1>2, IteratePreserves DEF ProcessFinish, CompletionSleepers, Inductive, TypeOK
<1>q. QED
  BY <1>1, <1>2 DEF ProcessFinish

(* The wait of the core returns.                                           *)
LEMMA WokenPreserves ==
  ASSUME Inductive, ProcessWoken
  PROVE  Inductive'
<1>1. cond \ {Core} \in SUBSET (Threads \cup {Core})
  BY DEF Inductive, TypeOK
<1>q. QED
  BY <1>1, IteratePreserves DEF ProcessWoken, Inductive, TypeOK

(* The player comes back from mp_input_wait.                               *)
LEMMA ReadyPreserves ==
  ASSUME Inductive, CoreReady
  PROVE  Inductive'
<1>1. TypeOK'
  BY DEF Inductive, TypeOK, CoreStates, CoreReady, CoreWakeup, CoreTimeout
<1>2. SuspendsCounted'
  BY CountUnchanged DEF Inductive, CoreReady
<1>3. \A u \in Threads : CallState(u)'
  BY DEF Inductive, CallState, SuspendPending, CoreReady
<1>4. LockOwners'
  BY ConstantsAssumption DEF ConstantsAssumption, Inductive, TypeOK, LockOwners,
     InLockedSection, CoreReady, CoreWakeup, CoreTimeout
<1>5. (suspended <=> Processing)'
  BY DEF Inductive, Processing, CoreReady, CoreWakeup, CoreTimeout
<1>6. CoreStopped'
  BY DEF Inductive, CoreStopped, HasSuspended, SuspendPending, Processing, CoreReady,
     CoreWakeup, CoreTimeout
<1>q. QED
  BY <1>1, <1>2, <1>3, <1>4, <1>5, <1>6 DEF Inductive

(* The core takes exclusive_lock and runs the callback.                    *)
LEMMA CoreRunPreserves ==
  ASSUME Inductive, ProcessRun
  PROVE  Inductive'
<1>1. TypeOK'
  BY DEF Inductive, TypeOK, CoreStates, ProcessRun, CanRun
<1>2. SuspendsCounted'
  BY CountUnchanged DEF Inductive, ProcessRun
<1>3. \A u \in Threads : CallState(u)'
  BY DEF Inductive, CallState, SuspendPending, ProcessRun
<1>4. LockOwners'
  BY ConstantsAssumption DEF ConstantsAssumption, Inductive, TypeOK, LockOwners,
     InLockedSection, ProcessRun, CanRun
<1>5. (suspended <=> Processing)'
  BY DEF Inductive, Processing, ProcessRun
<1>6. CoreStopped'
  BY DEF Inductive, CoreStopped, HasSuspended, SuspendPending, Processing, ProcessRun
<1>q. QED
  BY <1>1, <1>2, <1>3, <1>4, <1>5, <1>6 DEF Inductive

(* The callback returns and exclusive_lock is released.                    *)
LEMMA FnDonePreserves ==
  ASSUME Inductive, ProcessFnDone
  PROVE  Inductive'
<1>1. TypeOK'
  BY DEF Inductive, TypeOK, CoreStates, ProcessFnDone, FnDoneCompleted
<1>2. SuspendsCounted'
  BY CountUnchanged DEF Inductive, ProcessFnDone
<1>3. \A u \in Threads : CallState(u)'
  BY DEF Inductive, CallState, SuspendPending, ProcessFnDone
<1>4. LockOwners'
  BY ConstantsAssumption DEF ConstantsAssumption, Inductive, TypeOK, LockOwners,
     InLockedSection, ProcessFnDone, FnDoneCompleted
<1>5. (suspended <=> Processing)'
  BY DEF Inductive, Processing, ProcessFnDone
<1>6. CoreStopped'
  BY DEF Inductive, CoreStopped, HasSuspended, SuspendPending, Processing, ProcessFnDone
<1>q. QED
  BY <1>1, <1>2, <1>3, <1>4, <1>5, <1>6 DEF Inductive

(* A condition wait returns without a signal.                              *)
LEMMA SpuriousPreserves ==
  ASSUME Inductive, NEW p \in Threads \cup {Core}, SpuriousWakeup(p)
  PROVE  Inductive'
<1>1. TypeOK'
  BY DEF Inductive, TypeOK, SpuriousWakeup
<1>2. SuspendsCounted'
  BY CountUnchanged DEF Inductive, SpuriousWakeup
<1>q. QED
  BY <1>1, <1>2 DEF Inductive, CallState, SuspendPending, LockOwners, InLockedSection,
     Processing, CoreStopped, HasSuspended, SpuriousWakeup

(* A step that changes nothing.                                            *)
LEMMA StutterPreserves ==
  ASSUME Inductive, UNCHANGED vars
  PROVE  Inductive'
<1>1. TypeOK'
  BY DEF Inductive, TypeOK, vars
<1>2. SuspendsCounted'
  BY CountUnchanged DEF Inductive, vars
<1>q. QED
  BY <1>1, <1>2 DEF Inductive, CallState, SuspendPending, LockOwners, InLockedSection,
     Processing, CoreStopped, HasSuspended, vars

(* The invariant holds at the start.                                       *)
LEMMA InitInductive ==
  ASSUME Init
  PROVE  Inductive
<1>1. TypeOK
  <2>1. queue \in Seq(Requests) /\ cond \subseteq Threads \cup {Core} /\ ran \subseteq Requests
    BY DEF Init
  <2>2. depth \in [Threads -> 0..MaxDepth] /\ issued \in [Threads -> 0..MaxRequests]
    BY ConstantsAssumption DEF ConstantsAssumption, Init
  <2>3. /\ completed \in [Threads -> BOOLEAN] /\ locking \in [Threads -> BOOLEAN]
        /\ pc \in [Threads -> ThreadStates]
    BY DEF Init, ThreadStates
  <2>4. suspended \in BOOLEAN /\ wakeup \in BOOLEAN
    BY Zenon DEF Init
  <2>5. suspend_requested \in Int
    BY DEF Init
  <2>6. core = "outside" /\ core \in CoreStates
    BY DEF Init, CoreStates
  <2>7. exclusive_lock = None /\ current = None
    BY DEF Init
  <2>q. QED
    BY <2>1, <2>2, <2>3, <2>4, <2>5, <2>6, <2>7, Zenon DEF TypeOK
<1>2. SuspendsCounted
  <2>1. OpenSuspends = {}
    BY DEF Init, OpenSuspends
  <2>q. QED
    BY <2>1, FS_EmptySet DEF Init, SuspendsCounted
<1>q. QED
  BY <1>1, <1>2, ConstantsAssumption
  DEF ConstantsAssumption, Init, Inductive, CallState, SuspendPending, LockOwners,
      InLockedSection, Processing, CoreStopped, HasSuspended

(* Every step keeps it.                                                    *)
LEMMA NextInductive ==
  ASSUME Inductive, [Next]_vars
  PROVE  Inductive'
<1>1. CASE \E t \in Threads : ThreadCall(t)
  BY <1>1, EnqueuePreserves, RunPreserves, SuspendPreserves, LockPreserves DEF
     ThreadCall
<1>2. CASE \E t \in Threads : ThreadStep(t)
  BY <1>2, WakeupPreserves, RunWaitPreserves, SuspendCheckPreserves,
     LockAcquirePreserves,
     UnlockPreserves, ResumePreserves DEF ThreadStep
<1>3. CASE CoreReady
  BY <1>3, ReadyPreserves
<1>4. CASE ProcessStep
  BY <1>4, EnterPreserves, CoreRunPreserves, FnDonePreserves, FinishPreserves,
     WokenPreserves DEF ProcessStep
<1>5. CASE \E p \in Threads \cup {Core} : SpuriousWakeup(p)
  BY <1>5, SpuriousPreserves
<1>6. CASE UNCHANGED vars
  BY <1>6, StutterPreserves
<1>q. QED
  BY <1>1, <1>2, <1>3, <1>4, <1>5, <1>6 DEF Next

(* The counter counts the open suspends, and the mutex is owned by whoever *)
(* is between taking and releasing it: in every reachable state.           *)
THEOREM InvariantHolds == Spec => []Inductive
  BY InitInductive, NextInductive, PTL DEF Spec

(* Every field keeps its range, whatever the interleaving.                 *)
THEOREM TypeCorrect == Spec => []TypeOK
<1>1. Inductive => TypeOK
  BY DEF Inductive
<1>q. QED
  BY <1>1, InvariantHolds, PTL

(* What the owners of the mutex imply for suspend mode.                    *)
LEMMA InductiveLock ==
  ASSUME Inductive
  PROVE  ExclusiveLockInvariant
<1>1. ASSUME NEW t \in Threads, exclusive_lock = t
      PROVE  suspended /\ suspend_requested > 0
  <2>1. InLockedSection(t) /\ depth[t] > 0
    BY <1>1 DEF Inductive, LockOwners, InLockedSection, CallState
  <2>2. HasSuspended(t)
    BY <2>1 DEF HasSuspended, InLockedSection, SuspendPending
  <2>q. QED
    BY <2>1, <2>2, CounterPositive DEF Inductive, CoreStopped
<1>2. exclusive_lock = Core => suspended
  BY DEF Inductive, LockOwners, Processing
<1>q. QED
  BY <1>1, <1>2 DEF Inductive, TypeOK, ExclusiveLockInvariant

(* Nobody leaves suspend mode under exclusive_lock, and no client holds it *)
(* without a suspend that is counted (dispatch.c:40-42).                   *)
THEOREM LockInvariantHolds == Spec => []ExclusiveLockInvariant
  BY InductiveLock, InvariantHolds, PTL

(* From the return of mp_dispatch_suspend to the matching resume the core  *)
(* stays inside of mp_dispatch_queue_process.                              *)
THEOREM CoreStaysStopped == Spec => []CoreStopped
<1>1. Inductive => CoreStopped
  BY DEF Inductive
<1>q. QED
  BY <1>1, InvariantHolds, PTL

(* The player, callbacks and clients that hold the lock never overlap.     *)
THEOREM AccessIsExclusive == Spec => []ExclusiveAccess
<1>1. Inductive => ExclusiveAccess
  <2> SUFFICES ASSUME Inductive PROVE ExclusiveAccess
    OBVIOUS
  <2>1. \A t, u \in Threads : InLockedSection(t) /\ InLockedSection(u) => t = u
    BY DEF Inductive, LockOwners
  <2>2. ASSUME NEW t \in Threads, InLockedSection(t)
        PROVE  Processing /\ core # "in_fn"
    <3>1. exclusive_lock = t /\ exclusive_lock # Core
      BY <2>2, ConstantsAssumption DEF ConstantsAssumption, Inductive, LockOwners
    <3>2. HasSuspended(t)
      BY <2>2 DEF Inductive, TypeOK, CallState, HasSuspended, InLockedSection, SuspendPending
    <3>q. QED
      BY <3>1, <3>2 DEF Inductive, LockOwners, CoreStopped
  <2>q. QED
    BY <2>1, <2>2 DEF ExclusiveAccess
<1>q. QED
  BY <1>1, InvariantHolds, PTL

(* The assertions of mp_dispatch_resume never fail (dispatch.c:248-249).   *)
THEOREM ResumeAssertsHold == Spec => []ResumeAsserts
<1>1. Inductive => ResumeAsserts
  <2> SUFFICES ASSUME Inductive, NEW t \in Threads, MayResume(t)
               PROVE  suspended /\ suspend_requested > 0
    BY DEF ResumeAsserts
  <2>1. depth[t] > 0 /\ HasSuspended(t)
    BY DEF Inductive, CallState, MayResume, HasSuspended, SuspendPending
  <2>q. QED
    BY <2>1, CounterPositive DEF Inductive, CoreStopped
<1>q. QED
  BY <1>1, InvariantHolds, PTL

(* The holder of CoreAccess, as the queue's state gives it.                *)
Holder == IF Processing THEN exclusive_lock ELSE Player

(* While the player runs, nobody has the mutex.                            *)
LEMMA FreeOutside ==
  ASSUME Inductive, ~Processing
  PROVE  exclusive_lock = None
BY InductiveLock DEF Inductive, TypeOK, ExclusiveLockInvariant

(* An iteration of the queue leaves the holder alone, takes the state from *)
(* the player, or gives it back to the player.                             *)
LEMMA IterateHolder ==
  ASSUME Inductive, NEW timed \in BOOLEAN, NEW sleepers, Iterate(timed, sleepers),
         UNCHANGED exclusive_lock, core \notin {"in_fn", "outside"}
  PROVE  \/ Holder' = Holder
         \/ Holder = Player /\ Holder' = None
         \/ Holder = None /\ Holder' = Player
<1>1. CASE core' = "outside"
  <2>1. suspend_requested = 0
    BY <1>1, CounterPositive DEF Inductive, Iterate, KeepProcessing
  <2>2. exclusive_lock = None
    BY <2>1, InductiveLock DEF Inductive, TypeOK, ExclusiveLockInvariant, LockOwners
  <2>q. QED
    BY <1>1, <2>2 DEF Holder, Processing
<1>2. CASE core' # "outside"
  BY <1>2, FreeOutside DEF Holder, Processing, Iterate
<1>q. QED
  BY <1>1, <1>2

(* Every step of the queue is a step of CoreAccess, or none.               *)
LEMMA StepRefines ==
  ASSUME Inductive, [Next]_vars
  PROVE  [Access!Next]_Holder
<1> USE DEF Access!Next, Access!Release, Access!Acquire, Access!Users
<1>1. CASE UNCHANGED <<core, exclusive_lock>>
  BY <1>1 DEF Holder, Processing
<1>2. ASSUME NEW t \in Threads, LockAcquire(t)
      PROVE  Access!Acquire
  <2>1. HasSuspended(t)
    BY <1>2 DEF Inductive, TypeOK, CallState, HasSuspended, SuspendPending, LockAcquire
  <2>2. Processing /\ Processing'
    BY <1>2, <2>1 DEF Inductive, CoreStopped, Processing, LockAcquire
  <2>q. QED
    BY <1>2, <2>2 DEF Holder, LockAcquire
<1>3. ASSUME NEW t \in Threads, mp_dispatch_unlock(t)
      PROVE  Access!Release
  <2>1. InLockedSection(t)
    BY <1>3 DEF Inductive, CallState, InLockedSection, mp_dispatch_unlock
  <2>2. exclusive_lock = t /\ Processing
    BY <2>1, InductiveLock, ConstantsAssumption
    DEF ConstantsAssumption, Inductive, LockOwners, ExclusiveLockInvariant
  <2>q. QED
    BY <1>3, <2>2 DEF Holder, Processing, mp_dispatch_unlock
<1>4. CASE CoreReady
  BY <1>4 DEF Holder, Processing, CoreReady, CoreWakeup, CoreTimeout
<1>5. ASSUME NEW timed \in BOOLEAN, NEW sleepers, Iterate(timed, sleepers),
             UNCHANGED exclusive_lock, core \notin {"in_fn", "outside"}
      PROVE  [Access!Next]_Holder
  BY <1>5, IterateHolder DEF Holder
<1>6. CASE ProcessEnter
  BY <1>5, <1>6 DEF ProcessEnter
<1>7. CASE ProcessRun
  BY <1>7 DEF Holder, Processing, ProcessRun, CanRun
<1>8. CASE ProcessFnDone
  <2>1. exclusive_lock = Core /\ core = "in_fn"
    BY <1>8 DEF ProcessFnDone, Inductive, LockOwners
  <2>q. QED
    BY <1>8, <2>1 DEF Holder, Processing, ProcessFnDone
<1>9. CASE ProcessFinish
  BY <1>5, <1>9 DEF ProcessFinish
<1>10. CASE ProcessWoken
  BY <1>5, <1>10 DEF ProcessWoken
<1>11. CASE \E t \in Threads : ThreadCall(t) \/ ThreadStep(t)
  BY <1>1, <1>2, <1>3, <1>11
  DEF ThreadCall, ThreadStep, mp_dispatch_enqueue, mp_dispatch_run, mp_dispatch_suspend,
      mp_dispatch_lock, SuspendBegin, wakeup_fn, RunWait, SuspendCheck, mp_dispatch_resume
<1>12. CASE (\E p \in Threads \cup {Core} : SpuriousWakeup(p)) \/ UNCHANGED vars
  BY <1>1, <1>12 DEF SpuriousWakeup, vars
<1>q. QED
  BY <1>4, <1>6, <1>7, <1>8, <1>9, <1>10, <1>11, <1>12 DEF Next, ProcessStep

(* The dispatch queue is the mutual exclusion it is used for: its steps    *)
(* hand the core's state from one holder to the next through nobody.       *)
THEOREM DispatchImplementsCoreAccess == Spec => ImplementsCoreAccess
<1>1. Init => Holder = Player
  BY DEF Init, Holder, Processing
<1>2. Inductive /\ [Next]_vars => [Access!Next]_Holder
  BY StepRefines
<1>q. QED
  BY <1>1, <1>2, InvariantHolds, PTL
  DEF Spec, ImplementsCoreAccess, Access!Spec, Access!Init, Holder

(* What is in the queue after an append.                                   *)
LEMMA AppendedQueue ==
  ASSUME TypeOK, NEW t \in Threads, NEW k \in {"async", "sync"}, mp_dispatch_append(t, k)
  PROVE  /\ Request(t, k) \in Requests
         /\ issued[t] \in Nat /\ issued'[t] = issued[t] + 1
         /\ \A u \in Threads : u # t => issued'[u] = issued[u]
         /\ DOMAIN queue' = 1 .. Len(queue) + 1 /\ Len(queue) \in Nat
         /\ DOMAIN queue = 1 .. Len(queue)
         /\ \A i \in DOMAIN queue : queue'[i] = queue[i] /\ queue[i] \in Requests
         /\ queue'[Len(queue) + 1] = Request(t, k)
<1>0. CallsOf[t] \in 0..MaxRequests /\ MaxRequests \in Nat
  BY ConstantsAssumption DEF ConstantsAssumption
<1>1. issued[t] + 1 \in 1..MaxRequests /\ issued[t] \in Nat
  BY <1>0 DEF TypeOK, mp_dispatch_append
<1>2. Request(t, k) \in Requests
  BY <1>1 DEF Request, Requests
<1>q. QED
  BY <1>1, <1>2, AppendProperties, LenProperties, ElementOfSeq
  DEF TypeOK, mp_dispatch_append, InsertAtTail

(* What is in the queue after its head was taken.                          *)
LEMMA TakenQueue ==
  ASSUME TypeOK, queue # <<>>
  PROVE  /\ Head(queue) = queue[1] /\ queue[1] \in Requests
         /\ DOMAIN queue = 1 .. Len(queue) /\ Len(queue) \in Nat \ {0}
         /\ DOMAIN Tail(queue) = 1 .. Len(queue) - 1
         /\ \A i \in DOMAIN Tail(queue) : Tail(queue)[i] = queue[i + 1]
BY HeadTailProperties, EmptySeq, LenProperties, ElementOfSeq DEF TypeOK

LEMMA ItemFields ==
  ASSUME NEW i \in Requests
  PROVE  /\ i.from \in Threads /\ i.nr \in Nat
         /\ i = [from |-> i.from, nr |-> i.nr, kind |-> i.kind]
BY ConstantsAssumption DEF ConstantsAssumption, Requests

(* A new request is the youngest of its thread.                            *)
LEMMA AppendItems ==
  ASSUME InductiveItems, NEW t \in Threads, NEW k \in {"async", "sync"},
         mp_dispatch_append(t, k), UNCHANGED <<core, current, ran>>,
         pc[t] \notin {"run_queued", "run_wait"},
         \A u \in Threads : u # t => pc'[u] = pc[u] /\ completed'[u] = completed[u],
         k = "sync" => pc'[t] = "run_queued" /\ ~completed'[t],
         k = "async" => pc'[t] \notin {"run_queued", "run_wait"}
  PROVE  ItemsInOrder' /\ RanBefore'
<1> USE DEF InductiveItems
<1> TypeOK
  BY DEF Inductive
<1> PICK new \in Requests : new = Request(t, k)
  BY AppendedQueue
<1>0. \A r \in Requests : r.from \in Threads /\ r.nr \in Nat /\ issued[r.from] \in Nat
                             /\ issued'[r.from] \in {issued[r.from], issued[r.from] + 1}
  <2> TAKE r \in Requests
  <2>1. r.from \in Threads /\ r.nr \in Nat
    BY ItemFields
  <2>2. issued[r.from] \in Nat
    BY <2>1, ConstantsAssumption DEF ConstantsAssumption, TypeOK
  <2>q. QED
    BY <2>1, <2>2, AppendedQueue
<1>1. new.from = t /\ new.kind = k /\ new.nr = issued[t] + 1
  BY DEF Request
<1>2. ItemPending(new)'
  BY <1>1, AppendedQueue DEF ItemPending
<1>3. ASSUME NEW i \in Requests, ItemPending(i)
      PROVE  ItemPending(i)' /\ OlderThan(i, new)
  BY <1>1, <1>3, AppendedQueue, ItemFields DEF ItemPending, OlderThan
<1>4. \A i \in DOMAIN queue' : ItemPending(queue[i])'
  BY <1>2, <1>3, AppendedQueue DEF ItemsInOrder
<1>5. \A i, j \in DOMAIN queue' : i < j => OlderThan(queue'[i], queue'[j])
  BY <1>3, AppendedQueue DEF ItemsInOrder
<1>6. InWork' => /\ ItemPending(current)'
                 /\ \A i \in DOMAIN queue' : OlderThan(current, queue'[i])
  <2> HAVE InWork'
  <2>1. current \in Requests /\ current' = current /\ InWork
    BY DEF InWork, TypeOK
  <2>2. ItemPending(current) /\ \A i \in DOMAIN queue : OlderThan(current, queue[i])
    BY <2>1 DEF ItemsInOrder
  <2>3. ItemPending(current)' /\ OlderThan(current, new)
    BY <2>1, <2>2, <1>3 DEF ItemPending
  <2>q. QED
    BY <2>2, <2>3, AppendedQueue
<1>7. ItemsInOrder'
  BY <1>4, <1>5, <1>6 DEF ItemsInOrder, OlderThan, InWork
<1>8. \A r \in ran' : r.nr <= issued'[r.from]
  <2> SUFFICES ASSUME NEW r \in ran PROVE r.nr <= issued'[r.from]
    OBVIOUS
  <2>1. r \in Requests /\ r.nr <= issued[r.from]
    BY DEF RanBefore, TypeOK
  <2>q. QED
    BY <2>1, <1>0
<1>9. QueueOrder'
  <2> SUFFICES ASSUME NEW r \in ran, NEW i \in DOMAIN queue',
                      r.from = queue'[i].from, r.kind # "lock"
               PROVE  r.nr < queue'[i].nr
    BY DEF QueueOrder
  <2>1. CASE i \in DOMAIN queue
    BY <2>1, AppendedQueue DEF RanBefore, QueueOrder
  <2>2. CASE i = Len(queue) + 1
    BY <2>2, <1>0, <1>1, AppendedQueue DEF RanBefore, TypeOK
  <2>q. QED
    BY <2>1, <2>2, AppendedQueue
<1>10. RanBefore'
  BY <1>8, <1>9, AppendedQueue DEF RanBefore, QueueOrder, TypeOK
<1>q. QED
  BY <1>7, <1>10

(* A step that leaves queue and requests alone, and makes no thread wait   *)
(* that did not, or be done that was not, keeps them.                      *)
LEMMA ItemsUnchanged ==
  ASSUME InductiveItems, UNCHANGED <<queue, current, issued, completed>>,
         core' = core \/ (~InWork /\ ~InWork'),
         \A t \in Threads :
           \/ pc'[t] = pc[t]
           \/ {pc[t], pc'[t]} \subseteq {"run_queued", "run_wait"}
           \/ {pc[t], pc'[t]} \cap {"run_queued", "run_wait"} = {}
           \/ pc[t] = "run_wait" /\ completed[t],
         \/ ran' = ran
         \/ \E t \in Threads : ran' = ran \cup {[from |-> t, nr |-> issued[t], kind |-> "lock"]}
  PROVE  ItemsInOrder' /\ RanBefore'
<1> USE DEF InductiveItems
<1> TypeOK
  BY DEF Inductive
<1>1. ASSUME NEW i \in Requests, ItemPending(i)
      PROVE  ItemPending(i)'
  BY <1>1, ItemFields DEF ItemPending
<1>2. \A i \in DOMAIN queue : queue[i] \in Requests
  BY LenProperties, ElementOfSeq DEF TypeOK
<1>3. ItemsInOrder'
  BY <1>1, <1>2 DEF ItemsInOrder, InWork, OlderThan, TypeOK
<1>4. \A r \in ran' : r.nr <= issued'[r.from]
  BY DEF RanBefore, TypeOK
<1>5. QueueOrder'
  BY DEF RanBefore, QueueOrder
<1>q. QED
  BY <1>3, <1>4, <1>5 DEF RanBefore, InWork

(* The next item leaves the queue from its head, so that it precedes what  *)
(* stays; 'completed' may have changed for a thread without a queued item. *)
LEMMA IterateItems ==
  ASSUME InductiveItems, NEW timed \in BOOLEAN, NEW sleepers, Iterate(timed, sleepers),
         UNCHANGED <<pc, issued, ran>>,
         \A i \in Requests, n \in DOMAIN queue : i = queue[n] => ItemPending(i)',
         \A t \in Threads : completed'[t] # completed[t] =>
            [from |-> t, nr |-> issued[t], kind |-> "sync"] \in ran
  PROVE  ItemsInOrder' /\ RanBefore'
<1> USE DEF InductiveItems
<1> TypeOK
  BY DEF Inductive
<1>1. core' \notin {"in_fn", "fn_done"}
  BY DEF Iterate
<1>2. \A t \in Threads : pc'[t] \in {"run_queued", "run_wait"} /\ completed'[t] =>
        [from |-> t, nr |-> issued'[t], kind |-> "sync"] \in ran'
  BY DEF RanBefore
<1>3. CASE queue # <<>>
  <2>1. current' = queue[1] /\ queue' = Tail(queue)
    BY <1>3, TakenQueue DEF Iterate
  <2>2. ItemsInOrder'
    <3>1. ItemPending(current)'
      <4> PICK i \in Requests : i = queue[1]
        BY <1>3, TakenQueue
      <4>q. QED
        BY <1>3, <2>1, TakenQueue DEF ItemPending
    <3>2. \A n \in DOMAIN queue' : ItemPending(queue[n])'
      <4> SUFFICES ASSUME NEW n \in DOMAIN queue' PROVE ItemPending(queue[n])'
        OBVIOUS
      <4>1. n + 1 \in DOMAIN queue /\ queue'[n] = queue[n + 1]
        BY <1>3, <2>1, TakenQueue
      <4> PICK i \in Requests : i = queue[n + 1]
        BY <4>1, ElementOfSeq, LenProperties DEF TypeOK
      <4>q. QED
        BY <4>1 DEF ItemPending
    <3>3. \A i, j \in DOMAIN queue' : i < j => OlderThan(queue'[i], queue'[j])
      BY <1>3, <2>1, TakenQueue DEF ItemsInOrder
    <3>4. \A i \in DOMAIN queue' : OlderThan(current', queue'[i])
      BY <1>3, <2>1, TakenQueue DEF ItemsInOrder
    <3>q. QED
      BY <3>1, <3>2, <3>3, <3>4 DEF ItemsInOrder, OlderThan
  <2>3. QueueOrder'
    BY <1>3, <2>1, TakenQueue DEF RanBefore, QueueOrder
  <2>q. QED
    BY <1>1, <1>2, <2>2, <2>3 DEF RanBefore
<1>4. CASE queue = <<>>
  <2>1. DOMAIN queue' = {} /\ ~InWork'
    BY <1>4 DEF Iterate, InWork
  <2>q. QED
    BY <1>1, <1>2, <2>1 DEF RanBefore, QueueOrder, ItemsInOrder
<1>q. QED
  BY <1>3, <1>4

(* The completion of a stack item: no later item of its thread is queued,  *)
(* since the thread waits.                                                 *)
LEMMA FinishItems ==
  ASSUME InductiveItems, ProcessFinish
  PROVE  ItemsInOrder' /\ RanBefore'
<1> USE DEF InductiveItems
<1> TypeOK
  BY DEF Inductive
<1>1. current \in Requests /\ InWork /\ current \in ran
  BY DEF ProcessFinish, InWork, TypeOK, RanBefore
<1>2. CASE current.kind = "async"
  <2>1. Iterate(FALSE, cond) /\ UNCHANGED <<completed, pc, issued, ran>>
    BY <1>2 DEF ProcessFinish
  <2>2. \A i \in Requests, n \in DOMAIN queue : i = queue[n] => ItemPending(i)'
    BY <2>1 DEF ItemsInOrder, ItemPending
  <2>q. QED
    BY <2>1, <2>2, IterateItems
<1>3. CASE current.kind = "sync"
  <2>1. /\ Iterate(FALSE, CompletionSleepers)
        /\ completed' = [completed EXCEPT ![current.from] = TRUE]
        /\ UNCHANGED <<pc, issued, ran>>
    BY <1>3 DEF ProcessFinish
  <2>2. ItemPending(current) /\ \A i \in DOMAIN queue : OlderThan(current, queue[i])
    BY <1>1 DEF ItemsInOrder
  <2>3. current.nr = issued[current.from]
    BY <1>3, <2>2 DEF ItemPending
  <2>4. ASSUME NEW i \in Requests, NEW n \in DOMAIN queue, i = queue[n]
        PROVE  ItemPending(i)'
    <3>1. ItemPending(i) /\ OlderThan(current, i)
      BY <2>2, <2>4 DEF ItemsInOrder
    <3>2. i.from = current.from => i.kind # "sync"
      BY <1>1, <2>3, <3>1, ItemFields, ConstantsAssumption
      DEF ConstantsAssumption, TypeOK, ItemPending, OlderThan
    <3>q. QED
      BY <1>1, <2>1, <3>1, <3>2, ItemFields DEF ItemPending, TypeOK
  <2>5. \A t \in Threads : completed'[t] # completed[t] =>
           [from |-> t, nr |-> issued[t], kind |-> "sync"] \in ran
    BY <1>1, <1>3, <2>1, <2>3, ItemFields DEF TypeOK
  <2>q. QED
    BY <2>1, <2>4, <2>5, IterateItems
<1>q. QED
  BY <1>2, <1>3 DEF ProcessFinish

(* Taking an item without completing one before it.                        *)
LEMMA TakeItems ==
  ASSUME InductiveItems, ProcessEnter \/ ProcessWoken
  PROVE  ItemsInOrder' /\ RanBefore'
<1>1. \A i \in Requests, n \in DOMAIN queue : i = queue[n] => ItemPending(i)'
  BY DEF InductiveItems, ItemsInOrder, ItemPending, ProcessEnter, ProcessWoken
<1>2. UNCHANGED <<completed, pc, issued, ran>>
  BY DEF ProcessEnter, ProcessWoken
<1>3. \E timed \in BOOLEAN, sleepers \in {{}, cond \ {Core}} : Iterate(timed, sleepers)
  BY DEF ProcessEnter, ProcessWoken
<1>q. QED
  BY <1>1, <1>2, <1>3, IterateItems

(* The callback of the item in work gets its access: no younger item of    *)
(* its thread has had it.                                                  *)
LEMMA RunItems ==
  ASSUME InductiveItems, ProcessRun
  PROVE  ItemsInOrder' /\ RanBefore'
<1> USE DEF InductiveItems
<1>1. InWork /\ InWork' /\ current \in Requests
  BY DEF ProcessRun, InWork, Inductive, TypeOK
<1>2. ItemPending(current) /\ \A i \in DOMAIN queue : OlderThan(current, queue[i])
  BY <1>1 DEF ItemsInOrder
<1>3. ItemsInOrder'
  BY <1>1 DEF ProcessRun, ItemsInOrder, ItemPending
<1>4. \A r \in ran' : r.nr <= issued'[r.from]
  BY <1>2 DEF ProcessRun, RanBefore, ItemPending
<1>5. QueueOrder'
  BY <1>2 DEF ProcessRun, RanBefore, QueueOrder, OlderThan
<1>q. QED
  BY <1>3, <1>4, <1>5 DEF ProcessRun, RanBefore

(* The invariant of the items at the start.                                *)
LEMMA InitItems ==
  ASSUME Init
  PROVE  InductiveItems
<1>1. ItemsInOrder
  BY DEF Init, ItemsInOrder, InWork
<1>2. RanBefore
  BY DEF Init, RanBefore, QueueOrder
<1>q. QED
  BY <1>1, <1>2, InitInductive DEF InductiveItems

(* A request of dispatch_lock is numbered but not queued.                  *)
LEMMA LockItems ==
  ASSUME InductiveItems, NEW t \in Threads, mp_dispatch_lock(t)
  PROVE  ItemsInOrder' /\ RanBefore'
<1> USE DEF InductiveItems
<1> TypeOK
  BY DEF Inductive
<1>1. /\ UNCHANGED <<queue, current, completed, core, ran>>
      /\ issued' = [issued EXCEPT ![t] = @ + 1]
      /\ pc[t] = "idle" /\ pc'[t] \notin {"run_queued", "run_wait"}
      /\ \A u \in Threads : u # t => pc'[u] = pc[u]
  BY DEF mp_dispatch_lock, SuspendBegin, AfterSuspend, Goto, TypeOK
<1>2. \A u \in Threads : issued[u] \in Nat /\ issued'[u] \in {issued[u], issued[u] + 1}
                         /\ (u # t => issued'[u] = issued[u])
  BY <1>1, ConstantsAssumption DEF ConstantsAssumption, TypeOK
<1>3. ASSUME NEW i \in Requests, ItemPending(i)
      PROVE  ItemPending(i)'
  BY <1>1, <1>2, <1>3, ItemFields DEF ItemPending
<1>4. ItemsInOrder'
  <2>1. \A n \in DOMAIN queue : queue[n] \in Requests
    BY LenProperties, ElementOfSeq DEF TypeOK
  <2>q. QED
    BY <1>1, <1>3, <2>1 DEF ItemsInOrder, InWork, OlderThan, TypeOK
<1>5. \A r \in ran' : r.nr <= issued'[r.from]
  <2> SUFFICES ASSUME NEW r \in ran PROVE r.nr <= issued'[r.from]
    BY <1>1
  <2>1. r.from \in Threads /\ r.nr \in Nat /\ r.nr <= issued[r.from]
    BY ItemFields DEF RanBefore, TypeOK
  <2>q. QED
    BY <1>2, <2>1
<1>6. QueueOrder'
  BY <1>1 DEF RanBefore, QueueOrder
<1>q. QED
  BY <1>1, <1>2, <1>4, <1>5, <1>6 DEF RanBefore

(* The steps of a thread's call.                                           *)
LEMMA ThreadItems ==
  ASSUME InductiveItems, NEW t \in Threads, ThreadCall(t) \/ ThreadStep(t)
  PROVE  ItemsInOrder' /\ RanBefore'
<1> USE DEF Goto
<1> TypeOK
  BY DEF InductiveItems, Inductive
<1>1. CASE mp_dispatch_enqueue(t)
  <2>1. \A u \in Threads : u # t => pc'[u] = pc[u] /\ completed'[u] = completed[u]
    BY <1>1 DEF mp_dispatch_enqueue, TypeOK
  <2>q. QED
    BY <1>1, <2>1, AppendItems DEF mp_dispatch_enqueue, TypeOK
<1>2. CASE mp_dispatch_run(t)
  <2>1. \A u \in Threads : u # t => pc'[u] = pc[u] /\ completed'[u] = completed[u]
    BY <1>2 DEF mp_dispatch_run, FreshItem, TypeOK
  <2>q. QED
    BY <1>2, <2>1, AppendItems DEF mp_dispatch_run, FreshItem, TypeOK
<1>3. CASE mp_dispatch_suspend(t)
  BY <1>3, ItemsUnchanged DEF mp_dispatch_suspend, SuspendBegin, AfterSuspend, TypeOK
<1>4. CASE mp_dispatch_lock(t)
  BY <1>4, LockItems
<1>5. CASE wakeup_fn(t)
  BY <1>5, ItemsUnchanged DEF wakeup_fn, TypeOK
<1>6. CASE RunWait(t)
  BY <1>6, ItemsUnchanged DEF RunWait, TypeOK
<1>7. CASE SuspendCheck(t)
  BY <1>7, ItemsUnchanged DEF SuspendCheck, AfterSuspend, TypeOK
<1>8. CASE LockAcquire(t)
  BY <1>8, ItemsUnchanged DEF LockAcquire, TypeOK
<1>9. CASE mp_dispatch_unlock(t)
  BY <1>9, ItemsUnchanged DEF mp_dispatch_unlock, TypeOK
<1>10. CASE mp_dispatch_resume(t)
  BY <1>10, ItemsUnchanged DEF mp_dispatch_resume, MayResume, TypeOK
<1>q. QED
  BY <1>1, <1>2, <1>3, <1>4, <1>5, <1>6, <1>7, <1>8, <1>9, <1>10 DEF ThreadCall, ThreadStep

LEMMA NextItems ==
  ASSUME InductiveItems, [Next]_vars
  PROVE  InductiveItems'
<1> SUFFICES ItemsInOrder' /\ RanBefore'
  BY NextInductive DEF InductiveItems
<1>1. CASE \E t \in Threads : ThreadCall(t) \/ ThreadStep(t)
  BY <1>1, ThreadItems
<1>2. CASE CoreReady
  BY <1>2, ItemsUnchanged DEF CoreReady, CoreWakeup, CoreTimeout, InWork
<1>3. CASE ProcessStep
  <2>1. CASE ProcessFnDone
    <3>1. InWork /\ InWork' /\ UNCHANGED <<queue, current, completed, pc, issued, ran>>
      BY <2>1 DEF ProcessFnDone, FnDoneCompleted, InWork
    <3>2. ItemsInOrder'
      BY <3>1 DEF InductiveItems, ItemsInOrder, ItemPending
    <3>3. core = "in_fn"
      BY <2>1 DEF ProcessFnDone
    <3>q. QED
      BY <3>1, <3>2, <3>3 DEF InductiveItems, RanBefore, QueueOrder
  <2>q. QED
    BY <1>3, <2>1, TakeItems, RunItems, FinishItems DEF ProcessStep
<1>4. CASE (\E p \in Threads \cup {Core} : SpuriousWakeup(p)) \/ UNCHANGED vars
  BY <1>4, ItemsUnchanged DEF SpuriousWakeup, vars
<1>q. QED
  BY <1>1, <1>2, <1>3, <1>4 DEF Next

(* A stack item in the core's hands still has its owner waiting, a return  *)
(* of mp_dispatch_run follows its callback, and callbacks of a thread keep *)
(* the order of its calls.                                                 *)
THEOREM StackItemsHold == Spec => []StackItems
<1>1. InductiveItems => StackItems
  <2> SUFFICES ASSUME InductiveItems PROVE StackItems
    OBVIOUS
  <2>1. StackItemLive
    BY DEF InductiveItems, ItemsInOrder, ItemPending, InWork, StackItemLive, Unfinished
  <2>q. QED
    BY <2>1 DEF InductiveItems, RanBefore, StackItems, RunReturnsAfterFn
<1>2. Spec => []InductiveItems
  BY InitItems, NextItems, PTL DEF Spec
<1>q. QED
  BY <1>1, <1>2, PTL
=============================================================================
