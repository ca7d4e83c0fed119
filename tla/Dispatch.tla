------------------------------ MODULE Dispatch ------------------------------
(***************************************************************************)
(* The dispatch queue of misc/dispatch.c: client threads hand callbacks to *)
(* a target thread (the playback core), or stop it and enter its state     *)
(* themselves.                                                             *)
(*                                                                         *)
(* Granularity.  queue->lock is never held across a blocking call other    *)
(* than the condition wait, and every field below but exclusive_lock is    *)
(* read and written under it, so each region between taking and releasing  *)
(* the lock is one action.  What happens outside of the lock (wakeup_fn,   *)
(* taking exclusive_lock, running a callback) is an action of its own.     *)
(***************************************************************************)
EXTENDS Integers, Sequences, FiniteSets

CONSTANTS
  Threads,      \* the threads that use the queue
  Core,         \* the target thread, which calls mp_dispatch_queue_process
  None,         \* nobody: the owner of a free mutex
  Player,       \* stands for the core running its own code
  MaxDepth,     \* bound: mp_dispatch_suspend calls one thread may have open
  MaxRequests,  \* bound: calls any thread makes that queue, run or lock
  CallsOf       \* bound: how many of these each thread makes

ASSUME ConstantsAssumption ==
  /\ Core \notin Threads
  /\ None \notin Threads \cup {Core}
  /\ Player \notin Threads \cup {Core, None}
  /\ IsFiniteSet(Threads)
  /\ MaxDepth \in Nat \ {0}
  /\ MaxRequests \in Nat
  /\ CallsOf \in [Threads -> 0..MaxRequests]

VARIABLES
  queue,              \* the items from head to tail
  suspend_requested,  \* threads that want the core to stay in process()
  suspended,          \* the core is inside mp_dispatch_queue_process
  exclusive_lock,     \* owner of the mutex over the core's state
  cond,               \* who sleeps on queue->cond
  completed,          \* item.completed of the item on each thread's stack
  wakeup,             \* the semaphore wakeup_fn posts (input.c)
  core,               \* where the core is
  current,            \* the item the core took off the queue
  pc,                 \* where each thread is
  locking,            \* the thread's suspend call is part of dispatch_lock
  depth,              \* suspend calls each thread has made and not undone
  issued,             \* requests each thread has made (numbers them)
  ran                 \* history: the requests that had access to the core

vars == <<queue, suspend_requested, suspended, exclusive_lock, cond, completed,
          wakeup, core, current, pc, locking, depth, issued, ran>>

Requests == [from : Threads, nr : 1..MaxRequests, kind : {"async", "sync", "lock"}]

Request(t, k) == [from |-> t, nr |-> issued[t] + 1, kind |-> k]

(* Where a thread is: in a call of the API, or in its own code ("idle"     *)
(* outside of dispatch_lock, "locked" between lock and unlock).            *)
ThreadStates == {"idle", "enqueued", "run_queued", "run_wait", "suspend_wakeup",
                 "suspend_check", "suspend_wait", "lock", "locked", "resume"}

(* The core runs the player ("outside", which covers the sleep in          *)
(* mp_input_wait), is about to call process ("ready"), or is inside it.    *)
CoreStates == {"outside", "ready", "took_item", "in_fn", "fn_done", "wait", "timedwait"}

Processing == core \notin {"outside", "ready"}

SuspendPending(t) == pc[t] \in {"suspend_wakeup", "suspend_check", "suspend_wait"}

Init ==
  /\ queue = <<>>
  /\ suspend_requested = 0
  /\ suspended = FALSE
  /\ exclusive_lock = None
  /\ cond = {}
  /\ completed = [t \in Threads |-> FALSE]
  /\ wakeup = FALSE
  /\ core = "outside"
  /\ current = None
  /\ pc = [t \in Threads |-> "idle"]
  /\ locking = [t \in Threads |-> FALSE]
  /\ depth = [t \in Threads |-> 0]
  /\ issued = [t \in Threads |-> 0]
  /\ ran = {}

Broadcast == cond' = {}

Goto(t, state) == pc' = [pc EXCEPT ![t] = state]

(***************************************************************************)
(* Client threads                                                          *)
(***************************************************************************)

InsertAtHead(item) == <<item>> \o queue

InsertAtTail(item) == Append(queue, item)

mp_dispatch_append(t, k) ==
  /\ issued[t] < CallsOf[t]
  /\ queue' = InsertAtTail(Request(t, k))
  /\ issued' = [issued EXCEPT ![t] = @ + 1]
  /\ Broadcast

StaleItem(t) == completed

(* The item that mp_dispatch_run initialises on its stack.                 *)
FreshItem(t) == [completed EXCEPT ![t] = FALSE]

(* Also legal between dispatch_lock and dispatch_unlock.                   *)
mp_dispatch_enqueue(t) ==
  /\ pc[t] \in {"idle", "locked"}
  /\ mp_dispatch_append(t, "async")
  /\ Goto(t, "enqueued")
  /\ UNCHANGED <<suspend_requested, suspended, exclusive_lock, completed, wakeup,
                 core, current, locking, depth, ran>>

mp_dispatch_run(t) ==
  /\ pc[t] = "idle"
  /\ mp_dispatch_append(t, "sync")
  /\ completed' = FreshItem(t)
  /\ Goto(t, "run_queued")
  /\ UNCHANGED <<suspend_requested, suspended, exclusive_lock, wakeup, core,
                 current, locking, depth, ran>>

(* The call of wakeup_fn that ends append and precedes a suspend's wait.   *)
SilentWakeup(t) == wakeup' = (wakeup \/ pc[t] = "suspend_wakeup")

PostWakeup(t) == wakeup' = TRUE

wakeup_fn(t) ==
  /\ \/ pc[t] = "enqueued" /\ Goto(t, IF locking[t] THEN "locked" ELSE "idle")
     \/ pc[t] = "run_queued" /\ Goto(t, "run_wait")
     \/ pc[t] = "suspend_wakeup" /\ Goto(t, "suspend_check")
  /\ PostWakeup(t)
  /\ UNCHANGED <<queue, suspend_requested, suspended, exclusive_lock, cond, completed,
                 core, current, locking, depth, issued, ran>>

(* while (!item.completed) pthread_cond_wait(...)                          *)
RunWait(t) ==
  /\ pc[t] = "run_wait"
  /\ t \notin cond
  /\ \/ completed[t] /\ Goto(t, "idle") /\ UNCHANGED cond
     \/ ~completed[t] /\ cond' = cond \cup {t} /\ UNCHANGED pc
  /\ UNCHANGED <<queue, suspend_requested, suspended, exclusive_lock, completed, wakeup,
                 core, current, locking, depth, issued, ran>>

(* What follows the return of mp_dispatch_suspend.                         *)
AfterSuspend(forLock) == IF forLock THEN "lock" ELSE "idle"

(* The first lock region of a suspend; for dispatch_lock and for a plain   *)
(* suspend, which differ in what the thread does next.                     *)
SuspendBegin(t, forLock) ==
  /\ pc[t] = "idle"
  /\ depth[t] < MaxDepth
  /\ suspend_requested' = suspend_requested + 1
  /\ depth' = [depth EXCEPT ![t] = @ + 1]
  /\ locking' = [locking EXCEPT ![t] = forLock]
  /\ Goto(t, IF suspended THEN AfterSuspend(forLock) ELSE "suspend_wakeup")
  /\ UNCHANGED <<queue, suspended, exclusive_lock, cond, completed, wakeup, core, current, ran>>

mp_dispatch_suspend(t) == SuspendBegin(t, FALSE) /\ UNCHANGED issued

mp_dispatch_lock(t) ==
  /\ issued[t] < CallsOf[t]
  /\ SuspendBegin(t, TRUE)
  /\ issued' = [issued EXCEPT ![t] = @ + 1]

(* The lock regions of the while loop: after the call of wakeup_fn, and    *)
(* after a wakeup from the wait, which tests the condition again.          *)
SuspendCheck(t) ==
  /\ \/ pc[t] = "suspend_check"
     \/ pc[t] = "suspend_wait" /\ t \notin cond
  /\ \/ suspended /\ Goto(t, AfterSuspend(locking[t])) /\ UNCHANGED cond
     \/ ~suspended /\ pc[t] = "suspend_check" /\ cond' = cond \cup {t} /\ Goto(t, "suspend_wait")
     \/ ~suspended /\ pc[t] = "suspend_wait" /\ Goto(t, "suspend_wakeup") /\ UNCHANGED cond
  /\ UNCHANGED <<queue, suspend_requested, suspended, exclusive_lock, completed, wakeup,
                 core, current, locking, depth, issued, ran>>

(* pthread_mutex_lock(&queue->exclusive_lock) in mp_dispatch_lock.  The    *)
(* call's access to the core's state starts here.                          *)
LockAcquire(t) ==
  /\ pc[t] = "lock"
  /\ exclusive_lock = None
  /\ exclusive_lock' = t
  /\ ran' = ran \cup {[from |-> t, nr |-> issued[t], kind |-> "lock"]}
  /\ Goto(t, "locked")
  /\ UNCHANGED <<queue, suspend_requested, suspended, cond, completed, wakeup,
                 core, current, locking, depth, issued>>

mp_dispatch_unlock(t) ==
  /\ pc[t] = "locked"
  /\ exclusive_lock' = None
  /\ Goto(t, "resume")
  /\ UNCHANGED <<queue, suspend_requested, suspended, cond, completed, wakeup,
                 core, current, locking, depth, issued, ran>>

ResumeNoSignal == cond

ResumeSleepers == IF suspend_requested' = 0 THEN {} ELSE cond

MayResumeTwice(t) == pc[t] \in {"resume", "idle"}

(* A resume ends dispatch_unlock, or undoes a plain mp_dispatch_suspend.   *)
MayResume(t) == pc[t] = "resume" \/ (pc[t] = "idle" /\ depth[t] > 0)

mp_dispatch_resume(t) ==
  /\ MayResume(t)
  /\ suspend_requested' = suspend_requested - 1
  /\ cond' = ResumeSleepers
  /\ depth' = [depth EXCEPT ![t] = @ - 1]
  /\ locking' = [locking EXCEPT ![t] = FALSE]
  /\ Goto(t, "idle")
  /\ UNCHANGED <<queue, suspended, exclusive_lock, completed, wakeup, core, current, issued, ran>>

(***************************************************************************)
(* The target thread                                                       *)
(***************************************************************************)

(* mp_input_wait returns: the semaphore was posted since the last call, or *)
(* the time-out passed.                                                    *)
CoreWakeup == core = "outside" /\ wakeup /\ wakeup' = FALSE
CoreTimeout == core = "outside" /\ ~wakeup /\ UNCHANGED wakeup

CoreReady ==
  /\ CoreWakeup \/ CoreTimeout
  /\ core' = "ready"
  /\ UNCHANGED <<queue, suspend_requested, suspended, exclusive_lock, cond, completed,
                 current, pc, locking, depth, issued, ran>>

(* What keeps mp_dispatch_queue_process in its loop once the queue is      *)
(* empty; 'timed' is wait > 0.                                             *)
StayForTimeout(timed) == timed

StayForNested(timed) == timed \/ suspend_requested > 1

KeepProcessing(timed) == timed \/ suspend_requested > 0

(* One test of the loop condition of mp_dispatch_queue_process and what    *)
(* follows it up to the release of queue->lock: take the head, sleep, or   *)
(* return.  'sleepers' is who else sleeps on cond.                         *)
Iterate(timed, sleepers) ==
  \/ /\ queue # <<>>
     /\ current' = Head(queue)
     /\ queue' = Tail(queue)
     /\ core' = "took_item"
     /\ suspended' = TRUE
     /\ cond' = sleepers
  \/ /\ queue = <<>>
     /\ KeepProcessing(timed)
     /\ core' = IF timed THEN "timedwait" ELSE "wait"
     /\ suspended' = TRUE
     /\ cond' = sleepers \cup {Core}
     /\ current' = None
     /\ UNCHANGED queue
  \/ /\ queue = <<>>
     /\ ~KeepProcessing(timed)
     /\ core' = "outside"
     /\ suspended' = FALSE
     /\ cond' = sleepers
     /\ current' = None
     /\ UNCHANGED queue

(* mp_dispatch_queue_process(queue, 0) or with a time-out.                 *)
ProcessEnter ==
  /\ core = "ready"
  /\ \E timed \in BOOLEAN : Iterate(timed, {})
  /\ UNCHANGED <<suspend_requested, exclusive_lock, completed, wakeup, pc, locking,
                 depth, issued, ran>>

RunUnlocked == TRUE

CanRun == exclusive_lock = None

(* pthread_mutex_lock(&queue->exclusive_lock), then item->fn runs.         *)
ProcessRun ==
  /\ core = "took_item"
  /\ CanRun
  /\ exclusive_lock' = Core
  /\ ran' = ran \cup {current}
  /\ core' = "in_fn"
  /\ UNCHANGED <<queue, suspend_requested, suspended, cond, completed, wakeup, current,
                 pc, locking, depth, issued>>

FnDoneCompletes ==
  IF current.kind = "sync" THEN [completed EXCEPT ![current.from] = TRUE] ELSE completed

FnDoneCompleted == completed

(* item->fn returns and exclusive_lock is released.                        *)
ProcessFnDone ==
  /\ core = "in_fn"
  /\ exclusive_lock' = None
  /\ core' = "fn_done"
  /\ completed' = FnDoneCompleted
  /\ UNCHANGED <<queue, suspend_requested, suspended, cond, wakeup, current,
                 pc, locking, depth, issued, ran>>

CompletionNoSignal == cond

CompletionSleepers == {}

(* Back under queue->lock: the item is freed, or completed and its owner   *)
(* woken; then the next iteration, with wait = 0.                          *)
ProcessFinish ==
  /\ core = "fn_done"
  /\ \/ current.kind = "async" /\ UNCHANGED completed /\ Iterate(FALSE, cond)
     \/ /\ current.kind = "sync"
        /\ completed' = [completed EXCEPT ![current.from] = TRUE]
        /\ Iterate(FALSE, CompletionSleepers)
  /\ UNCHANGED <<suspend_requested, exclusive_lock, wakeup, pc, locking, depth, issued, ran>>

(* The condition wait of the core returns: signalled, or timed out.        *)
ProcessWoken ==
  /\ core \in {"wait", "timedwait"}
  /\ Core \notin cond \/ core = "timedwait"
  /\ Iterate(FALSE, cond \ {Core})
  /\ UNCHANGED <<suspend_requested, exclusive_lock, completed, wakeup, pc, locking,
                 depth, issued, ran>>

(* POSIX lets a condition wait return without a signal.                    *)
SpuriousWakeup(p) ==
  /\ p \in cond
  /\ cond' = cond \ {p}
  /\ UNCHANGED <<queue, suspend_requested, suspended, exclusive_lock, completed, wakeup,
                 core, current, pc, locking, depth, issued, ran>>

ThreadCall(t) ==
  \/ mp_dispatch_enqueue(t)
  \/ mp_dispatch_run(t)
  \/ mp_dispatch_suspend(t)
  \/ mp_dispatch_lock(t)

(* Steps inside of calls, and the calls that undo an earlier one.          *)
ThreadStep(t) ==
  \/ wakeup_fn(t)
  \/ RunWait(t)
  \/ SuspendCheck(t)
  \/ LockAcquire(t)
  \/ mp_dispatch_unlock(t)
  \/ mp_dispatch_resume(t)

ProcessStep ==
  \/ ProcessEnter
  \/ ProcessRun
  \/ ProcessFnDone
  \/ ProcessFinish
  \/ ProcessWoken

Next ==
  \/ \E t \in Threads : ThreadCall(t) \/ ThreadStep(t)
  \/ CoreReady
  \/ ProcessStep
  \/ \E p \in Threads \cup {Core} : SpuriousWakeup(p)

Spec == Init /\ [][Next]_vars

(***************************************************************************)
(* The scheduler runs every thread that can run, the player comes back to  *)
(* mp_input_wait, and clients unlock and resume what they have locked and  *)
(* suspended.  Nothing relies on a spurious wakeup or on the time-out of   *)
(* mp_input_wait, and no client has to call anything: the core may sleep   *)
(* until it is woken.                                                      *)
(***************************************************************************)
Fairness ==
  /\ \A t \in Threads : WF_vars(ThreadStep(t))
  /\ WF_vars(CoreReady /\ wakeup)
  /\ WF_vars(ProcessStep)

FairSpec == Spec /\ Fairness

(***************************************************************************)
(* Properties                                                              *)
(***************************************************************************)

(* Thread t has come back from mp_dispatch_suspend or mp_dispatch_lock and *)
(* has not undone it.                                                      *)
HasSuspended(t) == depth[t] > (IF SuspendPending(t) THEN 1 ELSE 0)

InLockedSection(t) == locking[t] /\ pc[t] \in {"locked", "enqueued"}

(* The items the core has yet to finish: the queue and the one in work.    *)
Unfinished ==
  {queue[i] : i \in DOMAIN queue}
    \cup (IF core \in {"took_item", "in_fn", "fn_done"} THEN {current} ELSE {})

(* The ranges of all fields.                                               *)
TypeOK ==
  /\ queue \in Seq(Requests)
  /\ suspend_requested \in Int
  /\ suspended \in BOOLEAN
  /\ exclusive_lock \in Threads \cup {Core, None}
  /\ cond \subseteq Threads \cup {Core}
  /\ completed \in [Threads -> BOOLEAN]
  /\ wakeup \in BOOLEAN
  /\ core \in CoreStates
  /\ current \in Requests \cup {None}
  /\ core \in {"took_item", "in_fn", "fn_done"} => current \in Requests
  /\ pc \in [Threads -> ThreadStates]
  /\ locking \in [Threads -> BOOLEAN]
  /\ depth \in [Threads -> 0..MaxDepth]
  /\ issued \in [Threads -> 0..MaxRequests]
  /\ ran \subseteq Requests

(* The invariant the comment on exclusive_lock states (dispatch.c:40-42):  *)
(* it is held only in suspend mode, and by another thread than the core    *)
(* only while suspend_requested > 0; so suspend mode cannot end under it.  *)
ExclusiveLockInvariant ==
  /\ exclusive_lock # None => suspended
  /\ exclusive_lock \in Threads => suspend_requested > 0

(* mp_dispatch_suspend's promise (dispatch.c:221-227): from its return to  *)
(* the matching resume, the core is inside mp_dispatch_queue_process.      *)
CoreStopped == \A t \in Threads : HasSuspended(t) => Processing

(* At most one of these touches the core's state: the player's own code, a *)
(* callback, or a thread between dispatch_lock and dispatch_unlock.        *)
ExclusiveAccess ==
  /\ \A t, u \in Threads : InLockedSection(t) /\ InLockedSection(u) => t = u
  /\ \A t \in Threads : InLockedSection(t) => Processing /\ core # "in_fn"

(* The two assertions of mp_dispatch_resume hold whenever it is called     *)
(* (dispatch.c:248-249).                                                   *)
ResumeAsserts ==
  \A t \in Threads : MayResume(t) => suspended /\ suspend_requested > 0

(* A synchronous item lives on the stack of mp_dispatch_run: while the     *)
(* core can still touch it, its owner has not returned and has not been    *)
(* told to.                                                                *)
StackItemLive ==
  \A i \in Unfinished :
    i.kind = "sync" =>
      /\ pc[i.from] \in {"run_queued", "run_wait"}
      /\ i.nr = issued[i.from]
      /\ ~completed[i.from]

(* When mp_dispatch_run returns, its callback has run.                     *)
RunReturnsAfterFn ==
  \A t \in Threads :
    pc[t] = "run_wait" /\ completed[t] =>
      [from |-> t, nr |-> issued[t], kind |-> "sync"] \in ran

(* A thread's callbacks run in the order it queued them, each of them      *)
(* once: what has run precedes all that is still queued.                   *)
QueueOrder ==
  \A r \in ran, i \in DOMAIN queue :
    r.from = queue[i].from /\ r.kind # "lock" => r.nr < queue[i].nr

(* The item of mp_dispatch_run is never used after it is gone, nor gone    *)
(* before it was used, and no item overtakes another of its thread.        *)
StackItems == StackItemLive /\ RunReturnsAfterFn /\ QueueOrder

(* Every queued callback runs, without the player having to time out.      *)
RequestsServed ==
  \A t \in Threads, n \in 1..MaxRequests :
    issued[t] >= n ~> \E r \in ran : r.from = t /\ r.nr = n

(* Every call of the API returns.                                          *)
CallsReturn == \A t \in Threads : pc[t] # "idle" ~> pc[t] = "idle"

(* No wakeup is lost on the way to the core or back.                       *)
CallsServed == RequestsServed /\ CallsReturn

(* Once the clients leave the core alone, the player gets its thread back, *)
(* again and again.  (A client may also suspend the core for good, or      *)
(* suspend and resume it at such a pace that it never leaves the queue.)   *)
CoreReturns == <>[](suspend_requested = 0) => []<>(core = "outside")

(***************************************************************************)
(* The inductive invariant behind the safety properties: the counter       *)
(* counts the open suspends, a thread that has one keeps the core inside   *)
(* of the queue, and the mutex is owned by whoever is between taking and   *)
(* releasing it.                                                           *)
(***************************************************************************)
OpenSuspends == {s \in Threads \X (1..MaxDepth) : s[2] <= depth[s[1]]}

SuspendsCounted == suspend_requested = Cardinality(OpenSuspends)

CallState(t) ==
  /\ SuspendPending(t) \/ locking[t] => depth[t] > 0
  /\ locking[t] => issued[t] > 0
  /\ pc[t] \in {"lock", "locked", "resume"} => locking[t]
  /\ pc[t] \in {"idle", "run_queued", "run_wait"} => ~locking[t]

LockOwners ==
  /\ exclusive_lock = Core <=> core = "in_fn"
  /\ \A t \in Threads : exclusive_lock = t <=> InLockedSection(t)

Inductive ==
  /\ TypeOK
  /\ SuspendsCounted
  /\ \A t \in Threads : CallState(t)
  /\ LockOwners
  /\ suspended <=> Processing
  /\ CoreStopped

(***************************************************************************)
(* The inductive invariant behind StackItems: items are queued in the      *)
(* order of their numbers, the one in work precedes them, and each is no   *)
(* younger than its thread's last request.                                 *)
(***************************************************************************)
InWork == core \in {"took_item", "in_fn", "fn_done"}

(* A callback that waits for the core, or is in its hands: no request of   *)
(* dispatch_lock, and made by its thread; if it is on the thread's stack,  *)
(* it is the thread's last, and the thread waits for it.                   *)
ItemPending(i) ==
  /\ i.kind \in {"async", "sync"}
  /\ i.nr <= issued[i.from]
  /\ i.kind = "sync" => /\ pc[i.from] \in {"run_queued", "run_wait"}
                        /\ i.nr = issued[i.from]
                        /\ ~completed[i.from]

OlderThan(i, j) == i.from = j.from => i.nr < j.nr

ItemsInOrder ==
  /\ \A i \in DOMAIN queue : ItemPending(queue[i])
  /\ \A i, j \in DOMAIN queue : i < j => OlderThan(queue[i], queue[j])
  /\ InWork => /\ ItemPending(current)
               /\ \A i \in DOMAIN queue : OlderThan(current, queue[i])

RanBefore ==
  /\ \A r \in ran : r.nr <= issued[r.from]
  /\ QueueOrder
  /\ core \in {"in_fn", "fn_done"} => current \in ran
  /\ \A t \in Threads :
       pc[t] \in {"run_queued", "run_wait"} /\ completed[t] =>
         [from |-> t, nr |-> issued[t], kind |-> "sync"] \in ran

InductiveItems == Inductive /\ ItemsInOrder /\ RanBefore

(* The queue as the mutual exclusion it is used for: CoreAccess.           *)
Access == INSTANCE CoreAccess WITH
            holder <- IF Processing THEN exclusive_lock ELSE Player

ImplementsCoreAccess == Access!Spec

=============================================================================
