---------------------------- MODULE ClientEvents ----------------------------
(***************************************************************************)
(* The event queue of one mpv_handle (player/client.c): the core appends   *)
(* events and replies to a ring buffer, the client's thread takes them     *)
(* with mpv_wait_event, and other threads of the client make asynchronous  *)
(* requests and call mpv_wakeup.  At the end the client waits for its      *)
(* replies and destroys the handle.                                        *)
(*                                                                         *)
(* Granularity.  What happens under ctx->lock is one action.  wait_wakeup  *)
(* gives up ctx->lock and then takes wakeup_lock, so it is several; a      *)
(* wakeup_client inside of ctx->lock belongs to the action that calls it.  *)
(* Only queued events are modelled: property changes and log messages,     *)
(* which mpv_wait_event generates when the queue is empty, are not, nor is *)
(* a client that waits while it has the core suspended.                    *)
(***************************************************************************)
EXTENDS Integers, Sequences

CONSTANTS
  max_events,   \* entries of the ring buffer, 1000 in the code
  Concurrent,   \* may one thread be in mpv_wait_async_requests while another
                \* is in mpv_wait_event?
  MaxEvents,    \* bound: events the core sends
  MaxRequests,  \* bound: asynchronous requests
  MaxWakeups    \* bound: calls of mpv_wakeup

ASSUME ConstantsAssumption ==
  /\ max_events \in Nat \ {0}
  /\ Concurrent \in BOOLEAN
  /\ MaxEvents \in Nat
  /\ MaxRequests \in Nat
  /\ MaxWakeups \in Nat

VARIABLES
  events,           \* the readable events of the ring buffer
  reserved_events,
  choked,
  queued_wakeup,
  need_wakeup,
  pc,               \* where the thread in mpv_wait_event is, and the one in
                    \* mpv_wait_async_requests
  deadline,         \* the deadline of mpv_wait_event: "never", "later" or "passed"
  requests,         \* the requests in the dispatch queue of the core
  destroyed,
  aborted,          \* send_reply found no room and called abort()
  cur_event,        \* what mpv_wait_event returned last
  called,           \* the wakeup callback came since the client last began to read
  sent, requested,  \* history: number of events sent, of requests accepted
  seen, answered,   \* history: number of the event and the reply read last
  wakeups           \* history: number of calls of mpv_wakeup

ringVars == <<events, reserved_events, choked>>
wakeupVars == <<need_wakeup, pc, called>>
coreVars == <<requests, aborted, sent, requested>>
clientVars == <<queued_wakeup, deadline, cur_event, seen, answered>>
vars == <<ringVars, wakeupVars, coreVars, clientVars, destroyed, wakeups>>

NoEvent == [type |-> "NONE", n |-> 0]
Overflow == [type |-> "QUEUE_OVERFLOW", n |-> 0]
Event(n) == [type |-> "EVENT", n |-> n]
Reply(n) == [type |-> "REPLY", n |-> n]

Init ==
  /\ events = <<>> /\ reserved_events = 0 /\ choked = FALSE
  /\ queued_wakeup = FALSE /\ need_wakeup = FALSE
  /\ pc = [t \in {"event", "async"} |-> "idle"]
  /\ deadline = "never"
  /\ requests = <<>>
  /\ destroyed = FALSE /\ aborted = FALSE
  /\ cur_event = NoEvent
  /\ called = FALSE
  /\ sent = 0 /\ requested = 0 /\ seen = 0 /\ answered = 0 /\ wakeups = 0

Moved(t, at) == pc' = [pc EXCEPT ![t] = at]

CallOnly ==
  /\ need_wakeup' = TRUE
  /\ called' = TRUE
  /\ UNCHANGED pc

BroadcastOnly ==
  /\ need_wakeup' = TRUE
  /\ pc' = [t \in DOMAIN pc |-> IF pc[t] = "blocked" THEN "woken" ELSE pc[t]]
  /\ UNCHANGED called

(* Wakes all that sleep on the condition variable, and calls the callback, *)
(* unless this was done already and nobody has woken up since.             *)
wakeup_client ==
  IF need_wakeup
    THEN UNCHANGED wakeupVars
    ELSE /\ need_wakeup' = TRUE
         /\ called' = TRUE
         /\ pc' = [t \in DOMAIN pc |-> IF pc[t] = "blocked" THEN "woken" ELSE pc[t]]

NeverFull == FALSE

FullWithoutReserve == Len(events) >= max_events

IsFull == Len(events) + reserved_events >= max_events

push_event(e) == events' = <<e>> \o events /\ wakeup_client

append_event(e) == events' = Append(events, e) /\ wakeup_client

(***************************************************************************)
(* The core                                                                *)
(***************************************************************************)

DropSilently == UNCHANGED choked

(* An event that finds no room is dropped, and all others until the client *)
(* has read what is queued.                                                *)
Choke == choked' = TRUE

(* send_event to a client that has enabled the event; the list of clients  *)
(* has it until it is destroyed.                                           *)
send_event ==
  /\ ~destroyed
  /\ sent < MaxEvents
  /\ sent' = sent + 1
  /\ \/ /\ choked
        /\ UNCHANGED <<ringVars, wakeupVars>>
     \/ /\ ~choked /\ IsFull
        /\ Choke
        /\ UNCHANGED <<events, reserved_events, wakeupVars>>
     \/ /\ ~choked /\ ~IsFull
        /\ append_event(Event(sent + 1))
        /\ UNCHANGED <<reserved_events, choked>>
  /\ UNCHANGED <<requests, aborted, requested, clientVars, destroyed, wakeups>>

(* The core executes a request from its dispatch queue and sends the reply *)
(* (cmd_fn, setproperty_fn, getproperty_fn: send_reply).                   *)
send_reply ==
  /\ requests # <<>>
  /\ requests' = Tail(requests)
  /\ reserved_events' = reserved_events - 1
  /\ IF Len(events) + reserved_events - 1 >= max_events
       THEN aborted' = TRUE /\ UNCHANGED <<events, wakeupVars>>
       ELSE append_event(Reply(Head(requests))) /\ UNCHANGED aborted
  /\ UNCHANGED <<choked, sent, requested, clientVars, destroyed, wakeups>>

(***************************************************************************)
(* The client's threads                                                    *)
(***************************************************************************)

(* The client does not use the handle once it has begun to destroy it.     *)
MayCall == ~destroyed /\ (Concurrent \/ pc["async"] = "idle")

(* reserve_reply: otherwise the request fails with EVENT_QUEUE_FULL.       *)
MayReserve == ~IsFull /\ ~choked

(* run_async: reserve_reply and mp_dispatch_enqueue.                       *)
run_async ==
  /\ MayCall
  /\ requested < MaxRequests
  /\ MayReserve
  /\ reserved_events' = reserved_events + 1
  /\ requested' = requested + 1
  /\ requests' = Append(requests, requested + 1)
  /\ UNCHANGED <<events, choked, wakeupVars, aborted, sent, clientVars, destroyed, wakeups>>

mpv_wakeup ==
  /\ MayCall
  /\ wakeups < MaxWakeups
  /\ wakeups' = wakeups + 1
  /\ queued_wakeup' = TRUE
  /\ wakeup_client
  /\ UNCHANGED <<ringVars, coreVars, deadline, cur_event, seen, answered, destroyed>>

(* A client begins to read because its callback came, or on its own.       *)
mpv_wait_event(timeout) ==
  /\ MayCall
  /\ pc["event"] = "idle"
  /\ Moved("event", "loop")
  /\ deadline' = timeout
  /\ cur_event' = NoEvent
  /\ called' = FALSE
  /\ UNCHANGED <<ringVars, need_wakeup, coreVars, queued_wakeup, seen, answered, destroyed, wakeups>>

(* The end of mpv_wait_event.                                              *)
Return(e) ==
  /\ cur_event' = e
  /\ queued_wakeup' = FALSE
  /\ Moved("event", "idle")

KeepDeadline == deadline

Deadline == IF queued_wakeup THEN "passed" ELSE deadline

RecoverFromOverflow ==
  /\ pc["event"] = "loop"
  /\ choked /\ events = <<>>
  /\ choked' = FALSE
  /\ deadline' = Deadline
  /\ seen' = sent
  /\ Return(Overflow)
  /\ UNCHANGED <<events, reserved_events, need_wakeup, called, coreVars, answered, destroyed, wakeups>>

TakeEvent ==
  /\ pc["event"] = "loop"
  /\ events # <<>>
  /\ events' = Tail(events)
  /\ deadline' = Deadline
  /\ IF Head(events).type = "REPLY"
       THEN answered' = Head(events).n /\ UNCHANGED seen
       ELSE seen' = Head(events).n /\ UNCHANGED answered
  /\ Return(Head(events))
  /\ UNCHANGED <<reserved_events, choked, need_wakeup, called, coreVars, destroyed, wakeups>>

(* Nothing to return: mpv_wait_event enters wait_wakeup.                   *)
NoEvents ==
  /\ pc["event"] = "loop"
  /\ events = <<>> /\ ~choked
  /\ deadline' = Deadline
  /\ Moved("event", "wait")
  /\ UNCHANGED <<ringVars, need_wakeup, called, coreVars, queued_wakeup, cur_event, seen,
                 answered, destroyed, wakeups>>

mpv_wait_async_requests ==
  /\ ~destroyed
  /\ pc["async"] = "idle"
  /\ Concurrent \/ pc["event"] = "idle"
  /\ Moved("async", "loop")
  /\ UNCHANGED <<ringVars, need_wakeup, called, coreVars, clientVars, destroyed, wakeups>>

AwaitNothing ==
  /\ pc["async"] = "loop"
  /\ Moved("async", "done")
  /\ UNCHANGED <<ringVars, need_wakeup, called, coreVars, clientVars, destroyed, wakeups>>

AwaitReplies ==
  /\ pc["async"] = "loop"
  /\ IF reserved_events > 0 THEN Moved("async", "wait") ELSE Moved("async", "done")
  /\ UNCHANGED <<ringVars, need_wakeup, called, coreVars, clientVars, destroyed, wakeups>>

(* mpv_wait_async_requests was called for its own sake.                    *)
AsyncReturns ==
  /\ ~destroyed
  /\ pc["async"] = "done"
  /\ Moved("async", "idle")
  /\ UNCHANGED <<ringVars, need_wakeup, called, coreVars, clientVars, destroyed, wakeups>>

(* mpv_detach_destroy after it has waited; no other thread of the client   *)
(* may use the handle any more.                                            *)
mpv_detach_destroy ==
  /\ ~Concurrent
  /\ pc["async"] = "done"
  /\ pc["event"] = "idle"
  /\ ~destroyed
  /\ destroyed' = TRUE
  /\ events' = <<>>
  /\ UNCHANGED <<reserved_events, choked, wakeupVars, coreVars, clientVars, wakeups>>

Passed(t) == t = "event" /\ deadline = "passed"

(* wait_wakeup, under wakeup_lock.  Whoever gets through resets            *)
(* need_wakeup; a time-out does not.                                       *)
EnterWait(t) ==
  /\ pc[t] = "wait"
  /\ \/ need_wakeup /\ need_wakeup' = FALSE /\ Moved(t, "loop")
     \/ ~need_wakeup /\ Moved(t, IF Passed(t) THEN "timedout" ELSE "blocked")
                     /\ UNCHANGED need_wakeup
  /\ UNCHANGED <<ringVars, called, coreVars, clientVars, destroyed, wakeups>>

LeaveWait(t) ==
  /\ pc[t] = "woken"
  /\ need_wakeup' = FALSE
  /\ Moved(t, "loop")
  /\ UNCHANGED <<ringVars, called, coreVars, clientVars, destroyed, wakeups>>

(* The deadline passes before the broadcast.                               *)
TimeOut ==
  /\ pc["event"] = "blocked"
  /\ deadline = "later"
  /\ Moved("event", "timedout")
  /\ UNCHANGED <<ringVars, need_wakeup, called, coreVars, clientVars, destroyed, wakeups>>

(* pthread_cond_timedwait has returned ETIMEDOUT; ctx->lock is taken       *)
(* again and mpv_wait_event returns no event.                              *)
ReturnNone ==
  /\ pc["event"] = "timedout"
  /\ Return(NoEvent)
  /\ UNCHANGED <<ringVars, need_wakeup, called, coreVars, deadline, seen, answered, destroyed, wakeups>>

SpuriousWakeup(t) ==
  /\ pc[t] = "blocked"
  /\ Moved(t, "woken")
  /\ UNCHANGED <<ringVars, need_wakeup, called, coreVars, clientVars, destroyed, wakeups>>

EventStep ==
  \/ RecoverFromOverflow \/ TakeEvent \/ NoEvents
  \/ EnterWait("event") \/ LeaveWait("event")
  \/ ReturnNone

AsyncStep == AwaitReplies \/ EnterWait("async") \/ LeaveWait("async")

Next ==
  \/ send_event \/ send_reply
  \/ run_async \/ mpv_wakeup
  \/ \E timeout \in {"never", "later", "passed"} : mpv_wait_event(timeout)
  \/ EventStep \/ TimeOut
  \/ mpv_wait_async_requests \/ AsyncStep \/ AsyncReturns \/ mpv_detach_destroy
  \/ \E t \in {"event", "async"} : SpuriousWakeup(t)

Spec == Init /\ [][Next]_vars

(* The core serves its dispatch queue (Dispatch: RequestsServed) and the   *)
(* client's threads run.  No deadline, and no spurious wakeup, needs to    *)
(* end a wait; nothing makes a client read, request or destroy.            *)
Fairness ==
  /\ WF_vars(send_reply)
  /\ WF_vars(EventStep)
  /\ WF_vars(AsyncStep)

FairSpec == Spec /\ Fairness

(***************************************************************************)
(* Properties                                                              *)
(***************************************************************************)

ThreadStates == {"idle", "loop", "wait", "blocked", "woken", "timedout", "done"}

Entries ==
  {NoEvent, Overflow} \cup {Event(n) : n \in 1 .. MaxEvents} \cup {Reply(n) : n \in 1 .. MaxRequests}

(* The ranges of all fields; the ring buffer does not exceed its size.     *)
TypeOK ==
  /\ events \in Seq(Entries) /\ Len(events) <= max_events
  /\ reserved_events \in 0 .. max_events
  /\ choked \in BOOLEAN /\ queued_wakeup \in BOOLEAN /\ need_wakeup \in BOOLEAN
  /\ destroyed \in BOOLEAN /\ aborted \in BOOLEAN /\ called \in BOOLEAN
  /\ pc \in [{"event", "async"} -> ThreadStates]
  /\ deadline \in {"never", "later", "passed"}
  /\ requests \in Seq(1 .. MaxRequests)
  /\ cur_event \in Entries
  /\ sent \in 0 .. MaxEvents /\ seen \in 0 .. MaxEvents
  /\ requested \in 0 .. MaxRequests /\ answered \in 0 .. MaxRequests
  /\ wakeups \in 0 .. MaxWakeups

(* "not reached" (client.c: abort() in send_reply): a request that was     *)
(* accepted finds room for its reply, however many events come before it.  *)
ReplyFits == ~aborted

(* The entries of one kind in a queue are those numbered from lo           *)
(* (exclusive) to hi, in that order.                                       *)
OfType(queue, type) == {i \in DOMAIN queue : queue[i].type = type}

InOrder(queue, type, lo, hi) ==
  /\ lo <= hi
  /\ {queue[i].n : i \in OfType(queue, type)} = lo + 1 .. hi
  /\ \A i, j \in OfType(queue, type) : i < j => queue[i].n < queue[j].n

(* Every accepted request has one reply, in the order of the requests: the *)
(* requests not yet answered are the replies in the ring buffer and then   *)
(* those in the core's queue.  Overflow loses none of them.                *)
RepliesInOrder ==
  LET replied == requested - Len(requests) IN
  ~destroyed =>
    /\ InOrder(events, "REPLY", answered, replied)
    /\ \A i \in DOMAIN requests : requests[i] = replied + i

(* The client reads the events in order.  Some are lost only when it will  *)
(* read QUEUE_OVERFLOW ("at least 1 event had to be dropped", client.h)    *)
(* before the next event that was not lost.                                *)
LossReported ==
  ~destroyed =>
    IF choked THEN \E last \in seen .. sent - 1 : InOrder(events, "EVENT", seen, last)
              ELSE InOrder(events, "EVENT", seen, sent)

(* No thread sleeps over what it waits for.  The one flag need_wakeup      *)
(* stands for the wakeups of every thread of the handle.  client.h allows  *)
(* two to wait: of mpv_wait_event, "Only one thread is allowed to call     *)
(* this", but "most other API functions are not restricted by this".       *)
NoLostWakeup ==
  /\ pc["event"] = "blocked" => events = <<>> /\ ~queued_wakeup
  /\ pc["async"] = "blocked" => reserved_events > 0

(* A client that reads until NONE and then waits for its callback has      *)
(* nothing left to read ("You should call mpv_wait_event() with no timeout *)
(* until MPV_EVENT_NONE is reached", client.h).                            *)
CallbackAnnounces ==
  pc["event"] = "idle" /\ cur_event = NoEvent /\ ~called => events = <<>> /\ ~queued_wakeup

(* The core sends no reply to a handle that is gone.                       *)
NoReplyToDestroyed == destroyed => requests = <<>>

(* reserved_events does what it is for, from the acceptance of a request   *)
(* to the end of the handle: the ring buffer is never exceeded, every      *)
(* reply fits, and a handle is freed only when no reply can come for it.   *)
RepliesSafe == TypeOK /\ ReplyFits /\ NoReplyToDestroyed

(* mpv_wakeup and any event end mpv_wait_event; mpv_wait_async_requests,   *)
(* and with it mpv_detach_destroy, ends although nobody reads the replies. *)
WaitsEnd ==
  /\ pc["event"] # "idle" /\ queued_wakeup ~> pc["event"] = "idle"
  /\ pc["event"] # "idle" /\ events # <<>> ~> pc["event"] = "idle"
  /\ pc["async"] = "loop" ~> pc["async"] \in {"done", "idle"}

=============================================================================
