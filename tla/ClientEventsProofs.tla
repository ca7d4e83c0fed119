------------------------- MODULE ClientEventsProofs -------------------------
(***************************************************************************)
(* Theorems about ClientEvents: the ring buffer has room for every reply,  *)
(* no wakeup and no reply is lost, a lost event is reported, for any size  *)
(* of the ring buffer and any number of events, requests and wakeups.      *)
(***************************************************************************)
EXTENDS ClientEvents, TLAPS

(* Each reserved entry belongs to a request the core still has, and the    *)
(* ring buffer has room for all of them.                                   *)
Capacity ==
  /\ reserved_events = Len(requests)
  /\ Len(events) + reserved_events <= max_events
  /\ ~aborted

(* The ring buffer starts empty.                                           *)
LEMMA InitialCapacity == Init => TypeOK /\ Capacity
<1> SUFFICES ASSUME Init PROVE TypeOK /\ Capacity
  OBVIOUS
<1> USE ConstantsAssumption DEF ConstantsAssumption
<1>1. cur_event \in Entries
  BY DEF Init, Entries
<1>2. events = <<>> /\ requests = <<>>
  BY DEF Init
<1>3. /\ events \in Seq(Entries) /\ requests \in Seq(1 .. MaxRequests)
      /\ Len(events) = 0 /\ Len(requests) = 0
  BY <1>2
<1>4. pc \in [{"event", "async"} -> ThreadStates]
  BY DEF Init, ThreadStates
<1>5. /\ choked \in BOOLEAN /\ queued_wakeup \in BOOLEAN /\ need_wakeup \in BOOLEAN
      /\ destroyed \in BOOLEAN /\ aborted \in BOOLEAN /\ called \in BOOLEAN
      /\ ~aborted
  BY Zenon DEF Init
<1>6. Capacity
  BY <1>3, <1>5 DEF Init, Capacity
<1>q. QED
  BY <1>1, <1>3, <1>4, <1>5, <1>6 DEF Init, TypeOK

(* Where a thread goes is one of its places.                               *)
LEMMA MovedTypes ==
  ASSUME TypeOK, NEW t \in {"event", "async"}, NEW at \in ThreadStates, Moved(t, at)
  PROVE  pc' \in [{"event", "async"} -> ThreadStates]
BY DEF TypeOK, Moved

(* A wakeup touches nothing but the threads that sleep.                    *)
LEMMA WakeupTypes ==
  ASSUME TypeOK, wakeup_client
  PROVE  /\ need_wakeup' \in BOOLEAN /\ called' \in BOOLEAN
         /\ pc' \in [{"event", "async"} -> ThreadStates]
BY DEF TypeOK, wakeup_client, wakeupVars, ThreadStates

(* Each action keeps the types and the capacity.  Only send_event appends  *)
(* without a reservation, and then it has looked for room.                 *)
LEMMA SendEventFits ==
  ASSUME TypeOK, Capacity, send_event
  PROVE  TypeOK' /\ Capacity'
<1> USE ConstantsAssumption
        DEF ConstantsAssumption, TypeOK, Capacity, ringVars, wakeupVars, clientVars
<1>1. sent + 1 \in 1 .. MaxEvents
  BY DEF send_event
<1>2. Event(sent + 1) \in Entries
  BY <1>1 DEF Entries
<1>3. CASE choked
  BY <1>1, <1>3 DEF send_event
<1>4. CASE ~choked /\ IsFull
  <2>1. choked' = TRUE /\ UNCHANGED <<events, reserved_events, wakeupVars>>
    BY <1>4 DEF send_event, Choke
  <2>2. choked' \in BOOLEAN
    BY <2>1
  <2>3. /\ sent' \in 0 .. MaxEvents
        /\ UNCHANGED <<requests, aborted, requested, clientVars, destroyed, wakeups>>
    BY <1>1 DEF send_event
  <2>4. Capacity'
    BY <2>1, <2>3
  <2>5. TypeOK'
    BY <2>1, <2>2, <2>3
  <2>q. QED
    BY <2>4, <2>5
<1>5. CASE ~choked /\ ~IsFull
  <2>1. append_event(Event(sent + 1)) /\ UNCHANGED <<reserved_events, choked>>
    BY <1>5 DEF send_event
  <2>2. /\ events' = Append(events, Event(sent + 1))
        /\ wakeup_client
    BY <2>1 DEF append_event
  <2>3. /\ events' \in Seq(Entries)
        /\ Len(events') = Len(events) + 1
    BY <1>2, <2>2
  <2>4. Len(events') + reserved_events <= max_events
    BY <1>5, <2>3 DEF IsFull
  <2>5. Capacity'
    BY <2>1, <2>4 DEF send_event
  <2>6. TypeOK'
    BY <1>1, <2>1, <2>2, <2>3, <2>4, WakeupTypes DEF send_event
  <2>q. QED
    BY <2>5, <2>6
<1>q. QED
  BY <1>3, <1>4, <1>5

(* A reply takes the entry that was reserved for it.                       *)
LEMMA SendReplyFits ==
  ASSUME TypeOK, Capacity, send_reply
  PROVE  TypeOK' /\ Capacity'
<1> USE ConstantsAssumption
        DEF ConstantsAssumption, TypeOK, Capacity, ringVars, wakeupVars, clientVars
<1> DEFINE r == Head(requests)
<1>1. /\ requests # <<>>
      /\ requests' = Tail(requests)
      /\ reserved_events' = reserved_events - 1
      /\ UNCHANGED <<choked, sent, requested, clientVars, destroyed, wakeups>>
  BY DEF send_reply
<1>2. /\ Len(requests) > 0
      /\ Head(requests) \in 1 .. MaxRequests
      /\ Tail(requests) \in Seq(1 .. MaxRequests)
      /\ Len(Tail(requests)) = Len(requests) - 1
  BY <1>1
<1>3. ~(Len(events) + reserved_events - 1 >= max_events)
  BY <1>1
<1>4. /\ events' = Append(events, Reply(r))
      /\ wakeup_client
      /\ UNCHANGED aborted
  BY <1>3 DEF send_reply, append_event
<1>5. Reply(r) \in Entries
  BY <1>2 DEF Entries
<1>6. /\ events' \in Seq(Entries)
      /\ Len(events') = Len(events) + 1
  BY <1>4, <1>5
<1>7. Capacity'
  BY <1>1, <1>2, <1>4, <1>6
<1>8. TypeOK'
  BY <1>1, <1>2, <1>4, <1>6, <1>7, WakeupTypes
<1>q. QED
  BY <1>7, <1>8

(* What the client takes from the ring buffer leaves room.                 *)
LEMMA TakeEventFits ==
  ASSUME TypeOK, Capacity, TakeEvent
  PROVE  TypeOK' /\ Capacity'
<1> USE ConstantsAssumption
        DEF ConstantsAssumption, TypeOK, Capacity, ringVars, wakeupVars, coreVars
<1> DEFINE e == Head(events)
<1>1. /\ events # <<>>
      /\ events' = Tail(events)
  BY DEF TakeEvent
<1>2. /\ e \in Entries
      /\ events' \in Seq(Entries)
      /\ Len(events') = Len(events) - 1
  BY <1>1
<1>3. /\ e.type = "REPLY" => e.n \in 0 .. MaxRequests
      /\ e.type # "REPLY" => e.n \in 0 .. MaxEvents
  BY <1>2 DEF Entries, NoEvent, Overflow, Event, Reply
<1>4. /\ seen' \in 0 .. MaxEvents
      /\ answered' \in 0 .. MaxRequests
  BY <1>3 DEF TakeEvent
<1>5. /\ deadline' \in {"never", "later", "passed"}
      /\ pc' \in [{"event", "async"} -> ThreadStates]
      /\ cur_event' \in Entries
      /\ queued_wakeup' \in BOOLEAN
  BY <1>2 DEF TakeEvent, Deadline, Return, Moved, ThreadStates
<1>6. Capacity'
  BY <1>2 DEF TakeEvent
<1>7. TypeOK'
  BY <1>1, <1>2, <1>4, <1>5 DEF TakeEvent
<1>q. QED
  BY <1>6, <1>7

(* The actions that leave the ring buffer alone, or empty it.              *)
LEMMA OtherStepsFit ==
  ASSUME TypeOK, Capacity,
         \/ run_async \/ mpv_wakeup
         \/ \E timeout \in {"never", "later", "passed"} : mpv_wait_event(timeout)
         \/ RecoverFromOverflow \/ NoEvents \/ ReturnNone \/ TimeOut
         \/ mpv_wait_async_requests \/ AwaitReplies \/ AsyncReturns \/ mpv_detach_destroy
         \/ \E t \in {"event", "async"} : EnterWait(t) \/ LeaveWait(t) \/ SpuriousWakeup(t)
  PROVE  TypeOK' /\ Capacity'
<1> USE ConstantsAssumption
        DEF ConstantsAssumption, TypeOK, Capacity, ringVars, wakeupVars, coreVars, clientVars
<1>1. CASE run_async
  <2>1. /\ requested + 1 \in 1 .. MaxRequests
        /\ requests' = Append(requests, requested + 1)
        /\ reserved_events' = reserved_events + 1
        /\ Len(events) + reserved_events < max_events
    BY <1>1 DEF run_async, MayReserve, IsFull
  <2>2. /\ requests' \in Seq(1 .. MaxRequests)
        /\ Len(requests') = Len(requests) + 1
    BY <2>1
  <2>q. QED
    BY <1>1, <2>1, <2>2 DEF run_async
<1>2. CASE mpv_wakeup
  BY <1>2, WakeupTypes DEF mpv_wakeup
<1>3. CASE \E timeout \in {"never", "later", "passed"} : mpv_wait_event(timeout)
  <2>1. PICK timeout \in {"never", "later", "passed"} : mpv_wait_event(timeout)
    BY <1>3
  <2>2. /\ pc' \in [{"event", "async"} -> ThreadStates]
        /\ cur_event' \in Entries
    BY <2>1, MovedTypes DEF mpv_wait_event, ThreadStates, Entries
  <2>3. /\ deadline' = timeout /\ called' \in BOOLEAN
        /\ UNCHANGED <<ringVars, need_wakeup, coreVars, queued_wakeup, seen, answered, destroyed,
                       wakeups>>
    BY <2>1 DEF mpv_wait_event
  <2>q. QED
    BY <2>2, <2>3
<1>4. CASE RecoverFromOverflow
  BY <1>4 DEF RecoverFromOverflow, Return, Moved, Deadline, ThreadStates, Entries
<1>5. CASE NoEvents
  BY <1>5 DEF NoEvents, Moved, Deadline, ThreadStates
<1>6. CASE ReturnNone
  BY <1>6 DEF ReturnNone, Return, Moved, ThreadStates, Entries
<1>7. CASE TimeOut
  BY <1>7 DEF TimeOut, Moved, ThreadStates
<1>8. CASE mpv_wait_async_requests
  BY <1>8 DEF mpv_wait_async_requests, Moved, ThreadStates
<1>9. CASE AwaitReplies
  BY <1>9 DEF AwaitReplies, Moved, ThreadStates
<1>10. CASE AsyncReturns
  BY <1>10 DEF AsyncReturns, Moved, ThreadStates
<1>11. CASE mpv_detach_destroy
  BY <1>11 DEF mpv_detach_destroy
<1>12. CASE \E t \in {"event", "async"} : EnterWait(t)
  <2>1. PICK t \in {"event", "async"} : EnterWait(t)
    BY <1>12
  <2>2. pc' \in [{"event", "async"} -> ThreadStates] /\ need_wakeup' \in BOOLEAN
    BY <2>1, MovedTypes DEF EnterWait, ThreadStates
  <2>3. UNCHANGED <<ringVars, called, coreVars, clientVars, destroyed, wakeups>>
    BY <2>1 DEF EnterWait
  <2>q. QED
    BY <2>2, <2>3
<1>13. CASE \E t \in {"event", "async"} : LeaveWait(t)
  <2>1. PICK t \in {"event", "async"} : LeaveWait(t)
    BY <1>13
  <2>2. pc' \in [{"event", "async"} -> ThreadStates] /\ need_wakeup' \in BOOLEAN
    BY <2>1, MovedTypes DEF LeaveWait, ThreadStates
  <2>3. UNCHANGED <<ringVars, called, coreVars, clientVars, destroyed, wakeups>>
    BY <2>1 DEF LeaveWait
  <2>q. QED
    BY <2>2, <2>3
<1>14. CASE \E t \in {"event", "async"} : SpuriousWakeup(t)
  BY <1>14 DEF SpuriousWakeup, Moved, ThreadStates
<1>q. QED
  BY <1>1, <1>2, <1>3, <1>4, <1>5, <1>6, <1>7, <1>8, <1>9, <1>10, <1>11, <1>12, <1>13, <1>14

(* Every step keeps the types and the capacity.                            *)
LEMMA StepFits ==
  ASSUME TypeOK, Capacity, [Next]_vars
  PROVE  TypeOK' /\ Capacity'
<1>1. CASE UNCHANGED vars
  BY <1>1 DEF vars, ringVars, wakeupVars, coreVars, clientVars, TypeOK, Capacity
<1>2. CASE Next
  BY <1>2, SendEventFits, SendReplyFits, TakeEventFits, OtherStepsFit
  DEF Next, EventStep, AsyncStep
<1>q. QED
  BY <1>1, <1>2

(* The types of all fields, and the room in the ring buffer.               *)
THEOREM CapacityHolds == Spec => [](TypeOK /\ Capacity)
<1>1. TypeOK /\ Capacity /\ [Next]_vars => (TypeOK /\ Capacity)'
  BY StepFits
<1>q. QED
  BY InitialCapacity, <1>1, PTL DEF Spec

(* Type correctness, for every size of the ring buffer.                    *)
THEOREM TypeCorrect == Spec => []TypeOK
BY CapacityHolds, PTL

(* send_reply never gets to its abort(): an accepted request has room for  *)
(* its reply, for every size of the ring buffer.                           *)
THEOREM RepliesFit == Spec => []ReplyFits
<1>1. TypeOK /\ Capacity => ReplyFits
  BY DEF Capacity, ReplyFits
<1>q. QED
  BY CapacityHolds, <1>1, PTL

(***************************************************************************)
(* No wakeup is lost.                                                      *)
(***************************************************************************)

(* Whoever is about to sleep finds need_wakeup set if its reason to sleep  *)
(* has gone, and whoever sleeps has a reason and can still be signalled.   *)
(* This needs that the two threads do not wait at the same time, since     *)
(* either may reset need_wakeup.                                           *)
OneWaits == pc["async"] # "idle" => pc["event"] = "idle"

EventWaits ==
  /\ pc["event"] = "wait" /\ events # <<>> => need_wakeup
  /\ pc["event"] = "wait" /\ queued_wakeup /\ deadline # "passed" => need_wakeup
  /\ pc["event"] = "blocked" => ~need_wakeup /\ events = <<>> /\ ~queued_wakeup

AsyncWaits ==
  /\ pc["async"] = "wait" /\ reserved_events = 0 => need_wakeup
  /\ pc["async"] = "blocked" => ~need_wakeup /\ reserved_events > 0

Wakes == OneWaits /\ EventWaits /\ AsyncWaits

(* wakeup_client sets the flag and leaves nobody asleep.                   *)
LEMMA WakeupWakes ==
  ASSUME TypeOK, Wakes, wakeup_client
  PROVE  /\ need_wakeup' = TRUE
         /\ \A t \in {"event", "async"} :
              /\ pc'[t] # "blocked"
              /\ pc'[t] = "wait" => pc[t] = "wait"
              /\ pc'[t] = "idle" <=> pc[t] = "idle"
<1> USE DEF TypeOK, Wakes, EventWaits, AsyncWaits, wakeup_client, wakeupVars
<1>1. CASE need_wakeup
  <2>1. need_wakeup' = need_wakeup /\ pc' = pc
    BY <1>1
  <2>2. \A t \in {"event", "async"} : pc[t] # "blocked"
    BY <1>1
  <2>3. need_wakeup' = TRUE
    BY <1>1, <2>1
  <2>q. QED
    BY <2>1, <2>2, <2>3
<1>2. CASE ~need_wakeup
  <2>1. /\ need_wakeup' = TRUE
        /\ pc' = [t \in DOMAIN pc |-> IF pc[t] = "blocked" THEN "woken" ELSE pc[t]]
    BY <1>2
  <2>q. QED
    BY <2>1
<1>q. QED
  BY <1>1, <1>2

(* A step that calls wakeup_client: nothing else needs to be known of it.  *)
LEMMA WakeupKeepsWakes ==
  ASSUME TypeOK, Wakes, wakeup_client
  PROVE  Wakes'
BY WakeupWakes DEF Wakes, OneWaits, EventWaits, AsyncWaits

(* Only the thread that moves is elsewhere then.                           *)
LEMMA MovedTo ==
  ASSUME TypeOK, NEW t \in {"event", "async"}, NEW at, Moved(t, at)
  PROVE  /\ pc'[t] = at
         /\ \A u \in {"event", "async"} \ {t} : pc'[u] = pc[u]
BY DEF TypeOK, Moved

(* What the core sends wakes whoever sleeps.                               *)
LEMMA CoreStepWakes ==
  ASSUME TypeOK, Capacity, Wakes, send_event \/ send_reply
  PROVE  Wakes'
<1>1. CASE send_event
  <2>1. CASE wakeup_client
    BY <2>1, WakeupKeepsWakes
  <2>2. CASE UNCHANGED <<events, reserved_events, wakeupVars, clientVars>>
    BY <2>2 DEF Wakes, OneWaits, EventWaits, AsyncWaits, wakeupVars, clientVars
  <2>q. QED
    BY <1>1, <2>1, <2>2 DEF send_event, append_event, ringVars
<1>2. CASE send_reply
  <2>1. wakeup_client
    BY <1>2, ConstantsAssumption DEF send_reply, append_event, Capacity, TypeOK, ConstantsAssumption
  <2>q. QED
    BY <2>1, WakeupKeepsWakes
<1>q. QED
  BY <1>1, <1>2

(* The thread in mpv_wait_event: it sleeps only when the flag is not set.  *)
LEMMA EventStepWakes ==
  ASSUME TypeOK, Wakes, ~Concurrent,
         \/ \E timeout \in {"never", "later", "passed"} : mpv_wait_event(timeout)
         \/ RecoverFromOverflow \/ TakeEvent \/ NoEvents \/ ReturnNone \/ TimeOut
         \/ EnterWait("event") \/ LeaveWait("event") \/ SpuriousWakeup("event")
  PROVE  Wakes'
<1>1. pc'["async"] = pc["async"] /\ reserved_events' = reserved_events
  BY MovedTo
  DEF mpv_wait_event, RecoverFromOverflow, TakeEvent, NoEvents, ReturnNone, TimeOut, Return,
      EnterWait, LeaveWait, SpuriousWakeup, ringVars
<1>2. pc["async"] = "idle"
  BY DEF mpv_wait_event, MayCall, RecoverFromOverflow, TakeEvent, NoEvents, ReturnNone, TimeOut,
         EnterWait, LeaveWait, SpuriousWakeup, Wakes, OneWaits
<1>3. OneWaits' /\ AsyncWaits'
  BY <1>1, <1>2 DEF OneWaits, AsyncWaits
<1>4. EventWaits'
  <2>1. CASE \E timeout \in {"never", "later", "passed"} : mpv_wait_event(timeout)
    BY <2>1, MovedTo DEF mpv_wait_event, EventWaits
  <2>2. CASE RecoverFromOverflow \/ TakeEvent \/ ReturnNone
    BY <2>2, MovedTo DEF RecoverFromOverflow, TakeEvent, ReturnNone, Return, EventWaits
  <2>3. CASE NoEvents
    <3>1. pc'["event"] = "wait" /\ events' = <<>> /\ queued_wakeup' = queued_wakeup
      BY <2>3, MovedTo DEF NoEvents, ringVars
    <3>2. queued_wakeup => deadline' = "passed"
      BY <2>3 DEF NoEvents, Deadline
    <3>q. QED
      BY <3>1, <3>2 DEF EventWaits
  <2>4. CASE TimeOut \/ LeaveWait("event") \/ SpuriousWakeup("event")
    BY <2>4, MovedTo DEF TimeOut, LeaveWait, SpuriousWakeup, EventWaits
  <2>5. CASE EnterWait("event")
    <3>1. UNCHANGED <<events, queued_wakeup, deadline>>
      BY <2>5 DEF EnterWait, ringVars, clientVars
    <3>2. CASE pc'["event"] = "blocked"
      <4>1. pc["event"] = "wait" /\ ~need_wakeup /\ need_wakeup' = need_wakeup
            /\ deadline # "passed"
        BY <2>5, <3>2, MovedTo DEF EnterWait, Passed
      <4>q. QED
        BY <3>1, <3>2, <4>1 DEF EventWaits, Wakes
    <3>3. CASE pc'["event"] \in {"loop", "timedout"}
      BY <3>3 DEF EventWaits
    <3>q. QED
      BY <2>5, <3>2, <3>3, MovedTo DEF EnterWait
  <2>q. QED
    BY <2>1, <2>2, <2>3, <2>4, <2>5
<1>q. QED
  BY <1>3, <1>4 DEF Wakes

(* The thread in mpv_wait_async_requests, and its end.                     *)
LEMMA AsyncStepWakes ==
  ASSUME TypeOK, Wakes, ~Concurrent,
         \/ mpv_wait_async_requests \/ AwaitReplies \/ AsyncReturns
         \/ EnterWait("async") \/ LeaveWait("async") \/ SpuriousWakeup("async")
  PROVE  Wakes'
<1>1. pc'["event"] = pc["event"] /\ UNCHANGED <<events, reserved_events, queued_wakeup, deadline>>
  BY MovedTo
  DEF mpv_wait_async_requests, AwaitReplies, AsyncReturns,
      EnterWait, LeaveWait, SpuriousWakeup, ringVars, clientVars
<1>2. pc["event"] = "idle"
  BY DEF mpv_wait_async_requests, AwaitReplies, AsyncReturns,
         EnterWait, LeaveWait, SpuriousWakeup, Wakes, OneWaits
<1>3. OneWaits' /\ EventWaits'
  BY <1>1, <1>2 DEF OneWaits, EventWaits
<1>4. AsyncWaits'
  <2>1. CASE mpv_wait_async_requests \/ AsyncReturns
    BY <2>1, MovedTo DEF mpv_wait_async_requests, AsyncReturns, AsyncWaits
  <2>2. CASE AwaitReplies
    BY <1>1, <2>2, MovedTo DEF AwaitReplies, AsyncWaits, TypeOK
  <2>3. CASE LeaveWait("async") \/ SpuriousWakeup("async")
    BY <2>3, MovedTo DEF LeaveWait, SpuriousWakeup, AsyncWaits
  <2>4. CASE EnterWait("async")
    <3>1. CASE pc'["async"] = "blocked"
      <4>1. pc["async"] = "wait" /\ ~need_wakeup /\ need_wakeup' = need_wakeup
        BY <2>4, <3>1, MovedTo DEF EnterWait
      <4>2. reserved_events > 0
        BY <4>1 DEF AsyncWaits, Wakes, TypeOK
      <4>q. QED
        BY <1>1, <3>1, <4>1, <4>2 DEF AsyncWaits
    <3>2. CASE pc'["async"] = "loop"
      BY <3>2 DEF AsyncWaits
    <3>q. QED
      BY <2>4, <3>1, <3>2, MovedTo DEF EnterWait, Passed
  <2>q. QED
    BY <2>1, <2>2, <2>3, <2>4
<1>q. QED
  BY <1>3, <1>4 DEF Wakes

(* Calls that do not wait.                                                 *)
LEMMA CallWakes ==
  ASSUME TypeOK, Wakes, ~Concurrent, run_async \/ mpv_wakeup \/ mpv_detach_destroy
  PROVE  Wakes'
<1>1. CASE run_async
  BY <1>1 DEF run_async, wakeupVars, clientVars, TypeOK, Wakes, OneWaits, EventWaits, AsyncWaits
<1>2. CASE mpv_wakeup
  BY <1>2, WakeupKeepsWakes DEF mpv_wakeup
<1>3. CASE mpv_detach_destroy
  BY <1>3 DEF mpv_detach_destroy, wakeupVars, clientVars, Wakes, OneWaits, EventWaits, AsyncWaits
<1>q. QED
  BY <1>1, <1>2, <1>3

(* No step puts a thread to sleep over what it waits for.                  *)
LEMMA StepWakes ==
  ASSUME TypeOK, Capacity, Wakes, ~Concurrent, [Next]_vars
  PROVE  Wakes'
<1>1. CASE UNCHANGED vars
  BY <1>1
  DEF vars, ringVars, wakeupVars, coreVars, clientVars, Wakes, OneWaits, EventWaits, AsyncWaits
<1>2. CASE Next
  BY <1>2, CoreStepWakes, EventStepWakes, AsyncStepWakes, CallWakes
  DEF Next, EventStep, AsyncStep
<1>q. QED
  BY <1>1, <1>2

(* No thread of the client sleeps over what it waits for, unless one waits *)
(* for replies while another waits for events (client.c: wait_wakeup).     *)
THEOREM WakeupsArrive == Spec => [](~Concurrent => NoLostWakeup)
<1> DEFINE W == ~Concurrent => Wakes
<1>1. Init => W
  BY DEF Init, Wakes, OneWaits, EventWaits, AsyncWaits
<1>2. TypeOK /\ Capacity /\ W /\ [Next]_vars => W'
  BY StepWakes
<1>3. W => (~Concurrent => NoLostWakeup)
  BY DEF Wakes, EventWaits, AsyncWaits, NoLostWakeup
<1> HIDE DEF W
<1>q. QED
  BY CapacityHolds, <1>1, <1>2, <1>3, PTL DEF Spec

(***************************************************************************)
(* The end of a handle.                                                    *)
(***************************************************************************)

(* No request is open from the moment mpv_wait_async_requests is done:     *)
(* other threads of the client make none any more.                         *)
Quiet ==
  /\ destroyed => requests = <<>>
  /\ ~Concurrent /\ pc["async"] = "done" => requests = <<>>

(* No step makes a request after the wait for the replies is done.         *)
LEMMA StepQuiet ==
  ASSUME TypeOK, Capacity, Quiet, [Next]_vars
  PROVE  Quiet'
<1>1. CASE AwaitReplies
  <2>1. UNCHANGED <<requests, destroyed>>
    BY <1>1 DEF AwaitReplies, coreVars
  <2>2. pc'["async"] = "done" => requests = <<>>
    BY <1>1, MovedTo DEF AwaitReplies, Capacity, TypeOK
  <2>q. QED
    BY <2>1, <2>2 DEF Quiet
<1>2. CASE mpv_detach_destroy
  BY <1>2 DEF mpv_detach_destroy, coreVars, wakeupVars, Quiet
<1>3. CASE run_async
  BY <1>3 DEF run_async, MayCall, wakeupVars, Quiet
<1>4. CASE send_reply
  <2>1. requests # <<>> /\ destroyed' = destroyed
    BY <1>4 DEF send_reply
  <2>2. ~destroyed' /\ (Concurrent \/ pc["async"] # "done")
    BY <2>1 DEF Quiet
  <2>3. pc'["async"] = "done" => pc["async"] = "done"
    BY <1>4 DEF send_reply, append_event, wakeup_client, wakeupVars, TypeOK
  <2>q. QED
    BY <2>2, <2>3 DEF Quiet
<1>5. CASE send_event \/ mpv_wakeup
  <2>1. UNCHANGED <<requests, destroyed>>
    BY <1>5 DEF send_event, mpv_wakeup, coreVars
  <2>2. pc'["async"] = "done" => pc["async"] = "done"
    BY <1>5 DEF send_event, mpv_wakeup, append_event, wakeup_client, wakeupVars, TypeOK
  <2>q. QED
    BY <2>1, <2>2 DEF Quiet
<1>6. ASSUME UNCHANGED <<requests, destroyed>>, pc'["async"] = "done" => pc["async"] = "done"
      PROVE  Quiet'
  BY <1>6 DEF Quiet
<1>7. CASE \/ \E timeout \in {"never", "later", "passed"} : mpv_wait_event(timeout)
           \/ RecoverFromOverflow \/ TakeEvent \/ NoEvents \/ ReturnNone \/ TimeOut
           \/ \E t \in {"event", "async"} : EnterWait(t) \/ LeaveWait(t) \/ SpuriousWakeup(t)
           \/ mpv_wait_async_requests \/ AsyncReturns
  <2>1. UNCHANGED <<requests, destroyed>>
    BY <1>7
    DEF mpv_wait_event, RecoverFromOverflow, TakeEvent, NoEvents, ReturnNone, TimeOut,
        EnterWait, LeaveWait, SpuriousWakeup, mpv_wait_async_requests, AsyncReturns, coreVars
  <2>2. pc'["async"] = "done" => pc["async"] = "done"
    BY <1>7, MovedTo
    DEF mpv_wait_event, RecoverFromOverflow, TakeEvent, NoEvents, ReturnNone, TimeOut, Return,
        EnterWait, LeaveWait, SpuriousWakeup, mpv_wait_async_requests, AsyncReturns
  <2>q. QED
    BY <1>6, <2>1, <2>2
<1>8. CASE UNCHANGED vars
  BY <1>8 DEF vars, coreVars, wakeupVars, Quiet
<1>q. QED
  BY <1>1, <1>2, <1>3, <1>4, <1>5, <1>7, <1>8 DEF Next, EventStep, AsyncStep

(* The core has no request of a handle that was destroyed.                 *)
THEOREM DestroyedHasNoRequests == Spec => []NoReplyToDestroyed
<1>1. Init => Quiet
  BY DEF Init, Quiet
<1>2. TypeOK /\ Capacity /\ Quiet /\ [Next]_vars => Quiet'
  BY StepQuiet
<1>3. Quiet => NoReplyToDestroyed
  BY DEF Quiet, NoReplyToDestroyed
<1>q. QED
  BY CapacityHolds, <1>1, <1>2, <1>3, PTL DEF Spec

(***************************************************************************)
(* Replies and events come in order.                                       *)
(***************************************************************************)

(* Only events and replies are queued.                                     *)
KindsKnown == \A i \in DOMAIN events : events[i].type \in {"EVENT", "REPLY"}

Ordered == KindsKnown /\ RepliesInOrder /\ LossReported

(* The numbers of entries are naturals.                                    *)
LEMMA EntryNumbers ==
  ASSUME NEW queue \in Seq(Entries)
  PROVE  \A i \in DOMAIN queue : queue[i].n \in Nat
<1>1. \A e \in Entries : e.n \in Nat
  BY ConstantsAssumption
  DEF ConstantsAssumption, Entries, NoEvent, Overflow, Event, Reply
<1>q. QED
  BY <1>1

(* The first of a queue in order is the next one, and leaves the others.   *)
LEMMA TakenInOrder ==
  ASSUME NEW queue \in Seq(Entries), queue # <<>>,
         NEW type, NEW lo \in Nat, NEW hi \in Nat, InOrder(queue, type, lo, hi)
  PROVE  /\ Head(queue).type = type =>
              Head(queue).n = lo + 1 /\ InOrder(Tail(queue), type, lo + 1, hi)
         /\ Head(queue).type # type => InOrder(Tail(queue), type, lo, hi)
<1> DEFINE all == OfType(queue, type)
           rest == OfType(Tail(queue), type)
<1>1. /\ Len(queue) \in Nat /\ Len(queue) >= 1 /\ DOMAIN queue = 1 .. Len(queue)
      /\ DOMAIN Tail(queue) = 1 .. Len(queue) - 1
      /\ \A i \in 1 .. Len(queue) - 1 : Tail(queue)[i] = queue[i + 1]
      /\ Head(queue) = queue[1]
  OBVIOUS
<1>2. /\ \A i \in rest : i \in Nat \ {0} /\ i + 1 \in all
      /\ \A i \in Nat \ {0} : i + 1 \in all => i \in rest
  BY <1>1 DEF OfType
<1>3. \A i \in rest : Tail(queue)[i] = queue[i + 1]
  BY <1>1 DEF OfType
<1>4. all \subseteq Nat \ {0} /\ (1 \in all <=> Head(queue).type = type)
  BY <1>1 DEF OfType
<1>5. /\ lo <= hi /\ {queue[i].n : i \in all} = lo + 1 .. hi
      /\ \A i, j \in all : i < j => queue[i].n < queue[j].n
      /\ \A i \in all : queue[i].n \in Nat
  BY EntryNumbers DEF InOrder, OfType
<1> HIDE DEF all, rest
<1>6. \A i, j \in rest : i < j => Tail(queue)[i].n < Tail(queue)[j].n
  <2>1. SUFFICES ASSUME NEW i \in rest, NEW j \in rest, i < j
                 PROVE  Tail(queue)[i].n < Tail(queue)[j].n
    OBVIOUS
  <2>2. /\ i \in Nat /\ j \in Nat /\ i + 1 < j + 1
        /\ i + 1 \in all /\ j + 1 \in all
    BY <1>2, <2>1
  <2>q. QED
    BY <1>3, <1>5, <2>2
<1>7. {Tail(queue)[i].n : i \in rest} = {queue[i].n : i \in all \ {1}}
  <2>1. \A i \in all \ {1} : i - 1 \in rest /\ Tail(queue)[i - 1] = queue[i]
    <3>1. \A i \in all \ {1} : i - 1 \in Nat \ {0} /\ (i - 1) + 1 = i
      BY <1>4
    <3>q. QED
      BY <1>2, <1>3, <3>1
  <2>2. ASSUME NEW i \in rest
        PROVE  i + 1 \in all \ {1} /\ Tail(queue)[i] = queue[i + 1]
    <3>1. i \in Nat \ {0} /\ i + 1 \in all
      BY <1>2
    <3>2. i + 1 # 1
      BY <3>1
    <3>q. QED
      BY <1>3, <3>1, <3>2
  <2>3. {Tail(queue)[i].n : i \in rest} \subseteq {queue[i].n : i \in all \ {1}}
    BY <2>2
  <2>4. {queue[i].n : i \in all \ {1}} \subseteq {Tail(queue)[i].n : i \in rest}
    BY <2>1
  <2>q. QED
    BY <2>3, <2>4
<1>8. CASE Head(queue).type = type
  <2>1. 1 \in all /\ \A i \in all \ {1} : queue[1].n < queue[i].n
    BY <1>4, <1>5, <1>8
  <2>2. queue[1].n \in lo + 1 .. hi
    BY <1>5, <2>1
  <2>3. queue[1].n = lo + 1
    <3>1. PICK i \in all : queue[i].n = lo + 1
      <4>1. lo + 1 \in lo + 1 .. hi
        BY <2>2
      <4>2. lo + 1 \in {queue[i].n : i \in all}
        BY <1>5, <4>1
      <4>q. QED
        BY <4>2
    <3>q. QED
      BY <1>5, <2>1, <2>2, <3>1
  <2>4. {queue[i].n : i \in all \ {1}} = lo + 2 .. hi
    <3>1. \A i \in all \ {1} : queue[i].n \in lo + 2 .. hi
      BY <1>5, <2>1, <2>3
    <3>2. \A n \in lo + 2 .. hi : \E i \in all \ {1} : queue[i].n = n
      <4>1. SUFFICES ASSUME NEW n \in lo + 2 .. hi
                     PROVE  \E i \in all \ {1} : queue[i].n = n
        OBVIOUS
      <4>2. n \in lo + 1 .. hi /\ n # lo + 1
        OBVIOUS
      <4>3. n \in {queue[i].n : i \in all}
        BY <1>5, <4>2
      <4>4. PICK i \in all : queue[i].n = n
        BY <4>3
      <4>q. QED
        BY <2>3, <4>2, <4>4
    <3>q. QED
      BY <3>1, <3>2
  <2>5. lo + 1 <= hi /\ lo + 1 + 1 = lo + 2
    BY <2>2
  <2>q. QED
    BY <1>1, <1>6, <1>7, <1>8, <2>3, <2>4, <2>5 DEF InOrder, rest
<1>9. CASE Head(queue).type # type
  <2>1. all \ {1} = all
    BY <1>4, <1>9
  <2>q. QED
    BY <1>5, <1>6, <1>7, <1>9, <2>1 DEF InOrder, rest
<1>q. QED
  BY <1>8, <1>9

(* The next one is appended in order; what is of other types is not        *)
(* disturbed.                                                              *)
LEMMA AppendedInOrder ==
  ASSUME NEW queue \in Seq(Entries), NEW entry \in Entries,
         NEW type, NEW lo \in Nat, NEW hi \in Nat, InOrder(queue, type, lo, hi)
  PROVE  /\ entry.type = type /\ entry.n = hi + 1
              => InOrder(Append(queue, entry), type, lo, hi + 1)
         /\ entry.type # type => InOrder(Append(queue, entry), type, lo, hi)
<1> DEFINE longer == Append(queue, entry)
           last == Len(queue) + 1
           all == OfType(queue, type)
           with == OfType(longer, type)
<1>1. /\ Len(queue) \in Nat /\ DOMAIN queue = 1 .. Len(queue)
      /\ DOMAIN longer = 1 .. last /\ longer[last] = entry
      /\ \A i \in 1 .. Len(queue) : longer[i] = queue[i]
  OBVIOUS
<1>2. /\ lo <= hi /\ {queue[i].n : i \in all} = lo + 1 .. hi
      /\ \A i, j \in all : i < j => queue[i].n < queue[j].n
  BY DEF InOrder
<1> HIDE DEF longer
<1>3. \A i \in all : i \in Nat /\ i < last /\ longer[i] = queue[i]
  BY <1>1 DEF OfType
<1> HIDE DEF last, all, with
<1>4. ASSUME entry.type = type, entry.n = hi + 1
      PROVE  InOrder(longer, type, lo, hi + 1)
  <2>1. with = all \cup {last}
    BY <1>1, <1>4 DEF OfType, with, all, last
  <2>2. longer[last].n = hi + 1
    BY <1>1, <1>4
  <2>3. {longer[i].n : i \in with} = (lo + 1 .. hi) \cup {hi + 1}
    BY <1>2, <1>3, <2>1, <2>2
  <2>4. (lo + 1 .. hi) \cup {hi + 1} = lo + 1 .. hi + 1
    BY <1>2
  <2>5. ASSUME NEW i \in all
        PROVE  queue[i].n < hi + 1
    <3>1. queue[i].n \in lo + 1 .. hi
      BY <1>2
    <3>q. QED
      BY <3>1
  <2>6. ASSUME NEW i \in with, NEW j \in with, i < j
        PROVE  longer[i].n < longer[j].n
    <3>1. i \in all
      BY <1>1, <1>3, <2>1, <2>6 DEF last
    <3>2. CASE j \in all
      BY <1>2, <1>3, <2>6, <3>1, <3>2
    <3>3. CASE j = last
      BY <1>3, <2>2, <2>5, <3>1, <3>3
    <3>q. QED
      BY <2>1, <3>2, <3>3
  <2>q. QED
    <3>1. lo <= hi + 1
      BY <1>2
    <3>q. QED
      BY <2>3, <2>4, <2>6, <3>1 DEF InOrder, with
<1>5. ASSUME entry.type # type
      PROVE  InOrder(longer, type, lo, hi)
  <2>1. with = all
    BY <1>1, <1>5 DEF OfType, with, all, last
  <2>q. QED
    <3>1. /\ {longer[i].n : i \in with} = lo + 1 .. hi
          /\ \A i, j \in with : i < j => longer[i].n < longer[j].n
      BY <1>2, <1>3, <2>1
    <3>q. QED
      BY <1>2, <3>1 DEF InOrder, with
<1>q. QED
  BY <1>4, <1>5 DEF longer

(* What is in the ring buffer after an entry of either kind was appended.  *)
LEMMA AppendedKinds ==
  ASSUME TypeOK, KindsKnown, NEW entry \in Entries, entry.type \in {"EVENT", "REPLY"},
         events' = Append(events, entry)
  PROVE  KindsKnown'
<1>1. /\ Len(events) \in Nat /\ DOMAIN events = 1 .. Len(events)
      /\ DOMAIN events' = 1 .. Len(events) + 1 /\ events'[Len(events) + 1] = entry
      /\ \A i \in 1 .. Len(events) : events'[i] = events[i]
  BY DEF TypeOK
<1>q. QED
  BY <1>1 DEF KindsKnown

(* An event is the next one, or is lost and makes the queue choked.        *)
LEMMA SendEventOrdered ==
  ASSUME TypeOK, Ordered, send_event
  PROVE  Ordered'
<1>1. /\ events \in Seq(Entries) /\ ~destroyed /\ ~destroyed'
      /\ {seen, sent, answered} \subseteq Nat /\ sent' = sent + 1
      /\ UNCHANGED <<requests, requested, seen, answered>>
      /\ Event(sent + 1) \in Entries
  <2>1. /\ events \in Seq(Entries) /\ ~destroyed /\ sent' = sent + 1 /\ sent + 1 \in 1 .. MaxEvents
        /\ {seen, sent, answered} \subseteq Nat
    BY ConstantsAssumption DEF TypeOK, ConstantsAssumption, send_event
  <2>2. UNCHANGED <<requests, requested, seen, answered, destroyed>>
    BY DEF send_event, clientVars
  <2>3. Event(sent + 1) \in Entries
    BY <2>1 DEF Entries
  <2>q. QED
    BY <2>1, <2>2, <2>3
<1>2. CASE choked /\ UNCHANGED <<ringVars, wakeupVars>>
  <2>1. PICK last \in seen .. sent - 1 : InOrder(events, "EVENT", seen, last)
    BY <1>1, <1>2 DEF Ordered, LossReported
  <2>2. last \in seen .. (sent + 1) - 1
    BY <1>1, <2>1
  <2>q. QED
    BY <1>1, <1>2, <2>1, <2>2 DEF ringVars, Ordered, KindsKnown, RepliesInOrder, LossReported
<1>3. CASE ~choked /\ Choke /\ UNCHANGED <<events, reserved_events, wakeupVars>>
  <2>1. InOrder(events, "EVENT", seen, sent)
    BY <1>1, <1>3 DEF Ordered, LossReported
  <2>2. sent \in seen .. (sent + 1) - 1
    BY <1>1, <2>1 DEF InOrder
  <2>q. QED
    BY <1>1, <1>3, <2>1, <2>2 DEF Choke, Ordered, KindsKnown, RepliesInOrder, LossReported
<1>4. CASE ~choked /\ append_event(Event(sent + 1)) /\ UNCHANGED <<reserved_events, choked>>
  <2>1. events' = Append(events, Event(sent + 1))
    BY <1>4 DEF append_event
  <2>2. Event(sent + 1).type = "EVENT" /\ Event(sent + 1).n = sent + 1
    BY DEF Event
  <2>3. KindsKnown'
    BY <1>1, <2>1, <2>2, AppendedKinds DEF Ordered
  <2>4. InOrder(events', "EVENT", seen, sent + 1)
    BY <1>1, <1>4, <2>1, <2>2, AppendedInOrder DEF Ordered, LossReported
  <2>5. RepliesInOrder'
    <3>1. InOrder(events, "REPLY", answered, requested - Len(requests))
      BY <1>1 DEF Ordered, RepliesInOrder
    <3>2. requested - Len(requests) \in Nat
      <4>1. requested \in Nat /\ Len(requests) \in Nat
        BY ConstantsAssumption DEF TypeOK, ConstantsAssumption
      <4>2. answered <= requested - Len(requests)
        BY <3>1 DEF InOrder
      <4>q. QED
        BY <1>1, <4>1, <4>2
    <3>3. InOrder(events', "REPLY", answered, requested - Len(requests))
      BY <1>1, <2>1, <2>2, <3>1, <3>2, AppendedInOrder
    <3>q. QED
      BY <1>1, <3>3 DEF Ordered, RepliesInOrder
  <2>q. QED
    BY <1>1, <1>4, <2>3, <2>4, <2>5 DEF Ordered, LossReported
<1>q. QED
  BY <1>2, <1>3, <1>4 DEF send_event

(* The core replies to the first of the requests it has.                   *)
LEMMA SendReplyOrdered ==
  ASSUME TypeOK, Capacity, Ordered, send_reply
  PROVE  Ordered'
<1> DEFINE replied == requested - Len(requests)
<1>1. /\ events \in Seq(Entries) /\ requests \in Seq(1 .. MaxRequests) /\ requests # <<>>
      /\ requests' = Tail(requests)
      /\ {seen, sent, answered, requested} \subseteq Nat
      /\ UNCHANGED <<choked, sent, requested, seen, answered, destroyed>>
  BY ConstantsAssumption DEF TypeOK, ConstantsAssumption, send_reply, clientVars
<1>2. /\ Len(requests) \in Nat /\ Len(requests) >= 1
      /\ DOMAIN requests = 1 .. Len(requests) /\ Head(requests) = requests[1]
      /\ Len(requests') = Len(requests) - 1 /\ DOMAIN requests' = 1 .. Len(requests) - 1
      /\ \A i \in 1 .. Len(requests) - 1 : requests'[i] = requests[i + 1]
  BY <1>1
<1>3. events' = Append(events, Reply(Head(requests)))
  BY ConstantsAssumption
     DEF send_reply, append_event, Capacity, TypeOK, ConstantsAssumption
<1>4. /\ Reply(Head(requests)) \in Entries /\ Reply(Head(requests)).type = "REPLY"
      /\ Reply(Head(requests)).n = requests[1]
  <2>1. Head(requests) \in 1 .. MaxRequests
    <3>1. /\ requests \in Seq(1 .. MaxRequests) /\ Len(requests) > 0 /\ MaxRequests \in Nat
      BY <1>1, <1>2, ConstantsAssumption DEF ConstantsAssumption
    <3>2. 1 \in 1 .. Len(requests)
      BY <1>2
    <3>3. requests \in [1 .. Len(requests) -> 1 .. MaxRequests]
      BY <3>1
    <3>q. QED
      BY <1>2, <3>2, <3>3
  <2>q. QED
    BY <1>2, <2>1 DEF Entries, Reply
<1>5. KindsKnown'
  BY <1>3, <1>4, AppendedKinds DEF Ordered
<1>6. RepliesInOrder'
  <2>1. SUFFICES ASSUME ~destroyed
                 PROVE  /\ InOrder(events', "REPLY", answered, requested - Len(requests'))
                        /\ \A i \in DOMAIN requests' :
                             requests'[i] = requested - Len(requests') + i
    BY <1>1 DEF RepliesInOrder
  <2>2. /\ InOrder(events, "REPLY", answered, replied)
        /\ \A i \in DOMAIN requests : requests[i] = replied + i
    BY <2>1 DEF Ordered, RepliesInOrder
  <2>3. replied \in Nat /\ requests[1] = replied + 1
    <3>1. answered <= replied
      BY <2>2 DEF InOrder
    <3>q. QED
      BY <1>1, <1>2, <2>2, <3>1
  <2> HIDE DEF replied
  <2>4. InOrder(events', "REPLY", answered, replied + 1)
    BY <1>1, <1>3, <1>4, <2>2, <2>3, AppendedInOrder
  <2>5. requested - Len(requests') = replied + 1
    BY <1>1, <1>2 DEF replied
  <2>6. ASSUME NEW i \in 1 .. Len(requests) - 1
        PROVE  requests'[i] = replied + 1 + i
    <3>1. i + 1 \in DOMAIN requests /\ i \in Nat
      BY <1>2
    <3>2. requests'[i] = replied + (i + 1)
      BY <1>2, <2>2, <3>1
    <3>q. QED
      BY <2>3, <3>1, <3>2
  <2>q. QED
    BY <1>2, <2>4, <2>5, <2>6
<1>7. LossReported'
  <2>1. ASSUME NEW hi \in Nat, InOrder(events, "EVENT", seen, hi)
        PROVE  InOrder(events', "EVENT", seen, hi)
    BY <1>1, <1>3, <1>4, <2>1, AppendedInOrder
  <2>2. seen .. sent - 1 \subseteq Nat
    BY <1>1
  <2>q. QED
    BY <1>1, <2>1, <2>2 DEF Ordered, LossReported
<1>q. QED
  BY <1>5, <1>6, <1>7 DEF Ordered

(* The client takes the first entry, an event or a reply.                  *)
LEMMA TakeEventOrdered ==
  ASSUME TypeOK, Ordered, TakeEvent
  PROVE  Ordered'
<1> DEFINE replied == requested - Len(requests)
<1>1. /\ events \in Seq(Entries) /\ events # <<>> /\ events' = Tail(events)
      /\ {seen, sent, answered, requested} \subseteq Nat /\ Len(requests) \in Nat
      /\ UNCHANGED <<choked, requests, sent, requested, destroyed>>
      /\ IF Head(events).type = "REPLY"
           THEN answered' = Head(events).n /\ seen' = seen
           ELSE seen' = Head(events).n /\ answered' = answered
  BY ConstantsAssumption DEF TypeOK, ConstantsAssumption, TakeEvent, coreVars
<1>2. /\ Head(events).type \in {"EVENT", "REPLY"}
      /\ \A i \in DOMAIN events' : events'[i].type \in {"EVENT", "REPLY"}
  <2>1. /\ Len(events) \in Nat /\ Len(events) >= 1 /\ DOMAIN events = 1 .. Len(events)
        /\ DOMAIN events' = 1 .. Len(events) - 1 /\ Head(events) = events[1]
        /\ \A i \in 1 .. Len(events) - 1 : events'[i] = events[i + 1]
    BY <1>1
  <2>2. \A i \in 1 .. Len(events) - 1 : i + 1 \in DOMAIN events
    BY <2>1
  <2>q. QED
    BY <2>1, <2>2 DEF Ordered, KindsKnown
<1>3. CASE destroyed
  BY <1>1, <1>2, <1>3 DEF Ordered, KindsKnown, RepliesInOrder, LossReported
<1>4. CASE ~destroyed /\ Head(events).type = "REPLY"
  <2>1. /\ InOrder(events, "REPLY", answered, replied)
        /\ \A i \in DOMAIN requests : requests[i] = replied + i
    BY <1>4 DEF Ordered, RepliesInOrder
  <2>2. answered <= replied /\ replied \in Int
    BY <1>1, <2>1 DEF InOrder
  <2>3. replied \in Nat
    BY <1>1, <2>2
  <2> HIDE DEF replied
  <2>4. answered' = answered + 1 /\ InOrder(events', "REPLY", answered + 1, replied)
    BY <1>1, <1>4, <2>1, <2>3, TakenInOrder
  <2>5. ASSUME NEW hi \in Nat, InOrder(events, "EVENT", seen, hi)
        PROVE  InOrder(events', "EVENT", seen, hi)
    BY <1>1, <1>4, <2>5, TakenInOrder
  <2>6. seen .. sent - 1 \subseteq Nat
    BY <1>1
  <2>7. LossReported'
    BY <1>1, <1>4, <2>5, <2>6 DEF Ordered, LossReported
  <2>8. RepliesInOrder'
    BY <1>1, <2>1, <2>4 DEF RepliesInOrder, replied
  <2>q. QED
    BY <1>2, <2>7, <2>8 DEF Ordered, KindsKnown
<1>5. CASE ~destroyed /\ Head(events).type = "EVENT"
  <2>1. ASSUME NEW hi \in Nat, InOrder(events, "EVENT", seen, hi)
        PROVE  seen' = seen + 1 /\ seen' <= hi /\ InOrder(events', "EVENT", seen', hi)
    <3>1. Head(events).n = seen + 1 /\ InOrder(events', "EVENT", seen + 1, hi)
      BY <1>1, <1>5, <2>1, TakenInOrder
    <3>2. seen' = seen + 1
      BY <1>1, <1>5, <3>1
    <3>q. QED
      BY <3>1, <3>2 DEF InOrder
  <2>2. LossReported'
    <3>1. CASE choked
      <4>1. PICK last \in seen .. sent - 1 : InOrder(events, "EVENT", seen, last)
        BY <1>5, <3>1 DEF Ordered, LossReported
      <4>2. last \in Nat
        BY <1>1
      <4>3. last \in seen' .. sent - 1 /\ InOrder(events', "EVENT", seen', last)
        BY <1>1, <2>1, <4>1, <4>2
      <4>q. QED
        BY <1>1, <3>1, <4>3 DEF LossReported
    <3>2. CASE ~choked
      BY <1>1, <1>5, <2>1, <3>2 DEF Ordered, LossReported
    <3>q. QED
      BY <3>1, <3>2
  <2>3. RepliesInOrder'
    <3>1. /\ InOrder(events, "REPLY", answered, replied)
          /\ \A i \in DOMAIN requests : requests[i] = replied + i
      BY <1>5 DEF Ordered, RepliesInOrder
    <3>2. answered <= replied /\ replied \in Int
      BY <1>1, <3>1 DEF InOrder
    <3>3. replied \in Nat
      BY <1>1, <3>2
    <3> HIDE DEF replied
    <3>4. InOrder(events', "REPLY", answered, replied) /\ answered' = answered
      BY <1>1, <1>5, <3>1, <3>3, TakenInOrder
    <3>q. QED
      BY <1>1, <3>1, <3>4 DEF RepliesInOrder, replied
  <2>q. QED
    BY <1>2, <2>2, <2>3 DEF Ordered, KindsKnown
<1>q. QED
  BY <1>2, <1>3, <1>4, <1>5

(* A request that is accepted is the next one.                             *)
LEMMA RunAsyncOrdered ==
  ASSUME TypeOK, Ordered, run_async
  PROVE  Ordered'
<1>1. /\ requests \in Seq(1 .. MaxRequests) /\ requested \in Nat
      /\ requested' = requested + 1 /\ requests' = Append(requests, requested + 1)
      /\ UNCHANGED <<events, choked, sent, seen, answered, destroyed>>
  BY ConstantsAssumption DEF TypeOK, ConstantsAssumption, run_async, clientVars
<1>2. /\ Len(requests) \in Nat /\ DOMAIN requests = 1 .. Len(requests)
      /\ Len(requests') = Len(requests) + 1 /\ DOMAIN requests' = 1 .. Len(requests) + 1
      /\ requests'[Len(requests) + 1] = requested + 1
      /\ \A i \in 1 .. Len(requests) : requests'[i] = requests[i]
  BY <1>1
<1>3. requested' - Len(requests') = requested - Len(requests)
  BY <1>1, <1>2
<1>4. requests'[Len(requests) + 1] = (requested - Len(requests)) + (Len(requests) + 1)
  BY <1>1, <1>2
<1>5. RepliesInOrder'
  BY <1>1, <1>2, <1>3, <1>4 DEF Ordered, RepliesInOrder
<1>q. QED
  BY <1>1, <1>5 DEF Ordered, KindsKnown, LossReported

(* Nothing is queued, and nothing was lost that was not reported.          *)
LEMMA RecoverOrdered ==
  ASSUME TypeOK, Ordered, RecoverFromOverflow
  PROVE  Ordered'
<1>1. /\ events = <<>> /\ events' = <<>> /\ ~choked' /\ seen' = sent /\ sent' = sent
      /\ sent \in Nat
      /\ UNCHANGED <<requests, requested, answered, destroyed>>
  BY ConstantsAssumption DEF TypeOK, ConstantsAssumption, RecoverFromOverflow, coreVars
<1>2. InOrder(<<>>, "EVENT", sent, sent)
  BY <1>1 DEF InOrder, OfType
<1>q. QED
  BY <1>1, <1>2 DEF Ordered, KindsKnown, RepliesInOrder, LossReported

(* Every step keeps the order.                                             *)
LEMMA StepOrdered ==
  ASSUME TypeOK, Capacity, Ordered, [Next]_vars
  PROVE  Ordered'
<1>1. ASSUME UNCHANGED <<events, choked, requests, sent, requested, seen, answered, destroyed>>
      PROVE  Ordered'
  BY <1>1 DEF Ordered, KindsKnown, RepliesInOrder, LossReported
<1>2. CASE mpv_detach_destroy
  BY <1>2 DEF mpv_detach_destroy, Ordered, KindsKnown, RepliesInOrder, LossReported
<1>3. CASE \/ mpv_wakeup \/ NoEvents \/ ReturnNone \/ TimeOut
           \/ \E timeout \in {"never", "later", "passed"} : mpv_wait_event(timeout)
           \/ mpv_wait_async_requests \/ AwaitReplies \/ AsyncReturns
           \/ \E t \in {"event", "async"} : EnterWait(t) \/ LeaveWait(t) \/ SpuriousWakeup(t)
  BY <1>1, <1>3
  DEF mpv_wakeup, NoEvents, ReturnNone, TimeOut, mpv_wait_event, mpv_wait_async_requests,
      AwaitReplies, AsyncReturns, EnterWait, LeaveWait, SpuriousWakeup, Return,
      ringVars, coreVars, clientVars
<1>4. CASE UNCHANGED vars
  BY <1>1, <1>4 DEF vars, ringVars, coreVars, clientVars
<1>q. QED
  BY <1>2, <1>3, <1>4, SendEventOrdered, SendReplyOrdered, TakeEventOrdered,
     RunAsyncOrdered, RecoverOrdered
  DEF Next, EventStep, AsyncStep

(* At first nothing is queued.                                             *)
LEMMA InitialOrder == Init => Ordered
<1>1. SUFFICES ASSUME Init
               PROVE  Ordered
  OBVIOUS
<1>2. InOrder(<<>>, "EVENT", 0, 0) /\ InOrder(<<>>, "REPLY", 0, 0)
  BY DEF InOrder, OfType
<1>q. QED
  BY <1>1, <1>2 DEF Init, Ordered, KindsKnown, RepliesInOrder, LossReported

(* The entries of the ring buffer follow what the client has read.         *)
THEOREM OrderHolds == Spec => []Ordered
<1>1. TypeOK /\ Capacity /\ Ordered /\ [Next]_vars => Ordered'
  BY StepOrdered
<1>q. QED
  BY InitialOrder, CapacityHolds, <1>1, PTL DEF Spec

(* Every accepted request is answered once, in order, whatever overflows.  *)
THEOREM RepliesComeInOrder == Spec => []RepliesInOrder
<1>1. Ordered => RepliesInOrder
  BY DEF Ordered
<1>q. QED
  BY <1>1, OrderHolds, PTL

(* The client misses no event unless it will read QUEUE_OVERFLOW first.    *)
THEOREM LossesAreReported == Spec => []LossReported
<1>1. Ordered => LossReported
  BY DEF Ordered
<1>q. QED
  BY <1>1, OrderHolds, PTL

(***************************************************************************)
(* The callback announces what is left to read.                            *)
(***************************************************************************)

(* A client that goes away empty-handed leaves need_wakeup clear, so that  *)
(* the next wakeup calls it back.                                          *)
Announced ==
  /\ pc["event"] = "timedout" /\ ~called => events = <<>> /\ ~need_wakeup
  /\ pc["event"] = "idle" /\ cur_event = NoEvent /\ ~called
       => events = <<>> /\ ~queued_wakeup /\ ~need_wakeup

(* wakeup_client calls back, or has, or need_wakeup was set.               *)
LEMMA WakeupAnnounces ==
  ASSUME TypeOK, Announced, wakeup_client, cur_event' = cur_event
  PROVE  Announced'
<1>1. CASE need_wakeup
  <2>1. UNCHANGED <<pc, called>>
    BY <1>1 DEF wakeup_client, wakeupVars
  <2>2. called \/ (pc["event"] # "timedout" /\ (pc["event"] # "idle" \/ cur_event # NoEvent))
    BY <1>1 DEF Announced
  <2>q. QED
    BY <2>1, <2>2 DEF Announced
<1>2. CASE ~need_wakeup
  BY <1>2 DEF wakeup_client, Announced
<1>q. QED
  BY <1>1, <1>2

(* Every step leaves the client called back, or without anything to read.  *)
LEMMA StepAnnounced ==
  ASSUME TypeOK, Capacity, Wakes, Ordered, ~Concurrent, Announced, [Next]_vars
  PROVE  Announced'
<1>1. CASE send_event
  <2>1. cur_event' = cur_event /\ queued_wakeup' = queued_wakeup
    BY <1>1 DEF send_event, clientVars
  <2>2. wakeup_client \/ UNCHANGED <<events, wakeupVars>>
    BY <1>1 DEF send_event, append_event, ringVars
  <2>q. QED
    BY <2>1, <2>2, WakeupAnnounces DEF Announced, wakeupVars
<1>2. CASE send_reply
  <2>1. wakeup_client
    BY <1>2, ConstantsAssumption
       DEF send_reply, append_event, Capacity, TypeOK, ConstantsAssumption
  <2>q. QED
    BY <1>2, <2>1, WakeupAnnounces DEF send_reply, clientVars
<1>3. CASE mpv_wakeup
  BY <1>3, WakeupAnnounces DEF mpv_wakeup
<1>4. CASE run_async \/ mpv_detach_destroy
  BY <1>4 DEF run_async, mpv_detach_destroy, wakeupVars, clientVars, Announced
<1>5. ASSUME pc'["event"] \notin {"timedout", "idle"}
      PROVE  Announced'
  BY <1>5 DEF Announced
<1>6. CASE \/ \E timeout \in {"never", "later", "passed"} : mpv_wait_event(timeout)
           \/ NoEvents \/ LeaveWait("event") \/ SpuriousWakeup("event")
  <2>1. pc'["event"] \in {"loop", "wait", "woken"}
    BY <1>6, MovedTo DEF mpv_wait_event, NoEvents, LeaveWait, SpuriousWakeup
  <2>q. QED
    BY <1>5, <2>1
<1>7. CASE RecoverFromOverflow \/ TakeEvent
  <2>1. cur_event' # NoEvent
    <3>1. CASE RecoverFromOverflow
      BY <3>1 DEF RecoverFromOverflow, Return, Overflow, NoEvent
    <3>2. CASE TakeEvent
      <4>1. events # <<>> /\ cur_event' = Head(events)
        BY <3>2 DEF TakeEvent, Return
      <4>2. 1 \in DOMAIN events /\ Head(events) = events[1]
        BY <4>1 DEF TypeOK
      <4>3. events[1].type \in {"EVENT", "REPLY"}
        BY <4>2 DEF Ordered, KindsKnown
      <4>q. QED
        BY <4>1, <4>2, <4>3 DEF NoEvent
    <3>q. QED
      BY <1>7, <3>1, <3>2
  <2>2. pc'["event"] = "idle"
    BY <1>7, MovedTo DEF RecoverFromOverflow, TakeEvent, Return
  <2>q. QED
    BY <2>1, <2>2 DEF Announced
<1>8. CASE ReturnNone
  <2>1. /\ pc["event"] = "timedout" /\ pc'["event"] = "idle" /\ queued_wakeup' = FALSE
        /\ UNCHANGED <<events, need_wakeup, called>>
    BY <1>8, MovedTo DEF ReturnNone, Return, ringVars
  <2>q. QED
    BY <2>1 DEF Announced
<1>9. CASE TimeOut
  <2>1. /\ pc["event"] = "blocked" /\ pc'["event"] = "timedout"
        /\ UNCHANGED <<events, need_wakeup, called>>
    BY <1>9, MovedTo DEF TimeOut, ringVars
  <2>q. QED
    BY <2>1 DEF Announced, Wakes, EventWaits
<1>10. CASE EnterWait("event")
  <2>1. /\ pc["event"] = "wait" /\ pc'["event"] \in {"loop", "timedout", "blocked"}
        /\ pc'["event"] = "timedout" => ~need_wakeup /\ UNCHANGED need_wakeup
        /\ UNCHANGED <<events, called>>
    BY <1>10, MovedTo DEF EnterWait, ringVars
  <2>q. QED
    BY <2>1 DEF Announced, Wakes, EventWaits
<1>11. CASE \/ mpv_wait_async_requests \/ AwaitReplies \/ AsyncReturns
            \/ EnterWait("async") \/ LeaveWait("async") \/ SpuriousWakeup("async")
  <2>1. pc'["event"] = pc["event"] /\ UNCHANGED <<events, called, queued_wakeup, cur_event>>
    BY <1>11, MovedTo
    DEF mpv_wait_async_requests, AwaitReplies, AsyncReturns, EnterWait, LeaveWait,
        SpuriousWakeup, ringVars, clientVars
  <2>2. need_wakeup' = need_wakeup \/ need_wakeup' = FALSE
    BY <1>11
    DEF mpv_wait_async_requests, AwaitReplies, AsyncReturns, EnterWait, LeaveWait,
        SpuriousWakeup
  <2>q. QED
    BY <2>1, <2>2 DEF Announced
<1>12. CASE UNCHANGED vars
  BY <1>12 DEF vars, ringVars, wakeupVars, clientVars, Announced
<1>q. QED
  BY <1>1, <1>2, <1>3, <1>4, <1>6, <1>7, <1>8, <1>9, <1>10, <1>11, <1>12
  DEF Next, EventStep, AsyncStep

(* Unless two threads wait at once, a client that found nothing and was    *)
(* not called back has nothing to read.                                    *)
THEOREM CallbacksAnnounce == Spec => [](~Concurrent => CallbackAnnounces)
<1> DEFINE W == ~Concurrent => Wakes
           A == ~Concurrent => Announced
<1>1. Init => W /\ A
  BY DEF Init, Wakes, OneWaits, EventWaits, AsyncWaits, Announced
<1>2. TypeOK /\ Capacity /\ W /\ [Next]_vars => W'
  BY StepWakes
<1>3. TypeOK /\ Capacity /\ W /\ Ordered /\ A /\ [Next]_vars => A'
  BY StepAnnounced
<1>4. A => (~Concurrent => CallbackAnnounces)
  BY DEF Announced, CallbackAnnounces
<1> HIDE DEF W, A
<1>q. QED
  BY CapacityHolds, OrderHolds, <1>1, <1>2, <1>3, <1>4, PTL DEF Spec

(* The three together, as the run of ClientEvents checks them.             *)
THEOREM RepliesAreSafe == Spec => []RepliesSafe
<1>1. TypeOK /\ ReplyFits /\ NoReplyToDestroyed => RepliesSafe
  BY DEF RepliesSafe
<1>q. QED
  BY TypeCorrect, RepliesFit, DestroyedHasNoRequests, <1>1, PTL
=============================================================================
