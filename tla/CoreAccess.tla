----------------------------- MODULE CoreAccess -----------------------------
(***************************************************************************)
(* What the dispatch queue promises its users: the state of the target     *)
(* thread (MPContext, for the playback core) has one holder at a time.     *)
(* It is the target thread's own code until that stops in                  *)
(* mp_dispatch_queue_process; then it is handed to callbacks and to client *)
(* threads, each of which gives it back before the next gets it.           *)
(***************************************************************************)
CONSTANTS
  Threads,  \* the client threads
  Core,     \* the target thread, when it runs a callback
  Player,   \* the target thread, when it runs its own code
  None      \* nobody: the target thread waits in the queue

VARIABLE holder

Users == Threads \cup {Core, Player}

Init == holder = Player

(* The target thread enters the queue, or anyone else is done.             *)
Release ==
  /\ holder \in Users
  /\ holder' = None

(* A callback or a client thread starts, or the target thread goes on.     *)
Acquire ==
  /\ holder = None
  /\ holder' \in Users

Next == Release \/ Acquire

Spec == Init /\ [][Next]_holder
=============================================================================
