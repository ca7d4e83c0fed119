-------------------------- MODULE PropertyObserver --------------------------
(***************************************************************************)
(* Observed properties of one mpv_handle (player/client.c).  The core      *)
(* marks the observers of a property that changes; the client, when it     *)
(* reads its events, has the core fetch the new value (update_prop, queued *)
(* in the dispatch queue) and then reports it; and it observes, unobserves *)
(* and finally destroys its handle meanwhile.                              *)
(*                                                                         *)
(* Granularity.  A region under ctx->lock is one action; update_prop reads *)
(* the value before it takes that lock, and the global event mask is       *)
(* invalidated after it is given up.  How a client sleeps and is woken is  *)
(* module ClientEvents; here one flag says that there was a wakeup.  A     *)
(* value is the number of changes of the property; 0 is no valid value.    *)
(***************************************************************************)
EXTENDS Integers, Sequences, FiniteSets, FiniteSetsExt, SequencesExt

CONSTANTS
  Names,         \* the properties
  MaxObservers,  \* bound: calls of mpv_observe_property
  MaxChanges     \* bound: changes of one property

ASSUME ConstantsAssumption ==
  /\ Names # {}
  /\ MaxObservers \in Nat \ {0}
  /\ MaxChanges \in Nat \ {0}

Observers == 1 .. MaxObservers
Values == 0 .. MaxChanges

VARIABLES
  value,         \* values of the properties in the core
  core,          \* what the core is doing
  queue,         \* update_prop requests in the core's dispatch queue
  properties,    \* the observers, in the order of ctx->properties
  prop,          \* struct observe_property
  lowest_changed,
  properties_updating,
  property_event_masks,
  event_masks,   \* the cache of mp_client_api, {} when unknown
  pc,            \* where the client is
  need_wakeup,
  attached,      \* observers that are freed with the current event
  freed,
  observed,      \* history: number of observers there have been
  told           \* history: the value an observer knows, or knows to have changed

coreVars == <<value, core>>
propVars == <<properties, prop, lowest_changed, properties_updating>>
maskVars == <<property_event_masks, event_masks>>
lifeVars == <<attached, freed, observed>>
vars == <<coreVars, queue, propVars, maskVars, pc, need_wakeup, lifeVars, told>>

NewObserver(n, format) ==
  [name |-> n, format |-> format, changed |-> TRUE, need_new_value |-> TRUE,
   updating |-> FALSE, dead |-> FALSE, new_value |-> 0, user_value |-> 0]
Unused == NewObserver(CHOOSE n \in Names : TRUE, FALSE)
Idle == [at |-> "idle"]
Undefined == [at |-> "undefined"]   \* it has used a freed observer

Init ==
  /\ value \in [Names -> {0, 1}]
  /\ core = Idle
  /\ queue = <<>>
  /\ properties = <<>>
  /\ prop = [o \in Observers |-> Unused]
  /\ lowest_changed = 1
  /\ properties_updating = 0
  /\ property_event_masks = {} /\ event_masks = {}
  /\ pc = "idle"
  /\ need_wakeup = FALSE
  /\ attached = {} /\ freed = {} /\ observed = 0
  /\ told = [o \in Observers |-> 0]

(***************************************************************************)
(* The core                                                                *)
(***************************************************************************)

(* A property changes while nobody else has the core.                      *)
ChangeProperty(n) ==
  /\ core = Idle
  /\ value[n] < MaxChanges
  /\ value' = [value EXCEPT ![n] = @ + 1]
  /\ core' = [at |-> "notify", name |-> n]
  /\ UNCHANGED <<queue, propVars, maskVars, pc, need_wakeup, lifeVars, told>>

(* mark_property_changed                                                   *)
Mark(p) ==
  IF p.changed \/ p.need_new_value THEN p
  ELSE [p EXCEPT !.changed = TRUE, !.need_new_value = p.format]

(* mp_client_property_change, or notify_property_events: all observers of  *)
(* the property are marked, and the client is woken if it has anything to  *)
(* do.                                                                     *)
MarkObservers(n) ==
  LET marked == {i \in DOMAIN properties :
                   LET p == prop[properties[i]] IN p.name = n /\ Mark(p) # p}
  IN /\ prop' = [o \in Observers |->
                   IF \E i \in marked : properties[i] = o THEN Mark(prop[o]) ELSE prop[o]]
     /\ lowest_changed' = Min(marked \cup {lowest_changed})
     /\ need_wakeup' = (need_wakeup \/ lowest_changed' <= Len(properties))
     /\ UNCHANGED <<properties, properties_updating>>

(* The core announces the change directly, or sends an event that stands   *)
(* for it, but only if it finds that a client wants it                     *)
(* (mp_client_event_is_registered, which updates the cache if it must).    *)
Combined == IF event_masks = {} THEN property_event_masks ELSE event_masks

SendEvent(n) ==
  /\ event_masks' = Combined
  /\ IF n \in Combined THEN MarkObservers(n) ELSE UNCHANGED <<propVars, need_wakeup>>

Notify ==
  /\ core.at = "notify"
  /\ core' = Idle
  /\ \/ MarkObservers(core.name) /\ UNCHANGED event_masks
     \/ SendEvent(core.name)
  /\ UNCHANGED <<value, queue, property_event_masks, pc, lifeVars, told>>

(* update_prop: the core comes to the request and gets the value ...       *)
FetchValue ==
  /\ core = Idle /\ queue # <<>>
  /\ LET o == Head(queue)
     IN core' = IF o \in freed THEN Undefined
                ELSE [at |-> "store", prop |-> o, value |-> value[prop[o].name]]
  /\ queue' = Tail(queue)
  /\ UNCHANGED <<value, propVars, maskVars, pc, need_wakeup, lifeVars, told>>

NewValue(p, v) ==
  [p EXCEPT !.updating = FALSE, !.new_value = v,
            !.changed = p.changed \/ p.user_value # v]

(* ... and stores it, under the client's lock.                             *)
StoreValue ==
  /\ core.at = "store"
  /\ IF core.prop \in freed
       THEN core' = Undefined /\ UNCHANGED <<propVars, need_wakeup, attached>>
       ELSE /\ core' = Idle
            /\ properties_updating' = properties_updating - 1
            /\ prop' = [prop EXCEPT ![core.prop] = NewValue(@, core.value)]
            /\ attached' = IF prop[core.prop].dead THEN attached \cup {core.prop} ELSE attached
            /\ need_wakeup' = TRUE
            /\ UNCHANGED <<properties, lowest_changed>>
  /\ UNCHANGED <<value, queue, maskVars, pc, freed, observed, told>>

(***************************************************************************)
(* The client                                                              *)
(***************************************************************************)
MasksOf(os) == {prop[o].name : o \in os}

mpv_observe_property(n, format) ==
  /\ pc = "idle"
  /\ observed < MaxObservers
  /\ observed' = observed + 1
  /\ prop' = [prop EXCEPT ![observed'] = NewObserver(n, format)]
  /\ properties' = Append(properties, observed')
  /\ property_event_masks' = property_event_masks \cup {n}
  /\ lowest_changed' = 1
  /\ pc' = "invalidate"
  /\ UNCHANGED <<coreVars, queue, properties_updating, event_masks, need_wakeup, attached,
                 freed, told>>

(* An observer that is being updated stays until that is done, any other   *)
(* goes with the current event.  The mask of one that is not dead is kept. *)
mpv_unobserve_property(o) ==
  /\ pc = "idle"
  /\ \E i \in DOMAIN properties :
       properties[i] = o /\ properties' = RemoveAt(properties, i)
  /\ prop' = [prop EXCEPT ![o].dead = prop[o].updating]
  /\ attached' = IF prop[o].updating THEN attached ELSE attached \cup {o}
  /\ property_event_masks' =
       MasksOf({p \in Range(properties) : p # o \/ ~prop[o].updating})
  /\ lowest_changed' = 1
  /\ pc' = "invalidate"
  /\ UNCHANGED <<coreVars, queue, properties_updating, event_masks, need_wakeup, freed,
                 observed, told>>

(* invalidate_global_event_mask                                            *)
KeepGlobalMask == UNCHANGED event_masks
InvalidateGlobalMask == event_masks' = {}

Invalidate ==
  /\ pc = "invalidate"
  /\ InvalidateGlobalMask
  /\ pc' = "idle"
  /\ UNCHANGED <<coreVars, queue, propVars, property_event_masks, need_wakeup, lifeVars, told>>

(* gen_property_change_event goes through the observers from               *)
(* lowest_changed to the first it can report, has a value fetched for each *)
(* that needs one, and starts from the first of them the next time.        *)
Reportable(p) == p.changed /\ ~(p.format /\ p.need_new_value)

Visited ==
  LET reportable == {i \in DOMAIN properties : i >= lowest_changed
                                               /\ Reportable(prop[properties[i]])}
  IN {i \in DOMAIN properties : i >= lowest_changed /\ \A r \in reportable : i <= r}

LowestUpdating(visited) ==
  Min({i \in visited : prop[properties[i]].updating} \cup {Len(properties) + 1})

LowestPending(visited) ==
  Min({i \in visited : LET p == prop[properties[i]] IN p.changed \/ p.updating}
      \cup {Len(properties) + 1})

CountedOnce(fetch) == IF fetch = {} THEN properties_updating ELSE properties_updating + 1
Counted(fetch) == properties_updating + Cardinality(fetch)

(* The observers of a set in the order of ctx->properties.                 *)
InOrder(os) ==
  LET places == {i \in DOMAIN properties : properties[i] \in os}
      UpTo(i) == {j \in places : j <= i}
  IN [k \in 1 .. Cardinality(os) |-> properties[CHOOSE i \in places : Cardinality(UpTo(i)) = k]]

Told(p) == IF p.format THEN p.new_value ELSE value[p.name]

GenPropertyChangeEvent ==
  LET visited == {properties[i] : i \in Visited}
      report == {o \in visited : Reportable(prop[o])}
      fetch == {o \in visited : prop[o].changed} \ report
  IN /\ lowest_changed' = LowestPending(Visited)
     /\ prop' = [o \in Observers |->
                   IF o \in report
                     THEN [prop[o] EXCEPT !.changed = FALSE, !.need_new_value = FALSE,
                                          !.user_value = prop[o].new_value]
                   ELSE IF o \in fetch
                     THEN [prop[o] EXCEPT !.changed = FALSE, !.need_new_value = FALSE,
                                          !.updating = TRUE]
                   ELSE prop[o]]
     /\ properties_updating' = Counted(fetch)
     /\ queue' = queue \o InOrder(fetch)
     /\ told' = [o \in Observers |-> IF o \in report THEN Told(prop[o]) ELSE told[o]]
     /\ pc' = IF report = {} THEN "waiting" ELSE "idle"
     /\ UNCHANGED properties

(* mpv_wait_event frees what belongs to the event before, and returns an   *)
(* event or goes to sleep, and looks again when it is woken.               *)
mpv_wait_event ==
  /\ pc = "idle"
  /\ GenPropertyChangeEvent
  /\ freed' = freed \cup attached
  /\ attached' = {}
  /\ UNCHANGED <<coreVars, maskVars, need_wakeup, observed>>

WaitWoken ==
  /\ pc = "waiting" /\ need_wakeup
  /\ need_wakeup' = FALSE
  /\ GenPropertyChangeEvent
  /\ UNCHANGED <<coreVars, maskVars, lifeVars>>

WaitTimesOut ==
  /\ pc = "waiting"
  /\ pc' = "idle"
  /\ UNCHANGED <<coreVars, queue, propVars, maskVars, need_wakeup, lifeVars, told>>

(* mpv_detach_destroy waits until no value is being updated.               *)
mpv_detach_destroy ==
  /\ pc = "idle"
  /\ pc' = "destroying"
  /\ UNCHANGED <<coreVars, queue, propVars, maskVars, need_wakeup, lifeVars, told>>

NoObserverUpdating == \A i \in DOMAIN properties : ~prop[properties[i]].updating
NoneUpdating == properties_updating = 0

DestroyDone ==
  /\ pc = "destroying"
  /\ NoneUpdating
  /\ pc' = "destroyed"
  /\ properties' = <<>>
  /\ UNCHANGED <<coreVars, queue, prop, lowest_changed, properties_updating, maskVars,
                 need_wakeup, lifeVars, told>>

(***************************************************************************)
(* The specification.  A core that has used a freed observer does nothing  *)
(* more: what it would do is not defined.                                  *)
(***************************************************************************)
CoreStep == Notify \/ FetchValue \/ StoreValue
Reads == mpv_wait_event \/ WaitWoken \/ Invalidate
UserStep ==
  \/ \E n \in Names, format \in BOOLEAN : mpv_observe_property(n, format)
  \/ \E o \in Observers : mpv_unobserve_property(o)
  \/ WaitTimesOut \/ mpv_detach_destroy

Stopped == (pc = "destroyed" \/ core = Undefined) /\ UNCHANGED vars

Next ==
  \/ CoreStep \/ Reads \/ UserStep \/ DestroyDone \/ Stopped
  \/ \E n \in Names : ChangeProperty(n)

Spec == Init /\ [][Next]_vars

(* The core comes to its queue, and the client reads its events.           *)
FairSpec == Spec /\ WF_vars(CoreStep) /\ WF_vars(Reads) /\ WF_vars(DestroyDone)

(***************************************************************************)
(* Properties                                                              *)
(***************************************************************************)
Observed(o) == Contains(properties, o)

observe_property ==
  [name : Names, format : BOOLEAN, changed : BOOLEAN, need_new_value : BOOLEAN,
   updating : BOOLEAN, dead : BOOLEAN, new_value : Values, user_value : Values]

CoreStates ==
  {Idle, Undefined} \cup [at : {"notify"}, name : Names]
                    \cup [at : {"store"}, prop : Observers, value : Values]

(* Every variable keeps the shape the declarations give it.                *)
TypeOK ==
  /\ value \in [Names -> Values] /\ core \in CoreStates
  /\ properties \in Seq(Observers) /\ queue \in Seq(Observers)
  /\ prop \in [Observers -> observe_property]
  /\ lowest_changed \in 1 .. MaxObservers + 1
  /\ properties_updating \in Nat
  /\ property_event_masks \subseteq Names /\ event_masks \subseteq Names
  /\ pc \in {"idle", "invalidate", "waiting", "destroying", "destroyed"}
  /\ need_wakeup \in BOOLEAN
  /\ attached \subseteq Observers /\ freed \subseteq Observers
  /\ observed \in 0 .. MaxObservers /\ told \in [Observers -> Values]

(* An observer is there as long as the core has a request for it, also     *)
(* when it is unobserved meanwhile.                                        *)
UpdatesLive == core # Undefined

(* properties_updating counts the updates the core still has to finish,    *)
(* those of unobserved properties included, so that mpv_detach_destroy     *)
(* waits for every one of them: once the handle is gone, the core has no   *)
(* request left that would use it.                                         *)
UpdatesCounted ==
  /\ TypeOK
  /\ UpdatesLive =>
       properties_updating = Len(queue) + (IF core.at = "store" THEN 1 ELSE 0)
  /\ pc = "destroyed" => queue = <<>> /\ core.at # "store"

(* The global event mask may be cached, but once a client has returned     *)
(* from mpv_observe_property or mpv_unobserve_property it is not the one   *)
(* from before: the core skips no event a client waits for.                *)
MasksFresh == pc # "invalidate" /\ event_masks # {} => event_masks = property_event_masks

(* Who observes a property without its value learns of every change:       *)
(* whatever is observed or unobserved meanwhile, in the end no change of   *)
(* it is left that came after the last notification.                       *)
ChangesArrive ==
  \A o \in Observers :
    (Observed(o) /\ ~prop[o].format)
      ~> (told[o] = value[prop[o].name] \/ ~Observed(o) \/ ~UpdatesLive \/ pc = "destroying")

(* "only the last change triggers the change function": who observes a     *)
(* property with its value is told the last one.                           *)
LastValueArrives ==
  \A o \in Observers :
    (Observed(o) /\ prop[o].format)
      ~> (told[o] = value[prop[o].name] \/ ~Observed(o) \/ ~UpdatesLive \/ pc = "destroying")

(***************************************************************************)
(* The inductive invariant behind the safety properties                    *)
(***************************************************************************)

(* An observer is in the list once.                                        *)
ObserversDistinct ==
  /\ \A i, j \in DOMAIN properties : properties[i] = properties[j] => i = j
  /\ \A i \in DOMAIN properties : properties[i] <= observed
  /\ Len(properties) <= observed

(* The update a core has lost by using a freed observer is never counted   *)
(* down.                                                                   *)
PendingUpdates == Len(queue) + IF core.at \in {"store", "undefined"} THEN 1 ELSE 0

UpdatesTracked ==
  /\ properties_updating = PendingUpdates
  /\ pc = "destroyed" => properties_updating = 0

Inductive == TypeOK /\ ObserversDistinct /\ UpdatesTracked /\ MasksFresh

=============================================================================
