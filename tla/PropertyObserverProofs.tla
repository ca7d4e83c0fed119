----------------------- MODULE PropertyObserverProofs -----------------------
(***************************************************************************)
(* Theorems about PropertyObserver: updates of observed properties are     *)
(* counted until they are done, and the cached event mask is never an old  *)
(* one, for any number of properties, observers and changes.               *)
(***************************************************************************)
EXTENDS PropertyObserver, SequenceTheorems, FiniteSetTheorems, TLAPS

(***************************************************************************)
(* Sets and sequences                                                      *)
(***************************************************************************)

(* The least element of a set of naturals.                                 *)
LEMMA LeastOfNat ==
  ASSUME NEW S \in SUBSET Nat, S # {}
  PROVE  Min(S) \in S /\ \A n \in S : Min(S) <= n
<1> DEFINE below == {1 .. n : n \in S}
<1>1. below \subseteq FiniteSubsetsOf(Nat) /\ below # {}
  <2>1. \A n \in S : (1 .. n) \in SUBSET Nat /\ IsFiniteSet(1 .. n)
    BY FS_Interval
  <2>q. QED
    BY <2>1 DEF FiniteSubsetsOf
<1>2. PICK B \in below : \A C \in below : <<C, B>> \notin StrictSubsetOrdering(Nat)
  BY <1>1, FS_StrictSubsetOrderingWellFounded, WFMin
<1>3. PICK m \in S : B = 1 .. m
  OBVIOUS
<1>4. ASSUME NEW n \in S, n < m
      PROVE  FALSE
  <2>1. 1 .. n \in below /\ (1 .. n) \subseteq B /\ m \in B /\ m \notin 1 .. n
    BY <1>3, <1>4
  <2> DEFINE C == 1 .. n
  <2>2. C \in below /\ C \subseteq B /\ C # B /\ B \in SUBSET Nat /\ C \in SUBSET Nat
    BY <1>3, <2>1
  <2>3. <<C, B>> \in StrictSubsetOrdering(Nat)
    BY <2>2 DEF StrictSubsetOrdering
  <2>q. QED
    BY <1>2, <2>2, <2>3
<1>5. \E x \in S : \A n \in S : x <= n
  BY <1>4
<1>q. QED
  BY <1>5 DEF Min

(* A one-to-one map between two finite sets of the same size reaches all.  *)
LEMMA Onto ==
  ASSUME NEW S, IsFiniteSet(S), NEW f \in [S -> 1 .. Cardinality(S)],
         \A x, y \in S : f[x] = f[y] => x = y
  PROVE  \A k \in 1 .. Cardinality(S) : \E x \in S : f[x] = k
<1>1. Cardinality(S) \in Nat
  BY FS_CardinalityType
<1>2. IsFiniteSet(1 .. Cardinality(S)) /\ Cardinality(1 .. Cardinality(S)) = Cardinality(S)
  BY <1>1, FS_Interval
<1>3. f \in Injection(S, 1 .. Cardinality(S))
  BY DEF Injection, IsInjective
<1>4. f \in Surjection(S, 1 .. Cardinality(S))
  BY <1>2, <1>3, FS_Injection
<1>q. QED
  BY <1>4 DEF Surjection

(* What f numbers one to one has as many members as f's domain.            *)
LEMMA OneToOne ==
  ASSUME NEW S, IsFiniteSet(S), NEW T, NEW f \in [S -> T],
         \A x, y \in S : f[x] = f[y] => x = y, \A z \in T : \E x \in S : f[x] = z
  PROVE  IsFiniteSet(T) /\ Cardinality(T) = Cardinality(S)
<1>1. f \in Surjection(S, T) /\ f \in Injection(S, T)
  BY DEF Surjection, Injection, IsInjective
<1>q. QED
  BY <1>1, FS_Surjection

(* In a finite set of naturals the k-th member has k members up to itself. *)
LEMMA Ranks ==
  ASSUME NEW S \in SUBSET Nat, IsFiniteSet(S)
  PROVE  \A k \in 1 .. Cardinality(S) : \E i \in S : Cardinality({j \in S : j <= i}) = k
<1> DEFINE UpTo(i) == {j \in S : j <= i}
           rank == [i \in S |-> Cardinality(UpTo(i))]
<1>1. ASSUME NEW i \in S
      PROVE  IsFiniteSet(UpTo(i)) /\ Cardinality(UpTo(i)) \in 1 .. Cardinality(S)
  <2>1. UpTo(i) \in SUBSET S /\ i \in UpTo(i)
    OBVIOUS
  <2> HIDE DEF UpTo
  <2>2. IsFiniteSet(UpTo(i)) /\ Cardinality(UpTo(i)) <= Cardinality(S)
    BY <2>1, FS_Subset
  <2>3. Cardinality(UpTo(i)) \in Nat /\ Cardinality(UpTo(i)) # 0 /\ Cardinality(S) \in Nat
    BY <2>1, <2>2, FS_CardinalityType, FS_EmptySet
  <2>q. QED
    BY <2>2, <2>3
<1>2. ASSUME NEW i \in S, NEW k \in S, i < k
      PROVE  Cardinality(UpTo(i)) # Cardinality(UpTo(k))
  <2>1. UpTo(i) \in SUBSET UpTo(k) /\ k \in UpTo(k) /\ k \notin UpTo(i)
    <3>1. i \in Nat /\ k \in Nat /\ \A j \in S : j \in Nat
      OBVIOUS
    <3>2. \A j \in S : j <= i => j <= k
      BY <1>2, <3>1
    <3>3. k <= k /\ ~(k <= i)
      BY <1>2, <3>1
    <3>q. QED
      BY <3>2, <3>3
  <2>2. IsFiniteSet(UpTo(k))
    BY <1>1
  <2> HIDE DEF UpTo
  <2>3. Cardinality(UpTo(k)) = Cardinality(UpTo(i)) => UpTo(k) = UpTo(i)
    BY <2>1, <2>2, FS_Subset
  <2>q. QED
    BY <2>1, <2>3
<1>3. rank \in [S -> 1 .. Cardinality(S)]
  BY <1>1
<1>4. \A i, k \in S : rank[i] = rank[k] => i = k
  <2>1. SUFFICES ASSUME NEW i \in S, NEW k \in S, i # k
                 PROVE  rank[i] # rank[k]
    OBVIOUS
  <2>2. i < k \/ k < i
    BY <2>1
  <2>q. QED
    BY <1>2, <2>2
<1>5. \A k \in 1 .. Cardinality(S) : \E i \in S : rank[i] = k
  <2> HIDE DEF rank
  <2>q. QED
    BY <1>3, <1>4, Onto
<1>q. QED
  BY <1>5

(* The list has room, and a subset of it is finite.                        *)
LEMMA ListFacts ==
  ASSUME TypeOK, ObserversDistinct
  PROVE  /\ DOMAIN properties = 1 .. Len(properties) /\ Len(properties) \in 0 .. MaxObservers
         /\ \A i \in DOMAIN properties : properties[i] \in Observers
         /\ MaxObservers \in Nat \ {0} /\ MaxChanges \in Nat \ {0}
         /\ lowest_changed \in 1 .. MaxObservers + 1
<1>1. properties \in Seq(Observers) /\ observed \in 0 .. MaxObservers /\ MaxObservers \in Nat \ {0}
      /\ MaxChanges \in Nat \ {0}
  BY ConstantsAssumption DEF TypeOK, ConstantsAssumption
<1>2. Len(properties) \in Nat /\ DOMAIN properties = 1 .. Len(properties)
  BY <1>1, LenProperties
<1>3. Len(properties) <= observed
  BY DEF ObserversDistinct
<1>q. QED
  BY <1>1, <1>2, <1>3, ElementOfSeq DEF TypeOK

(* InOrder lists each of the observers it is given once.                   *)
LEMMA InOrderLists ==
  ASSUME TypeOK, ObserversDistinct, NEW os, os \subseteq {properties[i] : i \in DOMAIN properties}
  PROVE  /\ InOrder(os) \in Seq(Observers) /\ Len(InOrder(os)) = Cardinality(os)
         /\ Cardinality(os) \in Nat /\ IsFiniteSet(os)
<1> DEFINE places == {i \in DOMAIN properties : properties[i] \in os}
           UpTo(i) == {j \in places : j <= i}
           At(k) == CHOOSE i \in places : Cardinality(UpTo(i)) = k
           f == [i \in places |-> properties[i]]
<1>1. /\ places \in SUBSET Nat /\ IsFiniteSet(places)
  <2>1. places \in SUBSET (1 .. Len(properties)) /\ Len(properties) \in Nat
    BY ListFacts
  <2>2. IsFiniteSet(1 .. Len(properties)) /\ (1 .. Len(properties)) \subseteq Nat
    BY <2>1, FS_Interval
  <2> HIDE DEF places
  <2>3. IsFiniteSet(places)
    BY <2>1, <2>2, FS_Subset
  <2>q. QED
    BY <2>1, <2>2, <2>3
<1>2. Cardinality(os) = Cardinality(places) /\ IsFiniteSet(os)
  <2>1. f \in [places -> os] /\ \A z \in os : \E i \in places : f[i] = z
    OBVIOUS
  <2>2. \A i, j \in places : f[i] = f[j] => i = j
    BY DEF ObserversDistinct
  <2> HIDE DEF places, f
  <2>q. QED
    BY <1>1, <2>1, <2>2, OneToOne
<1>3. Cardinality(os) \in Nat
  BY <1>2, FS_CardinalityType
<1>4. ASSUME NEW k \in 1 .. Cardinality(os)
      PROVE  properties[At(k)] \in Observers
  <2>1. \E i \in places : Cardinality(UpTo(i)) = k
    <3> HIDE DEF places
    <3>q. QED
      BY <1>1, <1>2, Ranks
  <2>2. At(k) \in places
    BY <2>1
  <2> HIDE DEF At
  <2>q. QED
    BY <2>2, ListFacts
<1>5. InOrder(os) = [k \in 1 .. Cardinality(os) |-> properties[At(k)]]
  BY DEF InOrder
<1> HIDE DEF At
<1>6. PICK s : s = InOrder(os)
  OBVIOUS
<1>7. PICK n \in Nat : n = Cardinality(os)
  BY <1>3
<1>8. s = [k \in 1 .. n |-> properties[At(k)]] /\ \A k \in 1 .. n : properties[At(k)] \in Observers
  BY <1>4, <1>5, <1>6, <1>7
<1>9. s \in Seq(Observers) /\ Len(s) = n
  BY <1>8
<1>q. QED
  BY <1>2, <1>6, <1>7, <1>9

(***************************************************************************)
(* Every action preserves the invariant                                    *)
(***************************************************************************)

(* Marking keeps the record's type.                                        *)
LEMMA MarkType ==
  ASSUME NEW p \in observe_property
  PROVE  Mark(p) \in observe_property
BY DEF Mark, observe_property

(* The core's states and what they hold.                                   *)
LEMMA CoreCases ==
  ASSUME TypeOK
  PROVE  /\ Idle.at = "idle" /\ Undefined.at = "undefined" /\ Idle \in CoreStates
         /\ Undefined \in CoreStates
         /\ \A n \in Names : [at |-> "notify", name |-> n] \in CoreStates
         /\ \A o \in Observers, v \in Values :
              [at |-> "store", prop |-> o, value |-> v] \in CoreStates
         /\ core.at \in {"idle", "undefined", "notify", "store"}
         /\ core.at = "notify" => core.name \in Names
         /\ core.at = "store" => core.prop \in Observers /\ core.value \in Values
         /\ core.at = "undefined" => core = Undefined
BY DEF TypeOK, CoreStates, Idle, Undefined

(* The observers are marked.                                               *)
LEMMA MarkObserversTyped ==
  ASSUME Inductive, NEW n \in Names, MarkObservers(n)
  PROVE  /\ prop' \in [Observers -> observe_property]
         /\ lowest_changed' \in 1 .. MaxObservers + 1 /\ need_wakeup' \in BOOLEAN
         /\ UNCHANGED <<properties, properties_updating>>
<1> DEFINE marked == {i \in DOMAIN properties :
                        LET p == prop[properties[i]] IN p.name = n /\ Mark(p) # p}
<1>t. TypeOK /\ ObserversDistinct
  BY DEF Inductive
<1>1. /\ prop' = [o \in Observers |->
                   IF \E i \in marked : properties[i] = o THEN Mark(prop[o]) ELSE prop[o]]
      /\ lowest_changed' = Min(marked \cup {lowest_changed})
      /\ need_wakeup' = (need_wakeup \/ lowest_changed' <= Len(properties))
      /\ UNCHANGED <<properties, properties_updating>>
  BY DEF MarkObservers
<1>2. marked \cup {lowest_changed} \subseteq 1 .. MaxObservers + 1
  BY <1>t, ListFacts
<1>3. \A o \in Observers : prop[o] \in observe_property /\ Mark(prop[o]) \in observe_property
  BY <1>t, MarkType DEF TypeOK
<1> HIDE DEF marked
<1>4. prop' \in [Observers -> observe_property]
  BY <1>1, <1>3
<1>5. lowest_changed' \in 1 .. MaxObservers + 1
  <2>1. marked \cup {lowest_changed} \in SUBSET Nat /\ marked \cup {lowest_changed} # {}
    BY <1>2
  <2>2. Min(marked \cup {lowest_changed}) \in marked \cup {lowest_changed}
    BY <2>1, LeastOfNat
  <2>q. QED
    BY <1>1, <1>2, <2>2
<1>6. need_wakeup' \in BOOLEAN
  BY <1>1, <1>t DEF TypeOK
<1>q. QED
  BY <1>1, <1>4, <1>5, <1>6

(* A property changes.                                                     *)
LEMMA ChangePreserves ==
  ASSUME Inductive, NEW n \in Names, ChangeProperty(n)
  PROVE  Inductive'
<1>t. TypeOK /\ ObserversDistinct /\ UpdatesTracked /\ MasksFresh
  BY DEF Inductive
<1>0. /\ core = Idle /\ value[n] < MaxChanges /\ value' = [value EXCEPT ![n] = @ + 1]
      /\ core' = [at |-> "notify", name |-> n]
      /\ UNCHANGED <<queue, propVars, maskVars, pc, need_wakeup, lifeVars, told>>
  BY DEF ChangeProperty
<1>1. /\ UNCHANGED <<queue, properties, prop, lowest_changed, properties_updating,
                     property_event_masks, event_masks, pc, need_wakeup, attached, freed, observed,
                     told>>
  BY <1>0 DEF propVars, maskVars, lifeVars
<1>2. value' \in [Names -> Values]
  BY <1>0, <1>t, ConstantsAssumption DEF TypeOK, Values, ConstantsAssumption
<1>3. core' \in CoreStates /\ core'.at = "notify" /\ core.at = "idle"
  BY <1>0, <1>t, CoreCases
<1>4. TypeOK'
  BY <1>1, <1>2, <1>3, <1>t DEF TypeOK
<1>5. ObserversDistinct' /\ MasksFresh'
  BY <1>1, <1>t DEF ObserversDistinct, MasksFresh
<1>6. UpdatesTracked'
  BY <1>1, <1>3, <1>t DEF UpdatesTracked, PendingUpdates
<1>q. QED
  BY <1>4, <1>5, <1>6 DEF Inductive

(* The core announces the change.                                          *)
LEMMA NotifyPreserves ==
  ASSUME Inductive, Notify
  PROVE  Inductive'
<1>t. TypeOK /\ ObserversDistinct /\ UpdatesTracked /\ MasksFresh
  BY DEF Inductive
<1>0. /\ core.at = "notify" /\ core' = Idle
      /\ UNCHANGED <<value, queue, property_event_masks, pc, lifeVars, told>>
      /\ \/ MarkObservers(core.name) /\ UNCHANGED event_masks
         \/ SendEvent(core.name)
  BY DEF Notify
<1>1. core.name \in Names /\ core' \in CoreStates /\ core'.at = "idle"
  BY <1>0, <1>t, CoreCases
<1>2. /\ prop' \in [Observers -> observe_property]
      /\ lowest_changed' \in 1 .. MaxObservers + 1 /\ need_wakeup' \in BOOLEAN
      /\ UNCHANGED <<properties, properties_updating>>
  <2>1. CASE MarkObservers(core.name)
    BY <1>1, <2>1, MarkObserversTyped
  <2>2. CASE UNCHANGED <<propVars, need_wakeup>>
    BY <1>t, <2>2 DEF propVars, TypeOK
  <2>q. QED
    BY <1>0, <2>1, <2>2 DEF SendEvent
<1>3. event_masks' = event_masks \/ event_masks' = Combined
  BY <1>0 DEF SendEvent
<1>4. MasksFresh' /\ event_masks' \subseteq Names
  BY <1>0, <1>3, <1>t DEF MasksFresh, Combined, TypeOK
<1>5. TypeOK'
  BY <1>0, <1>1, <1>2, <1>4, <1>t DEF TypeOK, lifeVars
<1>6. ObserversDistinct'
  BY <1>0, <1>2, <1>t DEF ObserversDistinct, lifeVars
<1>7. UpdatesTracked'
  BY <1>0, <1>1, <1>2, <1>t DEF UpdatesTracked, PendingUpdates
<1>q. QED
  BY <1>4, <1>5, <1>6, <1>7 DEF Inductive

(* The core comes to a request.                                            *)
LEMMA FetchPreserves ==
  ASSUME Inductive, FetchValue
  PROVE  Inductive'
<1>t. TypeOK /\ ObserversDistinct /\ UpdatesTracked /\ MasksFresh
  BY DEF Inductive
<1>0. /\ core = Idle /\ queue # <<>> /\ queue' = Tail(queue)
      /\ core' = IF Head(queue) \in freed THEN Undefined
                 ELSE [at |-> "store", prop |-> Head(queue),
                       value |-> value[prop[Head(queue)].name]]
      /\ UNCHANGED <<value, propVars, maskVars, pc, need_wakeup, lifeVars, told>>
  BY DEF FetchValue
<1>1. UNCHANGED <<value, properties, prop, lowest_changed, properties_updating,
                  property_event_masks, event_masks, pc, need_wakeup, attached, freed, observed,
                  told>>
  BY <1>0 DEF propVars, maskVars, lifeVars
<1>2. /\ Head(queue) \in Observers /\ queue' \in Seq(Observers)
      /\ Len(queue) \in Nat /\ Len(queue') = Len(queue) - 1
  <2>1. queue \in Seq(Observers)
    BY <1>t DEF TypeOK
  <2>q. QED
    BY <1>0, <2>1, HeadTailProperties, LenProperties
<1>3. value[prop[Head(queue)].name] \in Values
  BY <1>2, <1>t DEF TypeOK, observe_property
<1>4. core' \in CoreStates /\ core'.at \in {"store", "undefined"} /\ core.at = "idle"
  BY <1>0, <1>2, <1>3, <1>t, CoreCases
<1>5. TypeOK'
  BY <1>1, <1>2, <1>4, <1>t DEF TypeOK
<1>6. ObserversDistinct' /\ MasksFresh'
  BY <1>1, <1>t DEF ObserversDistinct, MasksFresh
<1>7. UpdatesTracked'
  BY <1>1, <1>2, <1>4, <1>t DEF UpdatesTracked, PendingUpdates
<1>q. QED
  BY <1>5, <1>6, <1>7 DEF Inductive

(* The core stores the value and is done with the update.                  *)
LEMMA StorePreserves ==
  ASSUME Inductive, StoreValue
  PROVE  Inductive'
<1>t. TypeOK /\ ObserversDistinct /\ UpdatesTracked /\ MasksFresh
  BY DEF Inductive
<1>0. /\ core.at = "store" /\ UNCHANGED <<value, queue, maskVars, pc, freed, observed, told>>
      /\ \/ core' = Undefined /\ UNCHANGED <<propVars, need_wakeup, attached>>
         \/ /\ core' = Idle /\ properties_updating' = properties_updating - 1
            /\ prop' = [prop EXCEPT ![core.prop] = NewValue(@, core.value)]
            /\ attached' = attached \/ attached' = attached \cup {core.prop}
            /\ need_wakeup' = TRUE
            /\ UNCHANGED <<properties, lowest_changed>>
  BY DEF StoreValue
<1>1. /\ UNCHANGED <<value, queue, property_event_masks, event_masks, pc, freed, observed, told>>
      /\ UNCHANGED <<properties, lowest_changed>>
  BY <1>0 DEF maskVars, propVars
<1>2. /\ core.prop \in Observers /\ core.value \in Values /\ Len(queue) \in Nat
      /\ properties_updating = Len(queue) + 1
  BY <1>0, <1>t, CoreCases, LenProperties DEF TypeOK, UpdatesTracked, PendingUpdates
<1>3. /\ \/ core'.at = "undefined" /\ properties_updating' = properties_updating
         \/ core'.at = "idle" /\ properties_updating' = properties_updating - 1
      /\ core' \in CoreStates /\ need_wakeup' \in BOOLEAN
      /\ attached' \subseteq Observers
  BY <1>0, <1>2, <1>t, CoreCases DEF propVars, TypeOK
<1>4. prop' \in [Observers -> observe_property]
  <2>1. NewValue(prop[core.prop], core.value) \in observe_property
    <3>1. PICK p \in observe_property : p = prop[core.prop]
      BY <1>2, <1>t DEF TypeOK
    <3>2. (p.changed \/ p.user_value # core.value) \in BOOLEAN
      OBVIOUS
    <3>3. NewValue(p, core.value) \in observe_property
      BY <1>2, <3>2 DEF NewValue, observe_property
    <3>q. QED
      BY <3>1, <3>3
  <2>q. QED
    BY <1>0, <1>2, <1>t, <2>1 DEF propVars, TypeOK
<1>5. properties_updating' \in Nat
  BY <1>2, <1>3
<1>6. TypeOK'
  BY <1>1, <1>3, <1>4, <1>5, <1>t DEF TypeOK
<1>7. ObserversDistinct' /\ MasksFresh'
  BY <1>1, <1>t DEF ObserversDistinct, MasksFresh
<1>8. UpdatesTracked'
  <2>1. pc # "destroyed"
    BY <1>2, <1>t DEF UpdatesTracked
  <2>q. QED
    BY <1>1, <1>2, <1>3, <2>1 DEF UpdatesTracked, PendingUpdates
<1>q. QED
  BY <1>6, <1>7, <1>8 DEF Inductive

(* A property is observed.                                                 *)
LEMMA ObservePreserves ==
  ASSUME Inductive, NEW n \in Names, NEW format \in BOOLEAN, mpv_observe_property(n, format)
  PROVE  Inductive'
<1>t. TypeOK /\ ObserversDistinct /\ UpdatesTracked /\ MasksFresh
  BY DEF Inductive
<1>0. /\ pc = "idle" /\ observed < MaxObservers /\ observed' = observed + 1
      /\ prop' = [prop EXCEPT ![observed'] = NewObserver(n, format)]
      /\ properties' = Append(properties, observed')
      /\ property_event_masks' = property_event_masks \cup {n}
      /\ lowest_changed' = 1 /\ pc' = "invalidate"
      /\ UNCHANGED <<coreVars, queue, properties_updating, event_masks, need_wakeup, attached,
                     freed, told>>
  BY DEF mpv_observe_property
<1>1. observed' \in Observers /\ observed' \in 0 .. MaxObservers /\ observed \in Nat
      /\ observed' = observed + 1 /\ 1 \in 1 .. MaxObservers + 1
  BY <1>0, <1>t, ListFacts DEF TypeOK, Observers
<1>2. NewObserver(n, format) \in observe_property
  BY <1>t, ListFacts DEF NewObserver, observe_property, Values
<1>3. /\ properties' \in Seq(Observers) /\ Len(properties') = Len(properties) + 1
      /\ Len(properties) \in Nat
      /\ \A i \in 1 .. Len(properties) : properties'[i] = properties[i]
      /\ properties'[Len(properties) + 1] = observed'
      /\ DOMAIN properties' = 1 .. Len(properties) + 1 /\ DOMAIN properties = 1 .. Len(properties)
  <2>1. properties \in Seq(Observers)
    BY <1>t DEF TypeOK
  <2>q. QED
    BY <1>0, <1>1, <2>1, AppendProperties, LenProperties
<1>4. TypeOK'
  <2>1. prop' \in [Observers -> observe_property]
    BY <1>0, <1>1, <1>2, <1>t DEF TypeOK
  <2>q. QED
    BY <1>0, <1>1, <1>3, <1>t, <2>1 DEF TypeOK, coreVars
<1>5. ObserversDistinct'
  <2>1. \A i \in 1 .. Len(properties) : properties[i] \in Nat /\ properties[i] <= observed
    <3>1. \A i \in 1 .. Len(properties) : properties[i] \in 1 .. MaxObservers
      BY <1>3, <1>t, ListFacts DEF Observers
    <3>2. MaxObservers \in Nat
      BY <1>t, ListFacts
    <3>3. \A i \in 1 .. Len(properties) : properties[i] <= observed
      BY <1>3, <1>t DEF ObserversDistinct
    <3>q. QED
      BY <3>1, <3>2, <3>3
  <2>2. \A i \in 1 .. Len(properties) : properties'[i] # observed'
    BY <1>1, <1>3, <2>1
  <2>3. ASSUME NEW i \in 1 .. Len(properties) + 1, NEW j \in 1 .. Len(properties) + 1,
               properties'[i] = properties'[j]
        PROVE  i = j
    <3>1. CASE i \in 1 .. Len(properties) /\ j \in 1 .. Len(properties)
      BY <1>3, <1>t, <2>3, <3>1 DEF ObserversDistinct
    <3>2. CASE i = Len(properties) + 1 /\ j \in 1 .. Len(properties)
      BY <1>3, <2>2, <2>3, <3>2
    <3>3. CASE i \in 1 .. Len(properties) /\ j = Len(properties) + 1
      BY <1>3, <2>2, <2>3, <3>3
    <3>q. QED
      BY <1>3, <3>1, <3>2, <3>3
  <2>4. ASSUME NEW i \in 1 .. Len(properties) + 1
        PROVE  properties'[i] <= observed'
    <3>1. CASE i \in 1 .. Len(properties)
      BY <1>1, <1>3, <2>1, <3>1
    <3>2. CASE i = Len(properties) + 1
      BY <1>1, <1>3, <3>2
    <3>q. QED
      BY <1>3, <3>1, <3>2
  <2>5. Len(properties') <= observed'
    BY <1>1, <1>3, <1>t DEF ObserversDistinct
  <2>q. QED
    BY <1>3, <2>3, <2>4, <2>5 DEF ObserversDistinct
<1>6. UpdatesTracked' /\ MasksFresh'
  BY <1>0, <1>t DEF UpdatesTracked, PendingUpdates, MasksFresh, coreVars
<1>q. QED
  BY <1>4, <1>5, <1>6 DEF Inductive

(* An observer leaves the list.                                            *)
LEMMA RemovedFromList ==
  ASSUME TypeOK, ObserversDistinct, NEW k \in DOMAIN properties,
         properties' = RemoveAt(properties, k), observed' = observed
  PROVE  properties' \in Seq(Observers) /\ ObserversDistinct'
<1>1. /\ properties \in Seq(Observers) /\ Len(properties) \in Nat /\ k \in 1 .. Len(properties)
      /\ DOMAIN properties = 1 .. Len(properties)
  BY LenProperties DEF TypeOK
<1> DEFINE L == Len(properties)
           s == SubSeq(properties, 1, k - 1)
           t == SubSeq(properties, k + 1, L)
<1>2. /\ s \in Seq(Observers) /\ Len(s) = k - 1
      /\ \A i \in 1 .. k - 1 : s[i] = properties[i]
  <2>1. \A i \in 1 .. k - 1 : properties[i] \in Observers
    BY <1>1, ElementOfSeq
  <2>2. SubSeq(properties, 1, k - 1) = [i \in 1 .. k - 1 |-> properties[i]]
    BY <1>1
  <2>q. QED
    BY <1>1, <2>1, <2>2
<1>3. /\ t \in Seq(Observers) /\ Len(t) = L - k
      /\ \A i \in 1 .. L - k : t[i] = properties[k + i]
  <2>1. \A i \in 1 .. L - k : k + i \in 1 .. L /\ properties[k + i] \in Observers
    BY <1>1, ElementOfSeq
  <2>2. SubSeq(properties, k + 1, L) = [i \in 1 .. L - k |-> properties[k + i]]
    BY <1>1
  <2>q. QED
    BY <1>1, <2>1, <2>2
<1>4. properties' = s \o t
  BY DEF RemoveAt
<1> HIDE DEF s, t
<1>5. /\ properties' \in Seq(Observers) /\ Len(properties') = L - 1
      /\ \A i \in 1 .. k - 1 : properties'[i] = s[i]
      /\ \A i \in k .. L - 1 : properties'[i] = t[i - (k - 1)]
  <2>1. /\ s \o t \in Seq(Observers) /\ Len(s \o t) = Len(s) + Len(t)
        /\ \A i \in 1 .. Len(s) + Len(t) :
             (s \o t)[i] = IF i <= Len(s) THEN s[i] ELSE t[i - Len(s)]
    BY <1>2, <1>3, ConcatProperties
  <2>2. /\ properties' \in Seq(Observers) /\ Len(properties') = L - 1
        /\ \A i \in 1 .. L - 1 :
             properties'[i] = IF i <= k - 1 THEN s[i] ELSE t[i - (k - 1)]
    BY <1>1, <1>2, <1>3, <1>4, <2>1
  <2>3. \A i \in 1 .. k - 1 : i \in 1 .. L - 1 /\ i <= k - 1
    BY <1>1
  <2>4. \A i \in k .. L - 1 : i \in 1 .. L - 1 /\ ~(i <= k - 1)
    BY <1>1
  <2>q. QED
    BY <2>2, <2>3, <2>4
<1>6. /\ DOMAIN properties' = 1 .. L - 1
      /\ \A i \in 1 .. L - 1 : \E j \in 1 .. L :
           /\ properties'[i] = properties[j] /\ j = IF i < k THEN i ELSE i + 1
  <2>1. DOMAIN properties' = 1 .. L - 1
    BY <1>1, <1>5, LenProperties
  <2>2. ASSUME NEW i \in 1 .. L - 1, i < k
        PROVE  properties'[i] = properties[i] /\ i \in 1 .. L
    BY <1>1, <1>2, <1>5, <2>2
  <2>3. ASSUME NEW i \in 1 .. L - 1, ~(i < k)
        PROVE  properties'[i] = properties[i + 1] /\ i + 1 \in 1 .. L
    <3>1. i \in k .. L - 1 /\ i - (k - 1) \in 1 .. L - k /\ k + (i - (k - 1)) = i + 1
      BY <1>1, <2>3
    <3>2. properties'[i] = t[i - (k - 1)]
      BY <1>5, <3>1
    <3>3. t[i - (k - 1)] = properties[k + (i - (k - 1))]
      BY <1>3, <3>1
    <3>q. QED
      BY <1>1, <3>1, <3>2, <3>3
  <2>q. QED
    BY <2>1, <2>2, <2>3
<1>7. ASSUME NEW i \in 1 .. L - 1, NEW j \in 1 .. L - 1, properties'[i] = properties'[j]
      PROVE  i = j
  <2>1. PICK x \in 1 .. L : properties'[i] = properties[x] /\ x = IF i < k THEN i ELSE i + 1
    BY <1>6
  <2>2. PICK y \in 1 .. L : properties'[j] = properties[y] /\ y = IF j < k THEN j ELSE j + 1
    BY <1>6
  <2>3. x = y
    BY <1>1, <1>7, <2>1, <2>2 DEF ObserversDistinct
  <2>q. QED
    BY <1>1, <2>1, <2>2, <2>3
<1>8. \A i \in 1 .. L - 1 : properties'[i] <= observed'
  BY <1>1, <1>6 DEF ObserversDistinct
<1>9. Len(properties') <= observed'
  BY <1>1, <1>5 DEF ObserversDistinct, TypeOK
<1>q. QED
  BY <1>5, <1>6, <1>7, <1>8, <1>9 DEF ObserversDistinct

(* A property is unobserved.                                               *)
LEMMA UnobservePreserves ==
  ASSUME Inductive, NEW o \in Observers, mpv_unobserve_property(o)
  PROVE  Inductive'
<1>t. TypeOK /\ ObserversDistinct /\ UpdatesTracked /\ MasksFresh
  BY DEF Inductive
<1>0. /\ pc = "idle"
      /\ \E i \in DOMAIN properties : properties' = RemoveAt(properties, i)
      /\ prop' = [prop EXCEPT ![o].dead = prop[o].updating]
      /\ attached' = IF prop[o].updating THEN attached ELSE attached \cup {o}
      /\ property_event_masks' =
           MasksOf({p \in Range(properties) : p # o \/ ~prop[o].updating})
      /\ lowest_changed' = 1 /\ pc' = "invalidate"
      /\ UNCHANGED <<coreVars, queue, properties_updating, event_masks, need_wakeup, freed,
                     observed, told>>
  BY DEF mpv_unobserve_property
<1>1. properties' \in Seq(Observers) /\ ObserversDistinct'
  BY <1>0, <1>t, RemovedFromList
<1>2. property_event_masks' \subseteq Names
  <2>1. \A p \in Range(properties) : p \in Observers
    BY <1>t, ListFacts DEF Range
  <2>2. \A p \in Observers : prop[p].name \in Names
    BY <1>t DEF TypeOK, observe_property
  <2>q. QED
    BY <1>0, <2>1, <2>2 DEF MasksOf
<1>3. prop' \in [Observers -> observe_property] /\ attached' \subseteq Observers
      /\ 1 \in 1 .. MaxObservers + 1
  <2>1. prop[o].updating \in BOOLEAN /\ prop[o] \in observe_property
    BY <1>t DEF TypeOK, observe_property
  <2>2. [prop[o] EXCEPT !.dead = prop[o].updating] \in observe_property
    BY <2>1 DEF observe_property
  <2>q. QED
    BY <1>0, <1>t, <2>2, ListFacts DEF TypeOK
<1>4. TypeOK'
  BY <1>0, <1>1, <1>2, <1>3, <1>t DEF TypeOK, coreVars
<1>5. UpdatesTracked' /\ MasksFresh'
  BY <1>0, <1>t DEF UpdatesTracked, PendingUpdates, MasksFresh, coreVars
<1>q. QED
  BY <1>1, <1>4, <1>5 DEF Inductive

(* The client looks for a property to report and requests new values.      *)
LEMMA GenEventTyped ==
  ASSUME Inductive, GenPropertyChangeEvent
  PROVE  /\ lowest_changed' \in 1 .. MaxObservers + 1
         /\ prop' \in [Observers -> observe_property] /\ told' \in [Observers -> Values]
         /\ pc' \in {"waiting", "idle"} /\ properties' = properties
         /\ queue' \in Seq(Observers) /\ Len(queue) \in Nat /\ Len(queue') \in Nat
         /\ Len(queue') - Len(queue) = properties_updating' - properties_updating
         /\ properties_updating' \in Nat
<1> DEFINE visited == {properties[i] : i \in Visited}
           report == {o \in visited : Reportable(prop[o])}
           fetch == {o \in visited : prop[o].changed} \ report
<1>t. TypeOK /\ ObserversDistinct /\ UpdatesTracked
  BY DEF Inductive
<1>0. /\ lowest_changed' = LowestPending(Visited)
      /\ prop' = [o \in Observers |->
                   IF o \in report
                     THEN [prop[o] EXCEPT !.changed = FALSE, !.need_new_value = FALSE,
                                          !.user_value = prop[o].new_value]
                   ELSE IF o \in fetch
                     THEN [prop[o] EXCEPT !.changed = FALSE, !.need_new_value = FALSE,
                                          !.updating = TRUE]
                   ELSE prop[o]]
      /\ properties_updating' = Counted(fetch)
      /\ queue' = queue \o InOrder(fetch)
      /\ told' = [o \in Observers |-> IF o \in report THEN Told(prop[o]) ELSE told[o]]
      /\ pc' = IF report = {} THEN "waiting" ELSE "idle"
      /\ UNCHANGED properties
  BY DEF GenPropertyChangeEvent
<1>1. Visited \subseteq DOMAIN properties
  BY DEF Visited
<1>2. visited \subseteq {properties[i] : i \in DOMAIN properties} /\ fetch \subseteq visited
  BY <1>1
<1> HIDE DEF visited, report, fetch
<1>3. lowest_changed' \in 1 .. MaxObservers + 1
  <2> DEFINE S == {i \in Visited : LET p == prop[properties[i]] IN p.changed \/ p.updating}
                  \cup {Len(properties) + 1}
  <2>1. S \subseteq 1 .. MaxObservers + 1 /\ S # {} /\ S \in SUBSET Nat
    BY <1>1, <1>t, ListFacts
  <2>2. LowestPending(Visited) = Min(S)
    BY DEF LowestPending
  <2> HIDE DEF S
  <2>q. QED
    BY <1>0, <2>1, <2>2, LeastOfNat
<1>4. prop' \in [Observers -> observe_property]
  <2>1. ASSUME NEW o \in Observers
        PROVE  /\ prop[o] \in observe_property
               /\ [prop[o] EXCEPT !.changed = FALSE, !.need_new_value = FALSE,
                                  !.user_value = prop[o].new_value] \in observe_property
               /\ [prop[o] EXCEPT !.changed = FALSE, !.need_new_value = FALSE,
                                  !.updating = TRUE] \in observe_property
    BY <1>t DEF TypeOK, observe_property
  <2>q. QED
    BY <1>0, <2>1
<1>5. told' \in [Observers -> Values]
  <2>1. ASSUME NEW o \in Observers
        PROVE  Told(prop[o]) \in Values /\ told[o] \in Values
    BY <1>t DEF TypeOK, observe_property, Told
  <2>q. QED
    BY <1>0, <2>1
<1>6. /\ InOrder(fetch) \in Seq(Observers) /\ Len(InOrder(fetch)) = Cardinality(fetch)
      /\ Cardinality(fetch) \in Nat
  BY <1>2, <1>t, InOrderLists
<1>7. /\ queue' \in Seq(Observers) /\ Len(queue) \in Nat
      /\ Len(queue') = Len(queue) + Cardinality(fetch)
  <2>1. queue \in Seq(Observers)
    BY <1>t DEF TypeOK
  <2>q. QED
    BY <1>0, <1>6, <2>1, ConcatProperties, LenProperties
<1>8. properties_updating' = properties_updating + Cardinality(fetch)
      /\ properties_updating \in Nat
  BY <1>0, <1>t DEF Counted, TypeOK
<1>9. /\ Len(queue') \in Nat /\ properties_updating' \in Nat
      /\ Len(queue') - Len(queue) = properties_updating' - properties_updating
  BY <1>6, <1>7, <1>8
<1>10. pc' \in {"waiting", "idle"} /\ properties' = properties
  BY <1>0
<1>q. QED
  BY <1>3, <1>4, <1>5, <1>7, <1>9, <1>10

(* The client reads its events.                                            *)
LEMMA ReadPreserves ==
  ASSUME Inductive, mpv_wait_event \/ WaitWoken
  PROVE  Inductive'
<1>t. TypeOK /\ ObserversDistinct /\ UpdatesTracked /\ MasksFresh
  BY DEF Inductive
<1>0. /\ GenPropertyChangeEvent /\ pc \in {"idle", "waiting"}
      /\ UNCHANGED <<coreVars, maskVars, observed>>
      /\ freed' \subseteq Observers /\ attached' \subseteq Observers /\ need_wakeup' \in BOOLEAN
  BY <1>t DEF mpv_wait_event, WaitWoken, lifeVars, TypeOK
<1>1. UNCHANGED <<value, core, property_event_masks, event_masks, observed>>
  BY <1>0 DEF coreVars, maskVars
<1>2. /\ lowest_changed' \in 1 .. MaxObservers + 1
      /\ prop' \in [Observers -> observe_property] /\ told' \in [Observers -> Values]
      /\ pc' \in {"waiting", "idle"} /\ properties' = properties
      /\ queue' \in Seq(Observers) /\ Len(queue) \in Nat /\ Len(queue') \in Nat
      /\ Len(queue') - Len(queue) = properties_updating' - properties_updating
      /\ properties_updating' \in Nat
  BY <1>0, GenEventTyped
<1>3. TypeOK'
  BY <1>0, <1>1, <1>2, <1>t DEF TypeOK
<1>4. ObserversDistinct'
  BY <1>1, <1>2, <1>t DEF ObserversDistinct
<1>5. MasksFresh'
  BY <1>0, <1>1, <1>2, <1>t DEF MasksFresh
<1>6. UpdatesTracked'
  <2>1. PendingUpdates' = PendingUpdates + (Len(queue') - Len(queue))
    BY <1>1, <1>2 DEF PendingUpdates
  <2>2. properties_updating = PendingUpdates /\ properties_updating \in Nat
    BY <1>t DEF UpdatesTracked, TypeOK
  <2>q. QED
    BY <1>2, <2>1, <2>2 DEF UpdatesTracked
<1>q. QED
  BY <1>3, <1>4, <1>5, <1>6 DEF Inductive

(* The steps that only move the client on.                                 *)
LEMMA MovePreserves ==
  ASSUME Inductive,
         Invalidate \/ WaitTimesOut \/ mpv_detach_destroy \/ DestroyDone \/ UNCHANGED vars
  PROVE  Inductive'
<1>t. TypeOK /\ ObserversDistinct /\ UpdatesTracked /\ MasksFresh
  BY DEF Inductive
<1>1. /\ UNCHANGED <<value, core, queue, prop, lowest_changed, properties_updating,
                     property_event_masks, need_wakeup, attached, freed, observed, told>>
      /\ \/ event_masks' = {}
         \/ event_masks' = event_masks /\ (pc = "invalidate" => pc' = pc)
      /\ properties' = properties \/ properties' = <<>>
      /\ pc' \in {"idle", "invalidate", "waiting", "destroying", "destroyed"}
      /\ pc' = "destroyed" => pc = "destroyed" \/ properties_updating = 0
  BY <1>t
  DEF Invalidate, WaitTimesOut, mpv_detach_destroy, DestroyDone, vars, coreVars, propVars, maskVars,
      lifeVars, InvalidateGlobalMask, NoneUpdating, TypeOK
<1>2. properties' \in Seq(Observers) /\ ObserversDistinct'
  <2>1. CASE properties' = properties
    BY <1>1, <1>t, <2>1 DEF ObserversDistinct, TypeOK
  <2>2. CASE properties' = <<>>
    <3>1. Len(properties') = 0 /\ DOMAIN properties' = {} /\ properties' \in Seq(Observers)
      BY <2>2
    <3>2. 0 <= observed'
      BY <1>1, <1>t DEF TypeOK
    <3>q. QED
      BY <3>1, <3>2 DEF ObserversDistinct
  <2>q. QED
    BY <1>1, <2>1, <2>2
<1>3. event_masks' \subseteq Names /\ MasksFresh'
  BY <1>1, <1>t DEF MasksFresh, TypeOK
<1>4. TypeOK'
  BY <1>1, <1>2, <1>3, <1>t DEF TypeOK
<1>5. UpdatesTracked'
  BY <1>1, <1>t DEF UpdatesTracked, PendingUpdates
<1>q. QED
  BY <1>2, <1>3, <1>4, <1>5 DEF Inductive

(* A new handle observes nothing.                                          *)
LEMMA InitInductive ==
  ASSUME Init
  PROVE  Inductive
<1>1. MaxObservers \in Nat \ {0} /\ MaxChanges \in Nat \ {0} /\ Names # {}
  BY ConstantsAssumption DEF ConstantsAssumption
<1>2. Unused \in observe_property
  BY <1>1 DEF Unused, NewObserver, observe_property, Values
<1>3. /\ properties = <<>> /\ queue = <<>> /\ <<>> \in Seq(Observers) /\ Len(<<>>) = 0
      /\ DOMAIN properties = {}
  BY DEF Init
<1>4. TypeOK
  <2>1. value \in [Names -> Values]
    BY <1>1 DEF Init, Values
  <2>2. 0 \in Values /\ 1 \in 1 .. MaxObservers + 1 /\ 0 \in 0 .. MaxObservers /\ 0 \in Nat
    BY <1>1 DEF Values
  <2>3. core \in CoreStates
    BY DEF Init, CoreStates
  <2>4. prop \in [Observers -> observe_property] /\ told \in [Observers -> Values]
    BY <1>2, <2>2 DEF Init
  <2>q. QED
    BY <1>3, <2>1, <2>2, <2>3, <2>4 DEF Init, TypeOK
<1>5. ObserversDistinct
  BY <1>3 DEF ObserversDistinct, Init
<1>6. UpdatesTracked /\ MasksFresh
  BY <1>3 DEF UpdatesTracked, PendingUpdates, MasksFresh, Init, Idle
<1>q. QED
  BY <1>4, <1>5, <1>6 DEF Inductive

(* Every step preserves the inductive invariant.                           *)
LEMMA NextInductive ==
  ASSUME Inductive, [Next]_vars
  PROVE  Inductive'
<1>1. CASE CoreStep
  BY <1>1, NotifyPreserves, FetchPreserves, StorePreserves DEF CoreStep
<1>2. CASE Reads
  BY <1>2, ReadPreserves, MovePreserves DEF Reads
<1>3. CASE UserStep
  BY <1>3, ObservePreserves, UnobservePreserves, MovePreserves DEF UserStep
<1>4. CASE DestroyDone \/ Stopped \/ UNCHANGED vars
  BY <1>4, MovePreserves DEF Stopped
<1>5. CASE \E n \in Names : ChangeProperty(n)
  BY <1>5, ChangePreserves
<1>q. QED
  BY <1>1, <1>2, <1>3, <1>4, <1>5 DEF Next

(***************************************************************************)
(* Theorems                                                                *)
(***************************************************************************)

(* The inductive invariant of the observers of one handle.                 *)
THEOREM InductiveHolds == Spec => []Inductive
<1>1. Init => Inductive
  BY InitInductive
<1>2. Inductive /\ [Next]_vars => Inductive'
  BY NextInductive
<1>q. QED
  BY <1>1, <1>2, PTL DEF Spec

(* properties_updating counts what the core still has to fetch or store,   *)
(* and nothing of it is left when the handle is gone.                      *)
THEOREM UpdatesCountedHolds == Spec => []UpdatesCounted
<1>1. Inductive => UpdatesCounted
  <2>1. SUFFICES ASSUME Inductive
                 PROVE  UpdatesCounted
    OBVIOUS
  <2>2. TypeOK /\ properties_updating = PendingUpdates
        /\ (pc = "destroyed" => properties_updating = 0)
    BY <2>1 DEF Inductive, UpdatesTracked
  <2>3. /\ queue \in Seq(Observers) /\ Len(queue) \in Nat /\ (Len(queue) = 0 => queue = <<>>)
    BY <2>2, LenProperties, EmptySeq DEF TypeOK
  <2>4. UpdatesLive =>
          properties_updating = Len(queue) + (IF core.at = "store" THEN 1 ELSE 0)
    BY <2>2, CoreCases DEF UpdatesLive, PendingUpdates
  <2>5. pc = "destroyed" => queue = <<>> /\ core.at # "store"
    BY <2>2, <2>3 DEF PendingUpdates
  <2>q. QED
    BY <2>2, <2>4, <2>5 DEF UpdatesCounted
<1>q. QED
  BY <1>1, InductiveHolds, PTL

(* A cached event mask is the current one as soon as the client has        *)
(* returned from the call that changed it.                                 *)
THEOREM MasksFreshHolds == Spec => []MasksFresh
<1>1. Inductive => MasksFresh
  BY DEF Inductive
<1>q. QED
  BY <1>1, InductiveHolds, PTL

=============================================================================
