---------------------------- MODULE VoDmxProofs ----------------------------
(***************************************************************************)
(* Theorems about VoDmx: who owns the image buffers and what is in them,   *)
(* for any number of converters, any queue sizes and any id range, and     *)
(* that the pipeline implements FrameOutput.                               *)
(***************************************************************************)
EXTENDS VoDmx, SequenceTheorems, FiniteSetTheorems, TLAPS

(* Counting modulo the number of ids.                                      *)
LEMMA ModSuccessor ==
  ASSUME NEW a \in Int, NEW n \in Nat \ {0}
  PROVE  (a + 1) % n = ((a % n) + 1) % n
<1>1. PICK q \in Int, r \in 0 .. n - 1 : a = n * q + r /\ r = a % n
  <2>1. /\ a = n * (a \div n) + (a % n)
        /\ a % n \in 0 .. n - 1 /\ (a \div n) \in Int
    OBVIOUS
  <2>q. QED
    BY <2>1
<1>2. ASSUME NEW b \in Int, NEW p \in Int, NEW s \in 0 .. n - 1, b = n * p + s
      PROVE  b % n = s
  BY <1>2
<1>3. CASE r = n - 1
  <2>1. /\ a + 1 = n * (q + 1) + 0 /\ a + 1 \in Int /\ q + 1 \in Int
        /\ 0 \in 0 .. n - 1
    BY <1>1, <1>3
  <2>2. (a + 1) % n = 0
    BY <1>2, <2>1
  <2>3. (r + 1) % n = 0
    BY <1>3
  <2>q. QED
    BY <1>1, <2>2, <2>3
<1>4. CASE r # n - 1
  <2>1. /\ a + 1 = n * q + (r + 1) /\ a + 1 \in Int /\ r + 1 \in 0 .. n - 1
    BY <1>1, <1>4
  <2>2. (a + 1) % n = r + 1
    BY <1>2, <2>1
  <2>3. (r + 1) % n = r + 1
    BY <2>1
  <2>q. QED
    BY <1>1, <2>2, <2>3
<1>q. QED
  BY <1>3, <1>4

(* The pools are not empty, ids count up to IdCount, and no unit is None.  *)
LEMMA Constants ==
  /\ Cardinality(Converters) \in Nat /\ IMG_POOL_SIZE_YUV \in Nat /\ IMG_POOL_SIZE_RGB \in Nat
  /\ IdCount \in Nat \ {0} /\ IdHalf \in Nat \ {0} /\ MaxFrames \in Nat
  /\ None \notin YuvUnits /\ None \notin RgbUnits
  /\ YuvUnits \subseteq Int /\ RgbUnits \subseteq Int
<1>1. Cardinality(Converters) \in Nat
  BY ConstantsAssumption, FS_CardinalityType DEF ConstantsAssumption
<1>q. QED
  BY <1>1, ConstantsAssumption DEF ConstantsAssumption, IMG_POOL_SIZE_YUV, IMG_POOL_SIZE_RGB,
     IdCount, YuvUnits, RgbUnits

(* What a queue holds after Img_Queue_Send.                                *)
LEMMA Sent ==
  ASSUME NEW U, NEW q \in Seq(U), NEW e \in U
  PROVE  /\ Append(q, e) \in Seq(U) /\ Len(Append(q, e)) = Len(q) + 1
         /\ \A u : InQueue(Append(q, e), u) <=> InQueue(q, u) \/ u = e
         /\ NoDuplicates(q) /\ ~InQueue(q, e) => NoDuplicates(Append(q, e))
<1>1. /\ Append(q, e) \in Seq(U) /\ Len(q) \in Nat /\ Len(Append(q, e)) = Len(q) + 1
      /\ DOMAIN q = 1 .. Len(q) /\ DOMAIN Append(q, e) = 1 .. Len(q) + 1
      /\ \A i \in 1 .. Len(q) : Append(q, e)[i] = q[i]
      /\ Append(q, e)[Len(q) + 1] = e
  BY AppendProperties, LenProperties
<1>2. \A i \in 1 .. Len(q) + 1 : i \in 1 .. Len(q) \/ i = Len(q) + 1
  BY <1>1
<1>3. ASSUME NEW u
      PROVE  InQueue(Append(q, e), u) <=> InQueue(q, u) \/ u = e
  <2>1. Len(q) + 1 \in 1 .. Len(q) + 1 /\ 1 .. Len(q) \subseteq 1 .. Len(q) + 1
    BY <1>1
  <2>q. QED
    BY <1>1, <1>2, <2>1 DEF InQueue
<1>4. ASSUME NoDuplicates(q), ~InQueue(q, e)
      PROVE  NoDuplicates(Append(q, e))
  BY <1>1, <1>2, <1>4 DEF NoDuplicates, InQueue
<1>q. QED
  BY <1>1, <1>3, <1>4

(* What is left of a queue after Img_Queue_Recv.                           *)
LEMMA Received ==
  ASSUME NEW U, NEW q \in Seq(U), q # <<>>
  PROVE  /\ Head(q) \in U /\ Tail(q) \in Seq(U) /\ Len(Tail(q)) = Len(q) - 1
         /\ InQueue(q, Head(q))
         /\ NoDuplicates(q) =>
              /\ NoDuplicates(Tail(q)) /\ ~InQueue(Tail(q), Head(q))
              /\ \A u : InQueue(q, u) <=> InQueue(Tail(q), u) \/ u = Head(q)
<1>1. /\ Head(q) \in U /\ Tail(q) \in Seq(U) /\ Len(Tail(q)) = Len(q) - 1
      /\ Len(q) \in Nat /\ Len(q) > 0 /\ Head(q) = q[1]
      /\ \A i \in 1 .. Len(q) - 1 : Tail(q)[i] = q[i + 1]
      /\ DOMAIN q = 1 .. Len(q) /\ DOMAIN Tail(q) = 1 .. Len(q) - 1
  BY HeadTailProperties, EmptySeq, LenProperties
<1>2. 1 \in 1 .. Len(q) /\ \A i \in 1 .. Len(q) - 1 : i + 1 \in 1 .. Len(q) /\ i + 1 # 1
  BY <1>1
<1>3. \A i \in 1 .. Len(q) : i = 1 \/ (i - 1 \in 1 .. Len(q) - 1 /\ (i - 1) + 1 = i)
  BY <1>1
<1>4. ASSUME NoDuplicates(q)
      PROVE  /\ NoDuplicates(Tail(q)) /\ ~InQueue(Tail(q), Head(q))
             /\ \A u : InQueue(q, u) <=> InQueue(Tail(q), u) \/ u = Head(q)
  <2>1. \A i \in 1 .. Len(q) - 1, j \in 1 .. Len(q) - 1 : i + 1 = j + 1 => i = j
    OBVIOUS
  <2>2. NoDuplicates(Tail(q)) /\ ~InQueue(Tail(q), Head(q))
    BY <1>1, <1>2, <1>4, <2>1 DEF NoDuplicates, InQueue
  <2>3. \A i \in 1 .. Len(q) : i = 1 \/ Tail(q)[i - 1] = q[i]
    BY <1>1, <1>3
  <2>4. ASSUME NEW u, InQueue(q, u)
        PROVE  InQueue(Tail(q), u) \/ u = Head(q)
    <3>1. PICK i \in 1 .. Len(q) : q[i] = u
      BY <1>1, <2>4 DEF InQueue
    <3>2. CASE i # 1
      <4>1. i - 1 \in DOMAIN Tail(q) /\ Tail(q)[i - 1] = u
        BY <1>1, <1>3, <2>3, <3>1, <3>2
      <4>q. QED
        BY <4>1 DEF InQueue
    <3>q. QED
      BY <1>1, <3>1, <3>2
  <2>5. ASSUME NEW u, InQueue(Tail(q), u) \/ u = Head(q)
        PROVE  InQueue(q, u)
    BY <1>1, <1>2, <2>5 DEF InQueue
  <2>q. QED
    BY <2>2, <2>4, <2>5
<1>q. QED
  BY <1>1, <1>2, <1>4 DEF InQueue

(* The units of the pool that a thread or the queue has stay apart from    *)
(* each other when one that nobody has is taken from the pool, ...         *)
LEMMA TakeByConverter ==
  ASSUME NEW U, None \notin U, NEW q \in Seq(U), NEW held \in [Converters -> U \cup {None}],
         NEW other \in U \cup {None}, Apart(q, held, other),
         NEW c \in Converters, NEW u \in U, ~Has(q, held, other, u), held[c] = None,
         NEW new \in [Converters -> U \cup {None}],
         new[c] = u, \A d \in Converters \ {c} : new[d] = held[d]
  PROVE  /\ Apart(q, new, other)
         /\ \A v \in U : Has(q, new, other, v) <=> Has(q, held, other, v) \/ v = u
BY DEF Apart, Has

(* ... when a converter gives its unit away, ...                           *)
LEMMA GiveByConverter ==
  ASSUME NEW U, None \notin U, NEW q \in Seq(U), NEW held \in [Converters -> U \cup {None}],
         NEW other \in U \cup {None}, Apart(q, held, other),
         NEW c \in Converters, held[c] # None, NEW new \in [Converters -> U \cup {None}],
         new[c] = None, \A d \in Converters \ {c} : new[d] = held[d]
  PROVE  /\ Apart(q, new, other)
         /\ held[c] \in U /\ ~Has(q, new, other, held[c])
         /\ \A v \in U : Has(q, new, other, v) <=> Has(q, held, other, v) /\ v # held[c]
<1>1. ~InQueue(q, None)
  BY ElementOfSeq, LenProperties DEF InQueue
<1>q. QED
  BY <1>1 DEF Apart, Has

(* ... and the same for the thread at the end of the pipeline.             *)
LEMMA TakeOrGive ==
  ASSUME NEW U, None \notin U, NEW q \in Seq(U), NEW held \in [Converters -> U \cup {None}],
         NEW other \in U \cup {None}, Apart(q, held, other)
  PROVE  /\ \A u \in U : other = None /\ ~Has(q, held, other, u) =>
              /\ Apart(q, held, u)
              /\ \A v \in U : Has(q, held, u, v) <=> Has(q, held, other, v) \/ v = u
         /\ other # None =>
              /\ ~Has(q, held, None, other)
              /\ Apart(q, held, None)
              /\ \A v \in U : Has(q, held, None, v) <=> Has(q, held, other, v) /\ v # other
<1>1. ~InQueue(q, None)
  BY ElementOfSeq, LenProperties DEF InQueue
<1>q. QED
  BY <1>1 DEF Apart, Has

(* A unit nobody has any more is queued.                                   *)
LEMMA QueueUnit ==
  ASSUME NEW U, None \notin U, NEW q \in Seq(U), NEW held \in [Converters -> U \cup {None}],
         NEW other \in U \cup {None}, Apart(q, held, other),
         NEW u \in U, ~Has(q, held, other, u)
  PROVE  /\ Apart(Append(q, u), held, other)
         /\ \A v \in U : Has(Append(q, u), held, other, v) <=> Has(q, held, other, v) \/ v = u
BY Sent DEF Apart, Has

(* The first unit of the queue leaves it.                                  *)
LEMMA UnqueueUnit ==
  ASSUME NEW U, None \notin U, NEW q \in Seq(U), NEW held \in [Converters -> U \cup {None}],
         NEW other \in U \cup {None}, Apart(q, held, other), q # <<>>
  PROVE  /\ Apart(Tail(q), held, other) /\ ~Has(Tail(q), held, other, Head(q))
         /\ Has(q, held, other, Head(q))
         /\ \A v \in U : Has(Tail(q), held, other, v) <=> Has(q, held, other, v) /\ v # Head(q)
BY Received DEF Apart, Has

(* What holds of the frames depends on the ids and frames in the units     *)
(* only, not on their state and image.                                     *)
LEMMA FramesKept ==
  ASSUME Inductive, UNCHANGED <<queue_yuv, queue_rgb, idx_in_last, idx_out_last, accepted,
                                shown, conv, conv_yuv, conv_rgb, out_unit>>,
         vo' # "send",
         \A u \in YuvUnits : yuv'[u].id = yuv[u].id /\ yuv'[u].frame = yuv[u].frame,
         \A u \in RgbUnits : rgb'[u].id = rgb[u].id /\ rgb'[u].frame = rgb[u].frame
  PROVE  FramesKnown'
<1>1. \A u \in YuvUnits : Accepted(yuv[u]) => Accepted(yuv[u])'
  BY DEF Accepted, IdMatches
<1>2. \A u \in RgbUnits : Accepted(rgb[u]) => Accepted(rgb[u])'
  BY DEF Accepted, IdMatches
<1>q. QED
  BY <1>1, <1>2 DEF Inductive, FramesKnown, IdsFollow, YuvFrames, RgbFrames, TypeOK, ThreadsAgree

(* Img_Pool_Get on the yuv pool, with a unit or without.                   *)
LEMMA GetPreserves ==
  ASSUME Inductive, ProcessGet
  PROVE  Inductive'
<1>0. /\ UNCHANGED <<rgb, img_info, queue_yuv, queue_rgb, idx_in_last, accepted, conv, conv_yuv,
                      conv_rgb, out, out_unit, idx_out_last, shown, params, reconfig>>
      /\ vo = "idle" /\ ~reconfig /\ accepted < MaxFrames /\ vo_unit = None
  BY DEF ProcessGet, convVars, outVars, playerVars, Inductive, ThreadsAgree
<1>t. TypeOK /\ ThreadsAgree /\ UnitsApart /\ FramesKnown /\ ParamsFollow
  BY DEF Inductive
<1>1. ASSUME NEW u \in YuvUnits, Img_Pool_Get_Yuv(u), vo' = "copy", vo_unit' = u
      PROVE  Inductive'
  <2>1. /\ yuv[u].state = "FREE"
        /\ yuv' = [yuv EXCEPT ![u].state = "USED", ![u].img = img_info]
    BY <1>1 DEF Img_Pool_Get_Yuv, FirstFree, PoolImage
  <2>2. ASSUME NEW v \in YuvUnits
        PROVE  /\ yuv'[v] \in img_unit_yuv
               /\ yuv'[v].state = IF v = u THEN "USED" ELSE yuv[v].state
               /\ yuv'[v].img = IF v = u THEN img_info ELSE yuv[v].img
               /\ yuv'[v].id = yuv[v].id /\ yuv'[v].frame = yuv[v].frame
    BY <1>t, <2>1 DEF TypeOK, img_unit_yuv
  <2>3. TypeOK'
    <3>1. yuv' \in [YuvUnits -> img_unit_yuv]
      BY <1>t, <2>1, <2>2 DEF TypeOK
    <3>q. QED
      BY <1>0, <1>1, <1>t, <3>1 DEF TypeOK, VoStates
  <2>4. ThreadsAgree'
    BY <1>0, <1>1, <1>t, Constants DEF ThreadsAgree
  <2>5. ~Has(queue_yuv, conv_yuv, vo_unit, u)
    BY <1>t, <2>1 DEF UnitsApart
  <2>6. UnitsApart'
    <3>1. /\ Apart(queue_yuv, conv_yuv, u)
          /\ \A v \in YuvUnits :
               Has(queue_yuv, conv_yuv, u, v) <=> Has(queue_yuv, conv_yuv, vo_unit, v) \/ v = u
      BY <1>0, <1>t, <2>5, TakeOrGive, Constants DEF TypeOK, UnitsApart
    <3>q. QED
      BY <1>0, <1>1, <1>t, <2>2, <3>1 DEF UnitsApart
  <2>7. FramesKnown'
    BY <1>0, <1>1, <2>2, FramesKept
  <2>8. ParamsFollow'
    BY <1>0, <1>1, <1>t, <2>2 DEF ParamsFollow, CopyMatches
  <2>q. QED
    BY <2>3, <2>4, <2>6, <2>7, <2>8 DEF Inductive
<1>2. ASSUME Img_Pool_Get_Fails, UNCHANGED <<vo, vo_unit>>
      PROVE  Inductive'
  <2>1. ASSUME NEW v \in YuvUnits
        PROVE  /\ yuv'[v] \in img_unit_yuv
               /\ yuv'[v].state = yuv[v].state
               /\ yuv'[v].id = yuv[v].id /\ yuv'[v].frame = yuv[v].frame
    <3>1. \/ yuv' = yuv
          \/ \E u \in YuvUnits : yuv' = [yuv EXCEPT ![u].img = NoImage]
      BY <1>2 DEF Img_Pool_Get_Fails
    <3>2. ASSUME NEW u \in YuvUnits, yuv' = [yuv EXCEPT ![u].img = NoImage]
          PROVE  /\ yuv'[v] \in img_unit_yuv
                 /\ yuv'[v].state = yuv[v].state
                 /\ yuv'[v].id = yuv[v].id /\ yuv'[v].frame = yuv[v].frame
      BY <3>2, <1>t DEF TypeOK, img_unit_yuv
    <3>3. CASE yuv' = yuv
      BY <3>3, <1>t DEF TypeOK
    <3>q. QED
      BY <3>1, <3>2, <3>3
  <2>2. TypeOK'
    <3>1. yuv' \in [YuvUnits -> img_unit_yuv]
      BY <1>2, <1>t, <2>1 DEF Img_Pool_Get_Fails, TypeOK
    <3>q. QED
      BY <1>0, <1>2, <1>t, <3>1 DEF TypeOK
  <2>3. ThreadsAgree'
    BY <1>0, <1>2, <1>t DEF ThreadsAgree
  <2>4. UnitsApart'
    BY <1>0, <1>2, <1>t, <2>1 DEF UnitsApart
  <2>5. FramesKnown'
    BY <1>0, <1>2, <2>1, FramesKept
  <2>6. ParamsFollow'
    BY <1>0, <1>2, <1>t DEF ParamsFollow, CopyMatches
  <2>q. QED
    BY <2>2, <2>3, <2>4, <2>5, <2>6 DEF Inductive
<1>q. QED
  BY <1>1, <1>2 DEF ProcessGet

(* The VO thread copies its frame into the unit it has, or cannot.         *)
LEMMA CopyPreserves ==
  ASSUME Inductive, ProcessCopy
  PROVE  Inductive'
<1>0. /\ UNCHANGED <<rgb, img_info, queue_yuv, queue_rgb, vo_unit, idx_in_last, accepted, conv,
                      conv_yuv, conv_rgb, out, out_unit, idx_out_last, shown, params, reconfig>>
      /\ vo = "copy"
  BY DEF ProcessCopy, convVars, outVars, playerVars
<1>t. TypeOK /\ ThreadsAgree /\ UnitsApart /\ FramesKnown /\ ParamsFollow
  BY DEF Inductive
<1>1. vo_unit \in YuvUnits /\ accepted \in Frames /\ accepted < MaxFrames
  BY <1>0, <1>t, Constants DEF ThreadsAgree, TypeOK, Frames
<1>2. ThreadsAgree'
  BY <1>0, <1>t DEF ThreadsAgree, ProcessCopy
<1>3. ParamsFollow'
  BY <1>0, <1>t DEF ParamsFollow, CopyMatches, ProcessCopy
<1>4. CASE vo' = "put" /\ UNCHANGED yuv
  <2>1. TypeOK' /\ UnitsApart'
    BY <1>0, <1>4, <1>t DEF TypeOK, UnitsApart, VoStates
  <2>2. FramesKnown'
    BY <1>0, <1>4, FramesKept
  <2>q. QED
    BY <1>2, <1>3, <2>1, <2>2 DEF Inductive
<1>5. CASE /\ vo' = "send"
           /\ yuv' = [yuv EXCEPT ![vo_unit].frame = accepted, ![vo_unit].id = idx_in_last]
  <2>1. ASSUME NEW v \in YuvUnits
        PROVE  /\ yuv'[v] \in img_unit_yuv
               /\ yuv'[v].state = yuv[v].state
               /\ v # vo_unit => yuv'[v] = yuv[v]
               /\ v = vo_unit => yuv'[v].id = idx_in_last /\ yuv'[v].frame = accepted
    BY <1>1, <1>5, <1>t DEF TypeOK, img_unit_yuv
  <2>2. TypeOK'
    <3>1. yuv' \in [YuvUnits -> img_unit_yuv]
      BY <1>5, <1>t, <2>1 DEF TypeOK
    <3>q. QED
      BY <1>0, <1>5, <1>t, <3>1 DEF TypeOK, VoStates
  <2>3. UnitsApart'
    BY <1>0, <1>5, <1>t, <2>1 DEF UnitsApart
  <2>4. FramesKnown'
    <3>1. ASSUME NEW u \in YuvUnits, InQueue(queue_yuv, u) \/ \E c \in Converters : conv_yuv[c] = u
          PROVE  yuv'[u] = yuv[u]
      <4>1. u # vo_unit
        BY <3>1, <1>1, <1>t, Constants DEF UnitsApart, Apart
      <4>q. QED
        BY <4>1, <2>1
    <3>2. \A u \in YuvUnits : yuv'[u] = yuv[u] /\ Accepted(yuv[u]) => Accepted(yuv[u])'
      BY <1>0 DEF Accepted, IdMatches
    <3>3. \A u \in RgbUnits : Accepted(rgb[u]) => Accepted(rgb[u])'
      BY <1>0 DEF Accepted, IdMatches
    <3>4. \A c \in Converters : conv[c] = "convert" => yuv'[conv_yuv[c]] = yuv[conv_yuv[c]]
      BY <3>1, <1>t DEF ThreadsAgree, TypeOK
    <3>5. \A c \in Converters : conv[c] \in {"put_yuv", "send"} => conv_rgb[c] \in RgbUnits
      BY <1>t DEF ThreadsAgree, TypeOK
    <3>6. IdsFollow'
      BY <1>0, <1>1, <1>t, <2>1 DEF IdsFollow, FramesKnown
    <3>7. YuvFrames'
      BY <1>0, <1>t, <3>1, <3>2 DEF YuvFrames, FramesKnown
    <3>8. RgbFrames'
      BY <1>0, <1>5, <1>t, <3>3, <3>4, <3>5 DEF RgbFrames, FramesKnown
    <3>q. QED
      BY <3>6, <3>7, <3>8 DEF FramesKnown
  <2>q. QED
    BY <1>2, <1>3, <2>2, <2>3, <2>4 DEF Inductive
<1>q. QED
  BY <1>4, <1>5 DEF ProcessCopy

(* The VO thread queues its unit, or finds the queue full.                 *)
LEMMA SendPreserves ==
  ASSUME Inductive, ProcessSend
  PROVE  Inductive'
<1>0. /\ UNCHANGED <<yuv, rgb, img_info, queue_rgb, conv, conv_yuv, conv_rgb, out, out_unit,
                      idx_out_last, shown, params, reconfig>>
      /\ vo = "send"
  BY DEF ProcessSend, pools, convVars, outVars, playerVars
<1>t. TypeOK /\ ThreadsAgree /\ UnitsApart /\ FramesKnown /\ ParamsFollow
  BY DEF Inductive
<1>1. vo_unit \in YuvUnits /\ accepted < MaxFrames /\ accepted \in Nat
  BY <1>0, <1>t, Constants DEF ThreadsAgree, TypeOK
<1>2. CASE vo' = "put" /\ UNCHANGED <<queue_yuv, vo_unit, idx_in_last, accepted>>
  <2>1. TypeOK' /\ UnitsApart' /\ ThreadsAgree' /\ ParamsFollow'
    BY <1>0, <1>2, <1>t DEF TypeOK, UnitsApart, VoStates, ThreadsAgree, ParamsFollow, CopyMatches
  <2>2. FramesKnown'
    BY <1>0, <1>2, FramesKept
  <2>q. QED
    BY <2>1, <2>2 DEF Inductive
<1>3. CASE /\ ~IsFull(queue_yuv, IMG_QUEUE_SIZE_YUV)
           /\ queue_yuv' = Append(queue_yuv, vo_unit)
           /\ idx_in_last' = (idx_in_last + 1) % IdCount
           /\ accepted' = accepted + 1
           /\ vo' = "idle" /\ vo_unit' = None
  <2>1. /\ queue_yuv' \in Seq(YuvUnits) /\ Len(queue_yuv') <= IMG_QUEUE_SIZE_YUV
        /\ \A u : InQueue(queue_yuv', u) <=> InQueue(queue_yuv, u) \/ u = vo_unit
    BY <1>1, <1>3, <1>t, Sent, LenProperties, ConstantsAssumption DEF IsFull, TypeOK,
       ConstantsAssumption
  <2>2. TypeOK'
    <3>1. idx_in_last' \in Ids /\ accepted' \in 0 .. MaxFrames
      BY <1>1, <1>3, <1>t, Constants DEF TypeOK, Ids
    <3>q. QED
      BY <1>0, <1>3, <1>t, <2>1, <3>1 DEF TypeOK, VoStates
  <2>3. ThreadsAgree'
    BY <1>0, <1>3, <1>t DEF ThreadsAgree
  <2>4. ParamsFollow'
    BY <1>0, <1>3, <1>t DEF ParamsFollow, CopyMatches
  <2>5. UnitsApart'
    <3>1. /\ ~Has(queue_yuv, conv_yuv, None, vo_unit)
          /\ Apart(queue_yuv, conv_yuv, None)
          /\ \A v \in YuvUnits : Has(queue_yuv, conv_yuv, None, v) <=>
                                   Has(queue_yuv, conv_yuv, vo_unit, v) /\ v # vo_unit
      <4>1. /\ queue_yuv \in Seq(YuvUnits) /\ conv_yuv \in [Converters -> YuvUnits \cup {None}]
            /\ Apart(queue_yuv, conv_yuv, vo_unit) /\ vo_unit # None
        BY <1>1, <1>t, Constants DEF TypeOK, UnitsApart
      <4>q. QED
        BY <1>1, <4>1, TakeOrGive, Constants
    <3>2. /\ Apart(Append(queue_yuv, vo_unit), conv_yuv, None)
          /\ \A v \in YuvUnits : Has(Append(queue_yuv, vo_unit), conv_yuv, None, v) <=>
                                   Has(queue_yuv, conv_yuv, None, v) \/ v = vo_unit
      BY <1>1, <1>t, <3>1, QueueUnit, Constants DEF TypeOK
    <3>3. Has(queue_yuv, conv_yuv, vo_unit, vo_unit)
      BY DEF Has
    <3>q. QED
      BY <1>0, <1>3, <1>t, <3>1, <3>2, <3>3 DEF UnitsApart
  <2>6. FramesKnown'
    <3>1. IdsFollow'
      <4>1. idx_in_last = accepted % IdCount /\ idx_out_last = shown % IdCount /\ shown < accepted
        BY <1>t DEF FramesKnown, IdsFollow
      <4>2. (accepted + 1) % IdCount = ((accepted % IdCount) + 1) % IdCount
        <5>1. PICK a \in Int, n \in Nat \ {0} : a = accepted /\ n = IdCount
          BY <1>1, Constants
        <5>2. (a + 1) % n = ((a % n) + 1) % n
          BY ModSuccessor
        <5>q. QED
          BY <5>1, <5>2
      <4>3. idx_in_last' = accepted' % IdCount
        BY <1>3, <4>1, <4>2
      <4>4. shown < accepted'
        BY <1>1, <1>3, <1>t, <4>1 DEF TypeOK, Frames
      <4>q. QED
        BY <1>0, <1>3, <4>1, <4>3, <4>4 DEF IdsFollow
    <3>2. \A unit : Accepted(unit) => IdMatches(unit) /\ unit.frame \in 0 .. accepted' - 1
      BY <1>1, <1>3 DEF Accepted
    <3>3. PICK w \in YuvUnits : w = vo_unit
      BY <1>1
    <3>4. IdMatches(yuv[w]) /\ yuv[w].frame \in 0 .. accepted' - 1
      <4>1. yuv[w].frame = accepted /\ yuv[w].id = accepted % IdCount
        BY <1>0, <1>t, <3>3 DEF FramesKnown, IdsFollow
      <4>q. QED
        BY <1>1, <1>3, <4>1 DEF IdMatches
    <3>5. YuvFrames'
      <4>1. ASSUME NEW u \in YuvUnits,
                   InQueue(queue_yuv', u) \/ \E c \in Converters : conv_yuv'[c] = u
            PROVE  IdMatches(yuv[u]) /\ yuv[u].frame \in 0 .. accepted' - 1
        <5>1. u = w \/ InQueue(queue_yuv, u) \/ \E c \in Converters : conv_yuv[c] = u
          BY <1>0, <2>1, <3>3, <4>1
        <5>q. QED
          BY <1>t, <3>2, <3>4, <5>1 DEF FramesKnown, YuvFrames
      <4>q. QED
        BY <1>0, <4>1 DEF YuvFrames, Accepted, IdMatches
    <3>6. RgbFrames'
      <4>1. ASSUME NEW u, Accepted(rgb[u])
            PROVE  Accepted(rgb[u])'
        BY <1>0, <3>2, <4>1 DEF Accepted, IdMatches
      <4>q. QED
        BY <1>0, <1>t, <4>1 DEF FramesKnown, RgbFrames
    <3>q. QED
      BY <3>1, <3>5, <3>6 DEF FramesKnown
  <2>q. QED
    BY <2>2, <2>3, <2>4, <2>5, <2>6 DEF Inductive
<1>q. QED
  BY <1>2, <1>3 DEF ProcessSend

(* The unit goes back to the pool after a failure.                         *)
LEMMA PutPreserves ==
  ASSUME Inductive, ProcessPut
  PROVE  Inductive'
<1>0. /\ UNCHANGED <<rgb, img_info, queue_yuv, queue_rgb, idx_in_last, accepted, conv, conv_yuv,
                      conv_rgb, out, out_unit, idx_out_last, shown, params, reconfig>>
      /\ vo = "put" /\ vo' = "idle" /\ vo_unit' = None
      /\ yuv' = [yuv EXCEPT ![vo_unit].state = "FREE"]
  BY DEF ProcessPut, PutBack, convVars, outVars, playerVars
<1>t. TypeOK /\ ThreadsAgree /\ UnitsApart /\ FramesKnown /\ ParamsFollow
  BY DEF Inductive
<1>1. vo_unit \in YuvUnits
  BY <1>0, <1>t DEF ThreadsAgree, TypeOK
<1>2. ASSUME NEW v \in YuvUnits
      PROVE  /\ yuv'[v] \in img_unit_yuv
             /\ yuv'[v].state = IF v = vo_unit THEN "FREE" ELSE yuv[v].state
             /\ yuv'[v].id = yuv[v].id /\ yuv'[v].frame = yuv[v].frame
  BY <1>0, <1>1, <1>t DEF TypeOK, img_unit_yuv
<1>3. TypeOK'
  <2>1. yuv' \in [YuvUnits -> img_unit_yuv]
    BY <1>0, <1>t, <1>2 DEF TypeOK
  <2>q. QED
    BY <1>0, <1>t, <2>1 DEF TypeOK, VoStates
<1>4. ThreadsAgree' /\ ParamsFollow'
  BY <1>0, <1>t DEF ThreadsAgree, ParamsFollow, CopyMatches
<1>5. UnitsApart'
  <2>1. /\ queue_yuv \in Seq(YuvUnits) /\ conv_yuv \in [Converters -> YuvUnits \cup {None}]
        /\ Apart(queue_yuv, conv_yuv, vo_unit) /\ vo_unit # None
    BY <1>1, <1>t, Constants DEF TypeOK, UnitsApart
  <2>2. /\ Apart(queue_yuv, conv_yuv, None)
        /\ \A v \in YuvUnits : Has(queue_yuv, conv_yuv, None, v) <=>
                                 Has(queue_yuv, conv_yuv, vo_unit, v) /\ v # vo_unit
    BY <1>1, <2>1, TakeOrGive, Constants
  <2>q. QED
    BY <1>0, <1>t, <1>2, <2>2 DEF UnitsApart
<1>6. FramesKnown'
  BY <1>0, <1>2, FramesKept
<1>q. QED
  BY <1>3, <1>4, <1>5, <1>6 DEF Inductive

(* A step of converter c, which writes to no image but its rgb image,      *)
(* leaves what the queue, the output thread and the other converters have. *)
LEMMA OtherThreads ==
  ASSUME Inductive, NEW c \in Converters, UNCHANGED <<accepted, queue_rgb, out_unit>>,
         \A d \in Converters \ {c} : conv'[d] = conv[d] /\ conv_yuv'[d] = conv_yuv[d]
                                      /\ conv_rgb'[d] = conv_rgb[d],
         \A u \in YuvUnits : yuv'[u].id = yuv[u].id /\ yuv'[u].frame = yuv[u].frame,
         \A u \in RgbUnits : u # conv_rgb[c] => rgb'[u].id = rgb[u].id
                                                /\ rgb'[u].frame = rgb[u].frame,
         conv'[c] = "convert" => rgb'[conv_rgb'[c]].id = yuv'[conv_yuv'[c]].id,
         conv'[c] \in {"put_yuv", "send"} => Accepted(rgb[conv_rgb[c]])'
  PROVE  RgbFrames'
<1>t. TypeOK /\ ThreadsAgree /\ UnitsApart /\ FramesKnown /\ RgbFrames
  BY DEF Inductive, FramesKnown
<1>1. \A u \in RgbUnits : u # conv_rgb[c] /\ Accepted(rgb[u]) => Accepted(rgb[u])'
  BY DEF Accepted, IdMatches
<1>2. ASSUME NEW u \in RgbUnits, InQueue(queue_rgb', u) \/ out_unit' = u
      PROVE  Accepted(rgb[u])'
  <2>1. u # conv_rgb[c]
    BY <1>2, <1>t, Constants DEF UnitsApart, Apart
  <2>q. QED
    BY <1>2, <1>t, <1>1, <2>1 DEF RgbFrames
<1>3. ASSUME NEW d \in Converters, d # c
      PROVE  /\ conv'[d] = "convert" => rgb'[conv_rgb'[d]].id = yuv'[conv_yuv'[d]].id
             /\ conv'[d] \in {"put_yuv", "send"} => Accepted(rgb[conv_rgb[d]])'
  <2>1. conv'[d] = conv[d] /\ conv_yuv'[d] = conv_yuv[d] /\ conv_rgb'[d] = conv_rgb[d]
    BY <1>3
  <2>2. CASE conv[d] = "convert"
    <3>1. conv_rgb[d] \in RgbUnits /\ conv_yuv[d] \in YuvUnits /\ conv_rgb[d] # conv_rgb[c]
      BY <1>3, <1>t, <2>2, Constants DEF TypeOK, ThreadsAgree, UnitsApart, Apart
    <3>q. QED
      BY <1>t, <2>1, <2>2, <3>1 DEF RgbFrames
  <2>3. CASE conv[d] \in {"put_yuv", "send"}
    <3>1. PICK w \in RgbUnits : w = conv_rgb[d] /\ w # conv_rgb[c]
      BY <1>3, <1>t, <2>3, Constants DEF TypeOK, ThreadsAgree, UnitsApart, Apart
    <3>2. Accepted(rgb[w])'
      BY <1>1, <1>t, <2>3, <3>1 DEF RgbFrames
    <3>q. QED
      BY <2>1, <2>3, <3>1, <3>2
  <2>q. QED
    BY <2>1, <2>2, <2>3
<1>q. QED
  BY <1>2, <1>3 DEF RgbFrames

(* A converter takes a unit of the rgb pool.                               *)
LEMMA ConvertGetRgbPreserves ==
  ASSUME Inductive, NEW c \in Converters, ConvertGetRgb(c)
  PROVE  Inductive'
<1>1. PICK u \in RgbUnits : /\ rgb[u].state = "FREE"
                            /\ rgb' = [rgb EXCEPT ![u].state = "USED"]
                            /\ conv_rgb' = [conv_rgb EXCEPT ![c] = u]
  BY DEF ConvertGetRgb, FirstFree
<1>0. /\ UNCHANGED <<yuv, img_info, queue_yuv, queue_rgb, vo, vo_unit, idx_in_last, accepted,
                      conv_yuv, out, out_unit, idx_out_last, shown, params, reconfig>>
      /\ conv[c] = "get_rgb" /\ conv' = [conv EXCEPT ![c] = "recv"]
  BY DEF ConvertGetRgb, voVars, outVars, playerVars
<1>t. TypeOK /\ ThreadsAgree /\ UnitsApart /\ FramesKnown /\ ParamsFollow
  BY DEF Inductive
<1>2. ASSUME NEW v \in RgbUnits
      PROVE  /\ rgb'[v] \in img_unit_rgb
             /\ rgb'[v].state = IF v = u THEN "USED" ELSE rgb[v].state
             /\ rgb'[v].id = rgb[v].id /\ rgb'[v].frame = rgb[v].frame
  BY <1>1, <1>t DEF TypeOK, img_unit_rgb
<1>3. /\ conv \in [Converters -> ConverterStates]
      /\ conv_rgb \in [Converters -> RgbUnits \cup {None}]
      /\ conv_rgb[c] = None /\ ~Has(queue_rgb, conv_rgb, out_unit, u)
  BY <1>0, <1>1, <1>t DEF TypeOK, ThreadsAgree, UnitsApart
<1>4. /\ conv_rgb' \in [Converters -> RgbUnits \cup {None}]
      /\ Apart(queue_rgb, conv_rgb', out_unit)
      /\ \A v \in RgbUnits : Has(queue_rgb, conv_rgb', out_unit, v) <=>
                               Has(queue_rgb, conv_rgb, out_unit, v) \/ v = u
  <2>1. /\ queue_rgb \in Seq(RgbUnits) /\ out_unit \in RgbUnits \cup {None}
        /\ Apart(queue_rgb, conv_rgb, out_unit)
    BY <1>t DEF TypeOK, UnitsApart
  <2>2. /\ conv_rgb' \in [Converters -> RgbUnits \cup {None}] /\ conv_rgb'[c] = u
        /\ \A d \in Converters \ {c} : conv_rgb'[d] = conv_rgb[d]
    BY <1>1, <1>3
  <2>q. QED
    BY <1>3, <2>1, <2>2, TakeByConverter, Constants
<1>5. TypeOK'
  <2>1. rgb' \in [RgbUnits -> img_unit_rgb]
    BY <1>1, <1>t, <1>2 DEF TypeOK
  <2>2. conv' \in [Converters -> ConverterStates]
    BY <1>0, <1>3 DEF ConverterStates
  <2>q. QED
    BY <1>0, <1>4, <1>t, <2>1, <2>2 DEF TypeOK
<1>6. ThreadsAgree'
  BY <1>0, <1>1, <1>3, <1>t, Constants DEF ThreadsAgree
<1>7. ParamsFollow'
  BY <1>0, <1>t DEF ParamsFollow, CopyMatches
<1>8. UnitsApart'
  BY <1>0, <1>2, <1>4, <1>t DEF UnitsApart
<1>9. FramesKnown'
  <2>1. RgbFrames'
    BY <1>0, <1>1, <1>2, <1>3, OtherThreads
  <2>2. YuvFrames' /\ IdsFollow'
    BY <1>0, <1>t DEF FramesKnown, YuvFrames, IdsFollow, Accepted, IdMatches
  <2>q. QED
    BY <2>1, <2>2 DEF FramesKnown
<1>q. QED
  BY <1>5, <1>6, <1>7, <1>8, <1>9 DEF Inductive

(* A converter takes the oldest yuv unit from the queue.                   *)
LEMMA ConvertRecvPreserves ==
  ASSUME Inductive, NEW c \in Converters, ConvertRecv(c)
  PROVE  Inductive'
<1>0. /\ UNCHANGED <<yuv, img_info, queue_rgb, vo, vo_unit, idx_in_last, accepted,
                      conv_rgb, out, out_unit, idx_out_last, shown, params, reconfig>>
      /\ conv[c] = "recv" /\ conv' = [conv EXCEPT ![c] = "convert"]
      /\ queue_yuv # <<>> /\ queue_yuv' = Tail(queue_yuv)
  BY DEF ConvertRecv, voVars, outVars, playerVars
<1>t. TypeOK /\ ThreadsAgree /\ UnitsApart /\ FramesKnown /\ ParamsFollow
  BY DEF Inductive
<1>1. /\ queue_yuv \in Seq(YuvUnits) /\ conv_yuv \in [Converters -> YuvUnits \cup {None}]
      /\ vo_unit \in YuvUnits \cup {None} /\ Apart(queue_yuv, conv_yuv, vo_unit)
      /\ conv \in [Converters -> ConverterStates] /\ conv_rgb[c] \in RgbUnits
      /\ conv_yuv[c] = None
  BY <1>0, <1>t DEF TypeOK, UnitsApart, ThreadsAgree
<1>2. PICK u \in YuvUnits : u = Head(queue_yuv)
  BY <1>0, <1>1, Received
<1>3. PICK w \in RgbUnits : w = conv_rgb[c]
  BY <1>1
<1>4. /\ conv_yuv' = [conv_yuv EXCEPT ![c] = u]
      /\ rgb' = [rgb EXCEPT ![w].id = yuv[u].id]
  BY <1>2, <1>3 DEF ConvertRecv
<1>5. ASSUME NEW v \in RgbUnits
      PROVE  /\ rgb'[v] \in img_unit_rgb
             /\ rgb'[v].state = rgb[v].state
             /\ v # w => rgb'[v] = rgb[v]
             /\ v = w => rgb'[v].id = yuv[u].id
  BY <1>4, <1>t DEF TypeOK, img_unit_rgb, img_unit_yuv
<1>6. /\ Tail(queue_yuv) \in Seq(YuvUnits) /\ Len(Tail(queue_yuv)) = Len(queue_yuv) - 1
      /\ Len(queue_yuv) \in Nat
      /\ Apart(Tail(queue_yuv), conv_yuv, vo_unit)
      /\ ~Has(Tail(queue_yuv), conv_yuv, vo_unit, u)
      /\ Has(queue_yuv, conv_yuv, vo_unit, u)
      /\ \A v \in YuvUnits : Has(Tail(queue_yuv), conv_yuv, vo_unit, v) <=>
                               Has(queue_yuv, conv_yuv, vo_unit, v) /\ v # u
  <2>1. /\ Tail(queue_yuv) \in Seq(YuvUnits) /\ Len(Tail(queue_yuv)) = Len(queue_yuv) - 1
        /\ Len(queue_yuv) \in Nat
    BY <1>0, <1>1, Received, LenProperties
  <2>q. QED
    BY <1>0, <1>1, <1>2, <2>1, UnqueueUnit, Constants
<1>7. /\ conv_yuv' \in [Converters -> YuvUnits \cup {None}]
      /\ Apart(queue_yuv', conv_yuv', vo_unit)
      /\ \A v \in YuvUnits : Has(queue_yuv', conv_yuv', vo_unit, v) <=>
                               Has(queue_yuv, conv_yuv, vo_unit, v)
  <2>2. /\ conv_yuv' \in [Converters -> YuvUnits \cup {None}] /\ conv_yuv'[c] = u
        /\ \A d \in Converters \ {c} : conv_yuv'[d] = conv_yuv[d]
    BY <1>1, <1>4
  <2>3. /\ queue_yuv' \in Seq(YuvUnits) /\ Apart(queue_yuv', conv_yuv, vo_unit)
        /\ ~Has(queue_yuv', conv_yuv, vo_unit, u)
    BY <1>0, <1>6
  <2>1. /\ Apart(queue_yuv', conv_yuv', vo_unit)
        /\ \A v \in YuvUnits : Has(queue_yuv', conv_yuv', vo_unit, v) <=>
                                 Has(queue_yuv', conv_yuv, vo_unit, v) \/ v = u
    BY <1>1, <2>2, <2>3, TakeByConverter, Constants
  <2>q. QED
    BY <1>0, <1>6, <2>1, <2>2
<1>8. TypeOK'
  <2>1. rgb' \in [RgbUnits -> img_unit_rgb]
    BY <1>4, <1>t, <1>5 DEF TypeOK
  <2>2. conv' \in [Converters -> ConverterStates]
    BY <1>0, <1>1 DEF ConverterStates
  <2>3. queue_yuv' \in Seq(YuvUnits) /\ Len(queue_yuv') <= IMG_QUEUE_SIZE_YUV
    BY <1>0, <1>6, <1>t, ConstantsAssumption DEF TypeOK, ConstantsAssumption
  <2>q. QED
    BY <1>0, <1>7, <1>t, <2>1, <2>2, <2>3 DEF TypeOK
<1>9. ThreadsAgree'
  BY <1>0, <1>1, <1>4, <1>t, Constants DEF ThreadsAgree
<1>10. ParamsFollow'
  BY <1>0, <1>t DEF ParamsFollow, CopyMatches
<1>11. UnitsApart'
  BY <1>0, <1>5, <1>7, <1>t DEF UnitsApart
<1>12. FramesKnown'
  <2>1. RgbFrames'
    <3>1. conv'[c] = "convert" /\ conv_rgb'[c] = w /\ conv_yuv'[c] = u
      BY <1>0, <1>1, <1>3, <1>4
    <3>2. rgb'[conv_rgb'[c]].id = yuv'[conv_yuv'[c]].id
      BY <1>0, <1>5, <3>1
    <3>3. /\ \A d \in Converters \ {c} : conv'[d] = conv[d] /\ conv_yuv'[d] = conv_yuv[d]
                                          /\ conv_rgb'[d] = conv_rgb[d]
          /\ \A v \in RgbUnits : v # conv_rgb[c] => rgb'[v].id = rgb[v].id
                                                    /\ rgb'[v].frame = rgb[v].frame
      BY <1>0, <1>1, <1>3, <1>4, <1>5
    <3>q. QED
      BY <1>0, <3>1, <3>2, <3>3, OtherThreads
  <2>2. YuvFrames'
    <3>1. \A v : InQueue(Tail(queue_yuv), v) => InQueue(queue_yuv, v)
      BY <1>0, <1>1, Received DEF Apart
    <3>2. InQueue(queue_yuv, u)
      BY <1>0, <1>1, <1>2, Received
    <3>3. ASSUME NEW v \in YuvUnits,
                 InQueue(queue_yuv', v) \/ \E d \in Converters : conv_yuv'[d] = v
          PROVE  InQueue(queue_yuv, v) \/ \E d \in Converters : conv_yuv[d] = v
      BY <1>0, <1>1, <1>4, <3>1, <3>2, <3>3
    <3>q. QED
      BY <1>0, <1>t, <3>3 DEF YuvFrames, FramesKnown, Accepted, IdMatches
  <2>3. IdsFollow'
    BY <1>0, <1>t DEF FramesKnown, IdsFollow
  <2>q. QED
    BY <2>1, <2>2, <2>3 DEF FramesKnown
<1>q. QED
  BY <1>8, <1>9, <1>10, <1>11, <1>12 DEF Inductive

(* A converter fills its rgb image from its yuv image, or cannot.          *)
LEMMA ConvertDoPreserves ==
  ASSUME Inductive, NEW c \in Converters, ConvertDo(c)
  PROVE  Inductive'
<1>0. /\ UNCHANGED <<yuv, img_info, queue_yuv, queue_rgb, vo, vo_unit, idx_in_last, accepted,
                      conv_yuv, conv_rgb, out, out_unit, idx_out_last, shown, params, reconfig>>
      /\ conv[c] = "convert"
  BY DEF ConvertDo, voVars, outVars, playerVars
<1>t. TypeOK /\ ThreadsAgree /\ UnitsApart /\ FramesKnown /\ ParamsFollow
  BY DEF Inductive
<1>1. /\ conv \in [Converters -> ConverterStates]
      /\ conv_rgb[c] \in RgbUnits /\ conv_yuv[c] \in YuvUnits
  BY <1>0, <1>t DEF TypeOK, ThreadsAgree
<1>2. PICK w \in RgbUnits, u \in YuvUnits : w = conv_rgb[c] /\ u = conv_yuv[c]
  BY <1>1
<1>3. \E s \in {"put_yuv", "put_yuv_err"} : conv' = [conv EXCEPT ![c] = s]
  BY DEF ConvertDo
<1>4. \/ /\ rgb' = [rgb EXCEPT ![w].frame = yuv[u].frame]
         /\ conv' = [conv EXCEPT ![c] = "put_yuv"]
      \/ conv' = [conv EXCEPT ![c] = "put_yuv_err"] /\ UNCHANGED rgb
  BY <1>2 DEF ConvertDo
<1>5. ASSUME NEW v \in RgbUnits
      PROVE  /\ rgb'[v] \in img_unit_rgb
             /\ rgb'[v].state = rgb[v].state /\ rgb'[v].id = rgb[v].id
             /\ v # w => rgb'[v] = rgb[v]
             /\ v = w /\ conv'[c] = "put_yuv" => rgb'[v].frame = yuv[u].frame
  <2>1. CASE /\ rgb' = [rgb EXCEPT ![w].frame = yuv[u].frame]
             /\ conv' = [conv EXCEPT ![c] = "put_yuv"]
    BY <2>1, <1>t DEF TypeOK, img_unit_rgb, img_unit_yuv
  <2>2. CASE conv' = [conv EXCEPT ![c] = "put_yuv_err"] /\ UNCHANGED rgb
    BY <2>2, <1>1, <1>t DEF TypeOK
  <2>q. QED
    BY <1>4, <2>1, <2>2
<1>6. TypeOK'
  <2>1. rgb' \in [RgbUnits -> img_unit_rgb]
    BY <1>4, <1>t, <1>5 DEF TypeOK
  <2>2. conv' \in [Converters -> ConverterStates]
    BY <1>1, <1>3 DEF ConverterStates
  <2>q. QED
    BY <1>0, <1>t, <2>1, <2>2 DEF TypeOK
<1>7. ThreadsAgree'
  BY <1>0, <1>1, <1>3, <1>t, Constants DEF ThreadsAgree
<1>8. ParamsFollow' /\ UnitsApart'
  BY <1>0, <1>5, <1>t DEF ParamsFollow, CopyMatches, UnitsApart
<1>9. FramesKnown'
  <2>1. conv'[c] = "put_yuv" => Accepted(rgb[w])'
    <3>1. Accepted(yuv[u]) /\ rgb[w].id = yuv[u].id
      BY <1>0, <1>2, <1>t DEF FramesKnown, YuvFrames, RgbFrames
    <3>q. QED
      BY <1>0, <1>5, <3>1 DEF Accepted, IdMatches
  <2>2. conv'[c] # "convert" /\ conv'[c] # "send"
    BY <1>1, <1>3
  <2>3. /\ \A d \in Converters \ {c} : conv'[d] = conv[d] /\ conv_yuv'[d] = conv_yuv[d]
                                        /\ conv_rgb'[d] = conv_rgb[d]
        /\ \A v \in RgbUnits : v # conv_rgb[c] => rgb'[v].id = rgb[v].id
                                                  /\ rgb'[v].frame = rgb[v].frame
    BY <1>0, <1>1, <1>2, <1>3, <1>5
  <2>4. conv'[c] \in {"put_yuv", "send"} => Accepted(rgb[conv_rgb[c]])'
    BY <1>0, <1>2, <2>1, <2>2
  <2>5. RgbFrames'
    BY <1>0, <2>2, <2>3, <2>4, OtherThreads
  <2>6. YuvFrames' /\ IdsFollow'
    BY <1>0, <1>t DEF FramesKnown, YuvFrames, IdsFollow, Accepted, IdMatches
  <2>q. QED
    BY <2>5, <2>6 DEF FramesKnown
<1>q. QED
  BY <1>6, <1>7, <1>8, <1>9 DEF Inductive

(* A converter gives its yuv unit back and, after an error, forgets its    *)
(* rgb unit.                                                               *)
LEMMA ConvertPutYuvPreserves ==
  ASSUME Inductive, NEW c \in Converters, ConvertPutYuv(c)
  PROVE  Inductive'
<1>0. /\ UNCHANGED <<rgb, img_info, queue_yuv, queue_rgb, vo, vo_unit, idx_in_last, accepted,
                      out, out_unit, idx_out_last, shown, params, reconfig>>
      /\ conv_yuv' = [conv_yuv EXCEPT ![c] = None]
  BY DEF ConvertPutYuv, voVars, outVars, playerVars
<1>t. TypeOK /\ ThreadsAgree /\ UnitsApart /\ FramesKnown /\ ParamsFollow
  BY DEF Inductive
<1>1. /\ conv \in [Converters -> ConverterStates]
      /\ conv_rgb \in [Converters -> RgbUnits \cup {None}] /\ conv_rgb[c] \in RgbUnits
      /\ conv_yuv \in [Converters -> YuvUnits \cup {None}] /\ conv_yuv[c] \in YuvUnits
  BY <1>t DEF TypeOK, ThreadsAgree, ConvertPutYuv
<1>2. PICK u \in YuvUnits : u = conv_yuv[c]
  BY <1>1
<1>3. yuv' = [yuv EXCEPT ![u].state = "FREE"]
  BY <1>2 DEF ConvertPutYuv, PutBack
<1>4. \/ conv[c] = "put_yuv" /\ conv' = [conv EXCEPT ![c] = "send"] /\ UNCHANGED conv_rgb
      \/ /\ conv[c] = "put_yuv_err" /\ conv' = [conv EXCEPT ![c] = "get_rgb"]
         /\ conv_rgb' = [conv_rgb EXCEPT ![c] = None]
  BY DEF ConvertPutYuv
<1>5. ASSUME NEW v \in YuvUnits
      PROVE  /\ yuv'[v] \in img_unit_yuv
             /\ yuv'[v].state = IF v = u THEN "FREE" ELSE yuv[v].state
             /\ yuv'[v].img = yuv[v].img
             /\ yuv'[v].id = yuv[v].id /\ yuv'[v].frame = yuv[v].frame
  BY <1>3, <1>t DEF TypeOK, img_unit_yuv
<1>6. /\ conv_yuv' \in [Converters -> YuvUnits \cup {None}] /\ conv_yuv'[c] = None
      /\ \A d \in Converters \ {c} : conv_yuv'[d] = conv_yuv[d]
  BY <1>0, <1>1
<1>7. /\ conv_rgb' \in [Converters -> RgbUnits \cup {None}]
      /\ conv' \in [Converters -> ConverterStates]
      /\ \A d \in Converters \ {c} : conv_rgb'[d] = conv_rgb[d] /\ conv'[d] = conv[d]
      /\ \/ conv[c] = "put_yuv" /\ conv'[c] = "send" /\ conv_rgb'[c] = conv_rgb[c]
         \/ conv[c] = "put_yuv_err" /\ conv'[c] = "get_rgb" /\ conv_rgb'[c] = None
  <2>1. CASE conv[c] = "put_yuv" /\ conv' = [conv EXCEPT ![c] = "send"] /\ UNCHANGED conv_rgb
    BY <1>1, <2>1 DEF ConverterStates
  <2>2. CASE /\ conv[c] = "put_yuv_err" /\ conv' = [conv EXCEPT ![c] = "get_rgb"]
             /\ conv_rgb' = [conv_rgb EXCEPT ![c] = None]
    BY <1>1, <2>2 DEF ConverterStates
  <2>q. QED
    BY <1>4, <2>1, <2>2
<1>8. TypeOK'
  <2>1. yuv' \in [YuvUnits -> img_unit_yuv]
    BY <1>3, <1>t, <1>5 DEF TypeOK
  <2>q. QED
    BY <1>0, <1>6, <1>7, <1>t, <2>1 DEF TypeOK
<1>9. ThreadsAgree'
  <2>1. ASSUME NEW d \in Converters
        PROVE  /\ conv_yuv'[d] = None <=> conv'[d] \in {"get_rgb", "recv", "send"}
               /\ conv_rgb'[d] = None <=> conv'[d] = "get_rgb"
    <3>1. CASE d = c
      BY <1>1, <1>6, <1>7, <3>1, Constants
    <3>2. CASE d # c
      BY <1>6, <1>7, <1>t, <3>2 DEF ThreadsAgree
    <3>q. QED
      BY <3>1, <3>2
  <2>q. QED
    BY <1>0, <1>t, <2>1 DEF ThreadsAgree
<1>10. ParamsFollow'
  <2>1. vo = "copy" => \E w \in YuvUnits : w = vo_unit /\ yuv'[w].img = yuv[w].img
    BY <1>5, <1>t DEF TypeOK, ThreadsAgree
  <2>q. QED
    BY <1>0, <1>t, <2>1 DEF ParamsFollow, CopyMatches
<1>11. UnitsApart'
  <2>1. /\ Apart(queue_yuv, conv_yuv', vo_unit)
        /\ \A v \in YuvUnits : Has(queue_yuv, conv_yuv', vo_unit, v) <=>
                                 Has(queue_yuv, conv_yuv, vo_unit, v) /\ v # u
    <3>1. /\ queue_yuv \in Seq(YuvUnits) /\ vo_unit \in YuvUnits \cup {None}
          /\ Apart(queue_yuv, conv_yuv, vo_unit) /\ conv_yuv[c] # None
      BY <1>1, <1>t, Constants DEF TypeOK, UnitsApart
    <3>q. QED
      BY <1>1, <1>2, <1>6, <3>1, GiveByConverter, Constants
  <2>2. /\ Apart(queue_rgb, conv_rgb', out_unit)
        /\ \A v \in RgbUnits : Has(queue_rgb, conv_rgb', out_unit, v)
                                 => Has(queue_rgb, conv_rgb, out_unit, v)
    <3>1. /\ queue_rgb \in Seq(RgbUnits) /\ out_unit \in RgbUnits \cup {None}
          /\ Apart(queue_rgb, conv_rgb, out_unit) /\ conv_rgb[c] # None
      BY <1>1, <1>t, Constants DEF TypeOK, UnitsApart
    <3>2. CASE conv_rgb' = conv_rgb
      BY <3>1, <3>2
    <3>3. CASE conv_rgb'[c] = None
      BY <1>1, <1>7, <3>1, <3>3, GiveByConverter, Constants
    <3>q. QED
      BY <1>4, <1>7, <3>2, <3>3
  <2>q. QED
    BY <1>0, <1>5, <1>t, <2>1, <2>2 DEF UnitsApart
<1>12. FramesKnown'
  <2>1. RgbFrames'
    <3>1. conv'[c] = "send" => Accepted(rgb[conv_rgb[c]])'
      <4>1. PICK w \in RgbUnits : w = conv_rgb[c]
        BY <1>1
      <4>2. conv[c] = "put_yuv" => Accepted(rgb[w])
        BY <1>t, <4>1 DEF FramesKnown, RgbFrames
      <4>3. Accepted(rgb[w]) => Accepted(rgb[w])'
        BY <1>0 DEF Accepted, IdMatches
      <4>q. QED
        BY <1>7, <4>1, <4>2, <4>3
    <3>2. conv'[c] # "convert" /\ conv'[c] # "put_yuv"
      BY <1>7
    <3>q. QED
      BY <1>0, <1>5, <1>6, <1>7, <3>1, <3>2, OtherThreads
  <2>2. YuvFrames'
    <3>1. \A v \in YuvUnits : Accepted(yuv[v]) => Accepted(yuv[v])'
      BY <1>0, <1>5 DEF Accepted, IdMatches
    <3>2. \A v \in YuvUnits : (\E d \in Converters : conv_yuv'[d] = v)
                              => \E d \in Converters : conv_yuv[d] = v
      BY <1>6, Constants
    <3>q. QED
      BY <1>0, <1>t, <3>1, <3>2 DEF YuvFrames, FramesKnown
  <2>3. IdsFollow'
    <3>1. vo = "send" => \E w \in YuvUnits : /\ w = vo_unit /\ yuv'[w].id = yuv[w].id
                                             /\ yuv'[w].frame = yuv[w].frame
      BY <1>5, <1>t DEF TypeOK, ThreadsAgree
    <3>q. QED
      BY <1>0, <1>t, <3>1 DEF FramesKnown, IdsFollow
  <2>q. QED
    BY <2>1, <2>2, <2>3 DEF FramesKnown
<1>q. QED
  BY <1>8, <1>9, <1>10, <1>11, <1>12 DEF Inductive

(* A converter queues its rgb unit, or drops it when the queue is full.    *)
LEMMA ConvertSendPreserves ==
  ASSUME Inductive, NEW c \in Converters, ConvertSend(c)
  PROVE  Inductive'
<1>0. /\ UNCHANGED <<yuv, rgb, img_info, queue_yuv, vo, vo_unit, idx_in_last, accepted, conv_yuv,
                      out, out_unit, idx_out_last, shown, params, reconfig>>
      /\ conv[c] = "send" /\ conv' = [conv EXCEPT ![c] = "get_rgb"]
      /\ conv_rgb' = [conv_rgb EXCEPT ![c] = None]
  BY DEF ConvertSend, pools, voVars, outVars, playerVars
<1>t. TypeOK /\ ThreadsAgree /\ UnitsApart /\ FramesKnown /\ ParamsFollow
  BY DEF Inductive
<1>1. /\ conv \in [Converters -> ConverterStates]
      /\ conv_rgb \in [Converters -> RgbUnits \cup {None}] /\ conv_rgb[c] \in RgbUnits
      /\ queue_rgb \in Seq(RgbUnits) /\ out_unit \in RgbUnits \cup {None}
      /\ Apart(queue_rgb, conv_rgb, out_unit) /\ conv_rgb[c] # None
      /\ Len(queue_rgb) <= IMG_QUEUE_SIZE_RGB /\ Len(queue_rgb) \in Nat
  BY <1>0, <1>t, Constants, LenProperties DEF TypeOK, ThreadsAgree, UnitsApart
<1>2. PICK w \in RgbUnits : w = conv_rgb[c]
  BY <1>1
<1>3. /\ conv_rgb' \in [Converters -> RgbUnits \cup {None}] /\ conv_rgb'[c] = None
      /\ conv' \in [Converters -> ConverterStates] /\ conv'[c] = "get_rgb"
      /\ \A d \in Converters \ {c} : conv_rgb'[d] = conv_rgb[d] /\ conv'[d] = conv[d]
  BY <1>0, <1>1 DEF ConverterStates
<1>4. /\ Apart(queue_rgb, conv_rgb', out_unit) /\ ~Has(queue_rgb, conv_rgb', out_unit, w)
      /\ \A v \in RgbUnits : Has(queue_rgb, conv_rgb', out_unit, v) <=>
                               Has(queue_rgb, conv_rgb, out_unit, v) /\ v # w
  BY <1>1, <1>2, <1>3, GiveByConverter, Constants
<1>5. \/ UNCHANGED queue_rgb
      \/ /\ Len(queue_rgb) # IMG_QUEUE_SIZE_RGB
         /\ queue_rgb' = Append(queue_rgb, w)
  BY <1>2 DEF ConvertSend, IsFull
<1>6. /\ queue_rgb' \in Seq(RgbUnits) /\ Len(queue_rgb') <= IMG_QUEUE_SIZE_RGB
      /\ \A v : InQueue(queue_rgb', v) => InQueue(queue_rgb, v) \/ v = w
  <2>1. CASE queue_rgb' = queue_rgb
    BY <1>1, <2>1
  <2>2. CASE Len(queue_rgb) # IMG_QUEUE_SIZE_RGB /\ queue_rgb' = Append(queue_rgb, w)
    <3>1. /\ queue_rgb' \in Seq(RgbUnits) /\ Len(queue_rgb') = Len(queue_rgb) + 1
          /\ \A v : InQueue(queue_rgb', v) <=> InQueue(queue_rgb, v) \/ v = w
      BY <1>1, <2>2, Sent
    <3>q. QED
      BY <1>1, <2>2, <3>1, ConstantsAssumption DEF ConstantsAssumption
  <2>q. QED
    BY <1>5, <2>1, <2>2
<1>7. /\ Apart(queue_rgb', conv_rgb', out_unit)
      /\ \A v \in RgbUnits : Has(queue_rgb', conv_rgb', out_unit, v)
                               => Has(queue_rgb, conv_rgb, out_unit, v)
  <2>1. CASE queue_rgb' = queue_rgb
    BY <1>4, <2>1
  <2>2. CASE queue_rgb' = Append(queue_rgb, w)
    <3>1. /\ Apart(Append(queue_rgb, w), conv_rgb', out_unit)
          /\ \A v \in RgbUnits : Has(Append(queue_rgb, w), conv_rgb', out_unit, v) <=>
                                   Has(queue_rgb, conv_rgb', out_unit, v) \/ v = w
      BY <1>1, <1>3, <1>4, QueueUnit, Constants
    <3>2. Has(queue_rgb, conv_rgb, out_unit, w)
      BY <1>2 DEF Has
    <3>q. QED
      BY <1>4, <2>2, <3>1, <3>2
  <2>q. QED
    BY <1>5, <2>1, <2>2
<1>8. TypeOK'
  BY <1>0, <1>3, <1>6, <1>t DEF TypeOK
<1>9. ThreadsAgree'
  <2>1. ASSUME NEW d \in Converters
        PROVE  /\ conv_yuv'[d] = None <=> conv'[d] \in {"get_rgb", "recv", "send"}
               /\ conv_rgb'[d] = None <=> conv'[d] = "get_rgb"
    <3>1. CASE d = c
      BY <1>0, <1>3, <1>t, <3>1 DEF ThreadsAgree
    <3>2. CASE d # c
      BY <1>0, <1>3, <1>t, <3>2 DEF ThreadsAgree
    <3>q. QED
      BY <3>1, <3>2
  <2>q. QED
    BY <1>0, <1>t, <2>1 DEF ThreadsAgree
<1>10. ParamsFollow'
  BY <1>0, <1>t DEF ParamsFollow, CopyMatches
<1>11. UnitsApart'
  BY <1>0, <1>7, <1>t DEF UnitsApart
<1>12. FramesKnown'
  <2>1. \A v \in RgbUnits : Accepted(rgb[v]) => Accepted(rgb[v])'
    BY <1>0 DEF Accepted, IdMatches
  <2>2. Accepted(rgb[w])
    BY <1>0, <1>2, <1>t DEF FramesKnown, RgbFrames
  <2>3. ASSUME NEW v \in RgbUnits, InQueue(queue_rgb', v) \/ out_unit' = v
        PROVE  Accepted(rgb[v])'
    BY <1>0, <1>6, <1>t, <2>1, <2>2, <2>3 DEF FramesKnown, RgbFrames
  <2>4. ASSUME NEW d \in Converters
        PROVE  /\ conv'[d] = "convert" => rgb'[conv_rgb'[d]].id = yuv'[conv_yuv'[d]].id
               /\ conv'[d] \in {"put_yuv", "send"} => Accepted(rgb[conv_rgb[d]])'
    <3>1. CASE d = c
      BY <1>3, <3>1
    <3>2. CASE d # c
      <4>1. conv'[d] = conv[d] /\ conv_yuv'[d] = conv_yuv[d] /\ conv_rgb'[d] = conv_rgb[d]
        BY <1>0, <1>3, <3>2
      <4>2. CASE conv[d] \in {"put_yuv", "send"}
        <5>1. PICK x \in RgbUnits : x = conv_rgb[d]
          BY <1>t, <4>2 DEF TypeOK, ThreadsAgree
        <5>2. Accepted(rgb[x])'
          BY <1>t, <2>1, <4>2, <5>1 DEF FramesKnown, RgbFrames
        <5>q. QED
          BY <4>1, <4>2, <5>1, <5>2
      <4>3. CASE conv[d] \notin {"put_yuv", "send"}
        BY <1>0, <1>t, <4>1, <4>3 DEF FramesKnown, RgbFrames
      <4>q. QED
        BY <4>2, <4>3
    <3>q. QED
      BY <3>1, <3>2
  <2>5. RgbFrames'
    BY <2>3, <2>4 DEF RgbFrames
  <2>6. YuvFrames' /\ IdsFollow'
    BY <1>0, <1>t DEF FramesKnown, YuvFrames, IdsFollow, Accepted, IdMatches
  <2>q. QED
    BY <2>5, <2>6 DEF FramesKnown
<1>q. QED
  BY <1>8, <1>9, <1>10, <1>11, <1>12 DEF Inductive

(* The output thread takes the oldest rgb unit from the queue.             *)
LEMMA OutRecvPreserves ==
  ASSUME Inductive, OutRecv
  PROVE  Inductive'
<1>0. /\ UNCHANGED <<yuv, rgb, img_info, queue_yuv, vo, vo_unit, idx_in_last, accepted, conv,
                      conv_yuv, conv_rgb, idx_out_last, shown, params, reconfig>>
      /\ out = "recv" /\ out' = "draw"
      /\ queue_rgb # <<>> /\ queue_rgb' = Tail(queue_rgb) /\ out_unit' = Head(queue_rgb)
  BY DEF OutRecv, pools, voVars, convVars, playerVars
<1>t. TypeOK /\ ThreadsAgree /\ UnitsApart /\ FramesKnown /\ ParamsFollow
  BY DEF Inductive
<1>1. /\ queue_rgb \in Seq(RgbUnits) /\ conv_rgb \in [Converters -> RgbUnits \cup {None}]
      /\ out_unit \in RgbUnits \cup {None} /\ out_unit = None
      /\ Apart(queue_rgb, conv_rgb, out_unit)
  BY <1>0, <1>t DEF TypeOK, UnitsApart, ThreadsAgree
<1>2. PICK u \in RgbUnits : u = Head(queue_rgb)
  BY <1>0, <1>1, Received
<1>3. /\ queue_rgb' \in Seq(RgbUnits) /\ Len(queue_rgb') = Len(queue_rgb) - 1
      /\ Len(queue_rgb) \in Nat /\ InQueue(queue_rgb, u)
      /\ \A v : InQueue(queue_rgb', v) => InQueue(queue_rgb, v)
  <2>1. /\ queue_rgb' \in Seq(RgbUnits) /\ Len(queue_rgb') = Len(queue_rgb) - 1
        /\ Len(queue_rgb) \in Nat /\ InQueue(queue_rgb, u)
    BY <1>0, <1>1, <1>2, Received, LenProperties
  <2>2. \A v : InQueue(Tail(queue_rgb), v) => InQueue(queue_rgb, v)
    BY <1>0, <1>1, Received DEF Apart
  <2>q. QED
    BY <1>0, <2>1, <2>2
<1>4. /\ Apart(queue_rgb', conv_rgb, None) /\ ~Has(queue_rgb', conv_rgb, None, u)
      /\ Has(queue_rgb, conv_rgb, None, u)
      /\ \A v \in RgbUnits : Has(queue_rgb', conv_rgb, None, v) <=>
                               Has(queue_rgb, conv_rgb, None, v) /\ v # u
  <2>1. /\ Apart(Tail(queue_rgb), conv_rgb, out_unit)
        /\ ~Has(Tail(queue_rgb), conv_rgb, out_unit, u)
        /\ Has(queue_rgb, conv_rgb, out_unit, u)
        /\ \A v \in RgbUnits : Has(Tail(queue_rgb), conv_rgb, out_unit, v) <=>
                                 Has(queue_rgb, conv_rgb, out_unit, v) /\ v # u
    BY <1>0, <1>1, <1>2, UnqueueUnit, Constants
  <2>q. QED
    BY <1>0, <1>1, <2>1
<1>5. /\ Apart(queue_rgb', conv_rgb, u)
      /\ \A v \in RgbUnits : Has(queue_rgb', conv_rgb, u, v) <=>
                               Has(queue_rgb', conv_rgb, None, v) \/ v = u
  BY <1>1, <1>3, <1>4, TakeOrGive, Constants
<1>6. TypeOK'
  <2>1. Len(queue_rgb') <= IMG_QUEUE_SIZE_RGB
    BY <1>3, <1>t, ConstantsAssumption DEF TypeOK, ConstantsAssumption
  <2>q. QED
    BY <1>0, <1>2, <1>3, <1>t, <2>1 DEF TypeOK, OutStates
<1>7. ThreadsAgree' /\ ParamsFollow'
  BY <1>0, <1>2, <1>t, Constants DEF ThreadsAgree, ParamsFollow, CopyMatches
<1>8. UnitsApart'
  <2>1. out_unit' = u
    BY <1>0, <1>2
  <2>2. \A v \in RgbUnits : Has(queue_rgb', conv_rgb, u, v) => Has(queue_rgb, conv_rgb, out_unit, v)
    BY <1>1, <1>4, <1>5
  <2>q. QED
    BY <1>0, <1>5, <1>t, <2>1, <2>2 DEF UnitsApart
<1>9. FramesKnown'
  <2>1. \A v : Accepted(rgb[v]) => Accepted(rgb[v])'
    BY <1>0 DEF Accepted, IdMatches
  <2>2. RgbFrames'
    BY <1>0, <1>2, <1>3, <1>t, <2>1 DEF FramesKnown, RgbFrames
  <2>3. YuvFrames' /\ IdsFollow'
    BY <1>0, <1>t DEF FramesKnown, YuvFrames, IdsFollow, Accepted, IdMatches
  <2>q. QED
    BY <2>2, <2>3 DEF FramesKnown
<1>q. QED
  BY <1>6, <1>7, <1>8, <1>9 DEF Inductive

(* The output thread has an accepted frame under its id.                   *)
LEMMA OutputFrame ==
  ASSUME Inductive, out # "recv"
  PROVE  out_unit \in RgbUnits /\ Accepted(rgb[out_unit])
BY DEF Inductive, TypeOK, ThreadsAgree, FramesKnown, RgbFrames

(* The output thread shows a frame, or skips one that is not newer.        *)
LEMMA OutDrawPreserves ==
  ASSUME Inductive, OutDraw
  PROVE  Inductive'
<1>0. /\ UNCHANGED <<yuv, rgb, img_info, queue_yuv, queue_rgb, vo, vo_unit, idx_in_last, accepted,
                      conv, conv_yuv, conv_rgb, out_unit, params, reconfig>>
      /\ out = "draw" /\ out' = "put"
  BY DEF OutDraw, pools, voVars, convVars, playerVars
<1>t. TypeOK /\ ThreadsAgree /\ UnitsApart /\ FramesKnown /\ ParamsFollow
  BY DEF Inductive
<1>1. out_unit \in RgbUnits /\ Accepted(rgb[out_unit])
  BY <1>0, OutputFrame
<1>2. /\ rgb[out_unit].id = rgb[out_unit].frame % IdCount /\ rgb[out_unit].id \in Ids
      /\ rgb[out_unit].frame \in Frames /\ rgb[out_unit].frame < accepted
  BY <1>1, <1>t DEF Accepted, IdMatches, TypeOK, img_unit_rgb, Frames
<1>3. /\ idx_out_last' = shown' % IdCount /\ shown' < accepted'
      /\ idx_out_last' \in Ids /\ shown' \in Frames
  BY <1>0, <1>2, <1>t DEF OutDraw, FramesKnown, IdsFollow, TypeOK
<1>4. TypeOK' /\ ThreadsAgree' /\ UnitsApart' /\ ParamsFollow'
  BY <1>0, <1>3, <1>t DEF TypeOK, OutStates, ThreadsAgree, UnitsApart, ParamsFollow, CopyMatches
<1>5. FramesKnown'
  <2>1. IdsFollow'
    BY <1>0, <1>3, <1>t DEF FramesKnown, IdsFollow
  <2>2. YuvFrames' /\ RgbFrames'
    BY <1>0, <1>t DEF FramesKnown, YuvFrames, RgbFrames, Accepted, IdMatches
  <2>q. QED
    BY <2>1, <2>2 DEF FramesKnown
<1>q. QED
  BY <1>4, <1>5 DEF Inductive

(* The output thread gives its unit back.                                  *)
LEMMA OutPutPreserves ==
  ASSUME Inductive, OutPut
  PROVE  Inductive'
<1>0. /\ UNCHANGED <<yuv, img_info, queue_yuv, queue_rgb, vo, vo_unit, idx_in_last, accepted, conv,
                      conv_yuv, conv_rgb, idx_out_last, shown, params, reconfig>>
      /\ out = "put" /\ out' = "recv" /\ out_unit' = None
      /\ rgb' = [rgb EXCEPT ![out_unit].state = "FREE"]
  BY DEF OutPut, PutBack, voVars, convVars, playerVars
<1>t. TypeOK /\ ThreadsAgree /\ UnitsApart /\ FramesKnown /\ ParamsFollow
  BY DEF Inductive
<1>1. PICK u \in RgbUnits : u = out_unit
  BY <1>0, OutputFrame
<1>2. ASSUME NEW v \in RgbUnits
      PROVE  /\ rgb'[v] \in img_unit_rgb
             /\ rgb'[v].state = IF v = u THEN "FREE" ELSE rgb[v].state
             /\ rgb'[v].id = rgb[v].id /\ rgb'[v].frame = rgb[v].frame
  BY <1>0, <1>1, <1>t DEF TypeOK, img_unit_rgb
<1>3. TypeOK'
  <2>1. rgb' \in [RgbUnits -> img_unit_rgb]
    BY <1>0, <1>t, <1>2 DEF TypeOK
  <2>q. QED
    BY <1>0, <1>t, <2>1 DEF TypeOK, OutStates
<1>4. ThreadsAgree' /\ ParamsFollow'
  BY <1>0, <1>t DEF ThreadsAgree, ParamsFollow, CopyMatches
<1>5. UnitsApart'
  <2>1. /\ queue_rgb \in Seq(RgbUnits) /\ conv_rgb \in [Converters -> RgbUnits \cup {None}]
        /\ Apart(queue_rgb, conv_rgb, u) /\ u # None
    BY <1>1, <1>t, Constants DEF TypeOK, UnitsApart
  <2>2. /\ Apart(queue_rgb, conv_rgb, None)
        /\ \A v \in RgbUnits : Has(queue_rgb, conv_rgb, None, v) <=>
                                 Has(queue_rgb, conv_rgb, u, v) /\ v # u
    BY <2>1, TakeOrGive, Constants
  <2>q. QED
    BY <1>0, <1>1, <1>t, <1>2, <2>2 DEF UnitsApart
<1>6. FramesKnown'
  <2>1. \A v \in RgbUnits : Accepted(rgb[v]) => Accepted(rgb[v])'
    BY <1>0, <1>2 DEF Accepted, IdMatches
  <2>2. \A v \in RgbUnits : InQueue(queue_rgb', v) \/ out_unit' = v => Accepted(rgb[v])'
    BY <1>0, <1>t, <2>1, Constants DEF FramesKnown, RgbFrames
  <2>3. ASSUME NEW d \in Converters
        PROVE  /\ conv'[d] = "convert" => rgb'[conv_rgb'[d]].id = yuv'[conv_yuv'[d]].id
               /\ conv'[d] \in {"put_yuv", "send"} => Accepted(rgb[conv_rgb[d]])'
    <3>1. CASE conv[d] \in {"convert", "put_yuv", "send"}
      <4>1. PICK x \in RgbUnits : x = conv_rgb[d]
        BY <1>t, <3>1 DEF TypeOK, ThreadsAgree
      <4>2. conv[d] # "convert" => Accepted(rgb[x])'
        BY <1>t, <2>1, <3>1, <4>1 DEF FramesKnown, RgbFrames
      <4>3. conv[d] = "convert" => rgb'[x].id = yuv[conv_yuv[d]].id
        BY <1>2, <1>t, <4>1 DEF FramesKnown, RgbFrames
      <4>q. QED
        BY <1>0, <3>1, <4>1, <4>2, <4>3
    <3>q. QED
      BY <1>0, <3>1
  <2>4. RgbFrames'
    BY <2>2, <2>3 DEF RgbFrames
  <2>5. YuvFrames' /\ IdsFollow'
    BY <1>0, <1>t DEF FramesKnown, YuvFrames, IdsFollow, Accepted, IdMatches
  <2>q. QED
    BY <2>4, <2>5 DEF FramesKnown
<1>q. QED
  BY <1>3, <1>4, <1>5, <1>6 DEF Inductive

(* The player changes the parameters of the frames, and then those of the  *)
(* pool.                                                                   *)
LEMMA PlayerPreserves ==
  ASSUME Inductive, vo_reconfig \/ Vo_Dmx_ChangeParam
  PROVE  Inductive'
<1>0. /\ UNCHANGED <<yuv, rgb, queue_yuv, queue_rgb, vo, vo_unit, idx_in_last, accepted, conv,
                      conv_yuv, conv_rgb, out, out_unit, idx_out_last, shown>>
      /\ \/ /\ vo = "idle" /\ params' \in Params /\ reconfig' = TRUE
            /\ UNCHANGED img_info
         \/ /\ reconfig /\ img_info' = params /\ reconfig' = FALSE
            /\ UNCHANGED params
  BY DEF vo_reconfig, Vo_Dmx_ChangeParam, Img_Pool_UpdateParams, StillDisplaying, pools, voVars,
         convVars, outVars
<1>1. TypeOK' /\ ThreadsAgree' /\ UnitsApart' /\ ParamsFollow'
  BY <1>0 DEF Inductive, TypeOK, ThreadsAgree, UnitsApart, ParamsFollow, CopyMatches
<1>2. FramesKnown'
  BY <1>0 DEF Inductive, FramesKnown, IdsFollow, YuvFrames, RgbFrames, Accepted, IdMatches
<1>q. QED
  BY <1>1, <1>2 DEF Inductive

(* The invariant holds when the pipeline has been set up.                  *)
LEMMA InitInductive ==
  ASSUME Init
  PROVE  Inductive
<1>1. TypeOK
  <2>1. /\ YuvPoolInit(params) \in [YuvUnits -> img_unit_yuv]
        /\ RgbPoolInit \in [RgbUnits -> img_unit_rgb]
    BY Constants DEF Init, YuvPoolInit, RgbPoolInit, img_unit_yuv, img_unit_rgb, Ids, Frames
  <2>2. /\ <<>> \in Seq(YuvUnits) /\ <<>> \in Seq(RgbUnits) /\ Len(<<>>) = 0
    BY EmptySeq
  <2>3. IMG_QUEUE_SIZE_YUV >= 0 /\ IMG_QUEUE_SIZE_RGB >= 0
    BY ConstantsAssumption DEF ConstantsAssumption
  <2>4. /\ yuv \in [YuvUnits -> img_unit_yuv] /\ rgb \in [RgbUnits -> img_unit_rgb]
        /\ img_info \in Params /\ params \in Params /\ reconfig \in BOOLEAN
    BY <2>1 DEF Init
  <2>5. /\ queue_yuv \in Seq(YuvUnits) /\ Len(queue_yuv) <= IMG_QUEUE_SIZE_YUV
        /\ queue_rgb \in Seq(RgbUnits) /\ Len(queue_rgb) <= IMG_QUEUE_SIZE_RGB
    BY <2>2, <2>3 DEF Init
  <2>6. /\ vo \in VoStates /\ vo_unit \in YuvUnits \cup {None}
        /\ conv \in [Converters -> ConverterStates]
        /\ conv_yuv \in [Converters -> YuvUnits \cup {None}]
        /\ conv_rgb \in [Converters -> RgbUnits \cup {None}]
        /\ out \in OutStates /\ out_unit \in RgbUnits \cup {None}
    BY DEF Init, VoStates, ConverterStates, OutStates
  <2>7. /\ idx_in_last \in Ids /\ idx_out_last \in Ids
        /\ accepted \in 0 .. MaxFrames /\ shown \in Frames
    BY Constants DEF Init, Ids, Frames
  <2>q. QED
    BY <2>4, <2>5, <2>6, <2>7 DEF TypeOK
<1>2. ThreadsAgree /\ ParamsFollow
  BY DEF Init, ThreadsAgree, ParamsFollow, CopyMatches
<1>3. UnitsApart
  <2>1. \A u : ~InQueue(<<>>, u)
    BY EmptySeq, LenProperties DEF InQueue
  <2>2. NoDuplicates(<<>>)
    BY EmptySeq, LenProperties DEF NoDuplicates
  <2>3. Apart(queue_yuv, conv_yuv, vo_unit) /\ Apart(queue_rgb, conv_rgb, out_unit)
    BY <2>1, <2>2 DEF Init, Apart
  <2>4. /\ \A u \in YuvUnits : ~Has(queue_yuv, conv_yuv, vo_unit, u) /\ yuv[u].state # "USED"
        /\ \A u \in RgbUnits : ~Has(queue_rgb, conv_rgb, out_unit, u)
    BY <2>1, Constants DEF Init, Has, YuvPoolInit
  <2>q. QED
    BY <2>3, <2>4 DEF UnitsApart
<1>4. FramesKnown
  <2>1. 0 % IdCount = 0 /\ (-1) % IdCount = IdCount - 1
    <3>1. PICK n \in Nat \ {0} : n = IdCount
      BY Constants
    <3>2. 0 % n = 0 /\ (-1) % n = n - 1
      BY <3>1
    <3>q. QED
      BY <3>1, <3>2
  <2>2. IdsFollow
    BY <2>1 DEF Init, IdsFollow
  <2>3. \A u : ~InQueue(<<>>, u)
    BY EmptySeq, LenProperties DEF InQueue
  <2>4. YuvFrames /\ RgbFrames
    BY <2>3, Constants DEF Init, YuvFrames, RgbFrames
  <2>q. QED
    BY <2>2, <2>4 DEF FramesKnown
<1>q. QED
  BY <1>1, <1>2, <1>3, <1>4 DEF Inductive

(* Every step of the pipeline and of the player keeps the invariant.       *)
LEMMA NextInductive ==
  ASSUME Inductive, [Next]_vars
  PROVE  Inductive'
<1>1. CASE Next
  BY <1>1, GetPreserves, CopyPreserves, SendPreserves, PutPreserves, ConvertGetRgbPreserves,
     ConvertRecvPreserves, ConvertDoPreserves, ConvertPutYuvPreserves, ConvertSendPreserves,
     OutRecvPreserves, OutDrawPreserves, OutPutPreserves, PlayerPreserves DEF Next, VoStep,
     ConvertStep, OutStep
<1>2. CASE UNCHANGED vars
  <2>1. TypeOK' /\ ThreadsAgree' /\ UnitsApart' /\ ParamsFollow'
    BY <1>2 DEF Inductive, TypeOK, ThreadsAgree, UnitsApart, ParamsFollow, CopyMatches, vars,
       pools, voVars, convVars, outVars, playerVars
  <2>2. FramesKnown'
    BY <1>2 DEF Inductive, FramesKnown, IdsFollow, YuvFrames, RgbFrames, Accepted, IdMatches,
       vars, pools, voVars, convVars, outVars, playerVars
  <2>q. QED
    BY <2>1, <2>2 DEF Inductive
<1>q. QED
  BY <1>1, <1>2

(* The inductive invariant: types, who has which unit, and what is in it.  *)
THEOREM InductiveHolds == Spec => []Inductive
<1>1. Init => Inductive
  BY InitInductive
<1>2. Inductive /\ [Next]_vars => Inductive'
  BY NextInductive
<1>q. QED
  BY <1>1, <1>2, PTL DEF Spec

(* A unit has an owner exactly if a thread or the queue has it.            *)
LEMMA OwnersHave ==
  ASSUME NEW u
  PROVE  /\ YuvOwners(u) # {} <=> Has(queue_yuv, conv_yuv, vo_unit, u)
         /\ RgbOwners(u) # {} <=> Has(queue_rgb, conv_rgb, out_unit, u)
<1>1. YuvOwners(u) # {} <=> Has(queue_yuv, conv_yuv, vo_unit, u)
  BY DEF YuvOwners, Positions, Has, InQueue
<1>2. RgbOwners(u) # {} <=> Has(queue_rgb, conv_rgb, out_unit, u)
  BY DEF RgbOwners, Positions, Has, InQueue
<1>q. QED
  BY <1>1, <1>2

(* A unit has at most one owner.                                           *)
LEMMA OneOwner ==
  ASSUME Inductive
  PROVE  /\ \A u \in YuvUnits : \A a, b \in YuvOwners(u) : a = b
         /\ \A u \in RgbUnits : \A a, b \in RgbOwners(u) : a = b
<1>t. UnitsApart
  BY DEF Inductive
<1>1. ASSUME NEW u \in YuvUnits, NEW a \in YuvOwners(u), NEW b \in YuvOwners(u)
      PROVE  a = b
  <2>1. \A x \in YuvOwners(u) :
          \/ \E c \in Converters : x = <<"conv", c>> /\ conv_yuv[c] = u
          \/ \E i \in DOMAIN queue_yuv : x = <<"queue", i>> /\ queue_yuv[i] = u
          \/ x = <<"vo", 1>> /\ vo_unit = u
    BY DEF YuvOwners, Positions
  <2>2. /\ \A c, d \in Converters : conv_yuv[c] = u /\ conv_yuv[d] = u => c = d
        /\ \A i, j \in DOMAIN queue_yuv : queue_yuv[i] = u /\ queue_yuv[j] = u => i = j
        /\ \A c \in Converters : conv_yuv[c] = u => vo_unit # u
        /\ \A i \in DOMAIN queue_yuv : queue_yuv[i] = u => vo_unit # u
        /\ \A c \in Converters, i \in DOMAIN queue_yuv :
             conv_yuv[c] = u => queue_yuv[i] # u
    BY <1>t, Constants DEF UnitsApart, Apart, InQueue, NoDuplicates
  <2>q. QED
    BY <2>1, <2>2
<1>2. ASSUME NEW u \in RgbUnits, NEW a \in RgbOwners(u), NEW b \in RgbOwners(u)
      PROVE  a = b
  <2>1. \A x \in RgbOwners(u) :
          \/ \E c \in Converters : x = <<"conv", c>> /\ conv_rgb[c] = u
          \/ \E i \in DOMAIN queue_rgb : x = <<"queue", i>> /\ queue_rgb[i] = u
          \/ x = <<"out", 1>> /\ out_unit = u
    BY DEF RgbOwners, Positions
  <2>2. /\ \A c, d \in Converters : conv_rgb[c] = u /\ conv_rgb[d] = u => c = d
        /\ \A i, j \in DOMAIN queue_rgb : queue_rgb[i] = u /\ queue_rgb[j] = u => i = j
        /\ \A c \in Converters : conv_rgb[c] = u => out_unit # u
        /\ \A i \in DOMAIN queue_rgb : queue_rgb[i] = u => out_unit # u
        /\ \A c \in Converters, i \in DOMAIN queue_rgb :
             conv_rgb[c] = u => queue_rgb[i] # u
    BY <1>t, Constants DEF UnitsApart, Apart, InQueue, NoDuplicates
  <2>q. QED
    BY <2>1, <2>2
<1>q. QED
  BY <1>1, <1>2

(* No image buffer is used by two threads, or by a thread and a queue, and *)
(* no yuv buffer is ever lost.                                             *)
THEOREM OwnershipHolds == Spec => []Ownership
<1>1. Inductive => Ownership
  <2>1. ASSUME Inductive
        PROVE  UnitsOwnedOnce
    <3>1. /\ \A u \in YuvUnits : yuv[u].state = "FREE" => YuvOwners(u) = {}
          /\ \A u \in RgbUnits : rgb[u].state = "FREE" => RgbOwners(u) = {}
      BY <2>1, OwnersHave DEF Inductive, UnitsApart
    <3>q. QED
      BY <2>1, <3>1, OneOwner DEF UnitsOwnedOnce
  <2>2. ASSUME Inductive
        PROVE  YuvUnitsKept
    BY <2>2, OwnersHave DEF Inductive, UnitsApart, YuvUnitsKept
  <2>q. QED
    BY <2>1, <2>2 DEF Inductive, Ownership
<1>q. QED
  BY <1>1, InductiveHolds, PTL

(* An image in the pipeline is the one its id was given for, and the copy  *)
(* of a frame has the format it needs.                                     *)
THEOREM ImagesIntactHolds == Spec => []ImagesIntact
<1>1. Inductive => ImagesIntact
  BY DEF Inductive, FramesKnown, YuvFrames, RgbFrames, Accepted, ParamsFollow, ImagesIntact,
         ContentsMatch
<1>q. QED
  BY <1>1, InductiveHolds, PTL

(* A union has no more elements than its parts together.                   *)
LEMMA UnionBound ==
  ASSUME NEW S, IsFiniteSet(S), NEW T, IsFiniteSet(T)
  PROVE  IsFiniteSet(S \cup T) /\ Cardinality(S \cup T) <= Cardinality(S) + Cardinality(T)
<1>1. /\ IsFiniteSet(S \cup T)
      /\ Cardinality(S \cup T) = Cardinality(S) + Cardinality(T) - Cardinality(S \cap T)
  BY FS_Union
<1>2. /\ Cardinality(S) \in Nat /\ Cardinality(T) \in Nat /\ Cardinality(S \cap T) \in Nat
  <2>1. IsFiniteSet(S \cap T)
    BY FS_Subset
  <2>q. QED
    BY <2>1, FS_CardinalityType
<1>q. QED
  BY <1>1, <1>2

(* While no rgb unit is lost, the threads and the queue have fewer of them *)
(* than the pool holds if a converter is looking for one.                  *)
LEMMA PoolCount ==
  ASSUME Inductive, NEW c \in Converters, conv[c] = "get_rgb",
         \A u \in RgbUnits : Has(queue_rgb, conv_rgb, out_unit, u)
  PROVE  FALSE
<1>t. TypeOK /\ ThreadsAgree
  BY DEF Inductive
<1> DEFINE Others == Converters \ {c}
           Held == {conv_rgb[d] : d \in Others}
           Queued == {queue_rgb[i] : i \in 1 .. Len(queue_rgb)}
           holder == [d \in Others |-> conv_rgb[d]]
           place == [i \in 1 .. Len(queue_rgb) |-> queue_rgb[i]]
<1>1. IsFiniteSet(Others) /\ Cardinality(Others) = Cardinality(Converters) - 1
  BY ConstantsAssumption, FS_RemoveElement DEF ConstantsAssumption
<1>2. IsFiniteSet(Held) /\ Cardinality(Held) <= Cardinality(Others)
  <2>1. holder \in Surjection(Others, Held)
    BY DEF Surjection
  <2>q. QED
    BY <1>1, <2>1, FS_Surjection
<1>3. /\ queue_rgb \in Seq(RgbUnits) /\ Len(queue_rgb) \in Nat
      /\ Len(queue_rgb) <= IMG_QUEUE_SIZE_RGB /\ DOMAIN queue_rgb = 1 .. Len(queue_rgb)
  BY <1>t, LenProperties DEF TypeOK
<1>4. IsFiniteSet(Queued) /\ Cardinality(Queued) <= Len(queue_rgb)
  <2>1. place \in Surjection(1 .. Len(queue_rgb), Queued)
    BY DEF Surjection
  <2>2. IsFiniteSet(1 .. Len(queue_rgb)) /\ Cardinality(1 .. Len(queue_rgb)) = Len(queue_rgb)
    BY <1>3, FS_Interval
  <2>3. ASSUME NEW S, IsFiniteSet(S), place \in Surjection(S, Queued)
        PROVE  IsFiniteSet(Queued) /\ Cardinality(Queued) <= Cardinality(S)
    <3> HIDE DEF place, Queued
    <3>q. QED
      BY <2>3, FS_Surjection
  <2>q. QED
    BY <2>1, <2>2, <2>3
<1>5. IsFiniteSet({out_unit}) /\ Cardinality({out_unit}) = 1
  BY FS_Singleton
<1> DEFINE Owned == Held \cup Queued \cup {out_unit}
<1>6. RgbUnits \subseteq Owned
  <2>1. conv_rgb[c] = None
    BY <1>t DEF ThreadsAgree
  <2>q. QED
    BY <1>3, <2>1, Constants DEF Has, InQueue
<1>7. /\ IsFiniteSet(Owned)
      /\ Cardinality(Owned) <= (Cardinality(Converters) - 1) + IMG_QUEUE_SIZE_RGB + 1
  <2> HIDE DEF Held, Queued, Others
  <2>1. /\ IsFiniteSet(Held \cup Queued)
        /\ Cardinality(Held \cup Queued) <= Cardinality(Held) + Cardinality(Queued)
    BY <1>2, <1>4, UnionBound
  <2>2. IsFiniteSet(Owned) /\ Cardinality(Owned) <= Cardinality(Held \cup Queued) + 1
    <3>1. PICK S : S = Held \cup Queued
      OBVIOUS
    <3>2. PICK T : T = {out_unit}
      OBVIOUS
    <3>q. QED
      BY <1>5, <2>1, <3>1, <3>2, UnionBound
  <2>3. /\ Cardinality(Held) \in Nat /\ Cardinality(Queued) \in Nat
        /\ Cardinality(Held \cup Queued) \in Nat /\ Cardinality(Owned) \in Nat
        /\ Cardinality(Converters) \in Nat /\ IMG_QUEUE_SIZE_RGB \in Nat
    BY <1>2, <1>4, <2>1, <2>2, Constants, ConstantsAssumption, FS_CardinalityType DEF
       ConstantsAssumption
  <2> HIDE DEF Owned
  <2>q. QED
    BY <1>1, <1>2, <1>3, <1>4, <2>1, <2>2, <2>3
<1>8. Cardinality(RgbUnits) = Cardinality(Converters) + IMG_QUEUE_SIZE_RGB + 1
  BY Constants, ConstantsAssumption, FS_Interval DEF RgbUnits, IMG_POOL_SIZE_RGB,
     ConstantsAssumption
<1>9. Cardinality(RgbUnits) <= Cardinality(Owned) /\ Cardinality(Owned) \in Nat
  BY <1>6, <1>7, FS_Subset, FS_CardinalityType
<1> HIDE DEF Owned
<1>q. QED
  BY <1>7, <1>8, <1>9, Constants, ConstantsAssumption DEF ConstantsAssumption

(* The spare unit of the rgb pool is enough for a converter to find one.   *)
THEOREM RgbPoolSufficesHolds == Spec => []RgbPoolSuffices
<1>1. Inductive => RgbPoolSuffices
  <2>1. SUFFICES ASSUME Inductive, NEW c \in Converters, conv[c] = "get_rgb", RgbUnitsKept,
                        \A u \in RgbUnits : rgb[u].state # "FREE"
                 PROVE  FALSE
    BY DEF RgbPoolSuffices
  <2>2. \A u \in RgbUnits : rgb[u].state = "USED"
    BY <2>1 DEF Inductive, TypeOK, img_unit_rgb
  <2>3. \A u \in RgbUnits : Has(queue_rgb, conv_rgb, out_unit, u)
    BY <2>1, <2>2, OwnersHave DEF RgbUnitsKept, Lost
  <2>q. QED
    BY <2>1, <2>3, PoolCount
<1>q. QED
  BY <1>1, InductiveHolds, PTL

(* The output thread shows a frame only if it is newer than the last, as   *)
(* long as the ids of the frames do not reach the upper half of the range. *)
LEMMA ShowsNewer ==
  ASSUME Inductive, OutDraw, MaxFrames <= IdHalf
  PROVE  shown' = shown \/ shown' \in shown + 1 .. accepted - 1
<1>t. TypeOK /\ FramesKnown
  BY DEF Inductive
<1>1. out_unit \in RgbUnits /\ Accepted(rgb[out_unit])
  BY OutputFrame DEF OutDraw
<1>2. PICK f \in 0 .. accepted - 1 : f = rgb[out_unit].frame /\ rgb[out_unit].id = f % IdCount
  BY <1>1 DEF Accepted, IdMatches
<1>3. PICK n \in Nat \ {0} : n = IdHalf
  BY Constants
<1>4. /\ accepted \in Nat /\ accepted <= n /\ IdCount = 2 * n /\ shown \in Int
      /\ shown >= -1 /\ shown < accepted /\ idx_out_last = shown % IdCount
  BY <1>3, <1>t, Constants DEF TypeOK, FramesKnown, IdsFollow, Frames, IdCount
<1>5. rgb[out_unit].id = f
  BY <1>2, <1>4
<1>6. CASE IsNewer(f)
  <2>1. shown # -1 => idx_out_last = shown
    BY <1>4
  <2>2. f > shown
    BY <1>2, <1>3, <1>4, <1>6, <2>1 DEF IsNewer, HighBit
  <2>3. shown' = f
    BY <1>2, <1>5, <1>6 DEF OutDraw
  <2>q. QED
    BY <1>4, <2>2, <2>3
<1>7. CASE ~IsNewer(f)
  BY <1>5, <1>7 DEF OutDraw
<1>q. QED
  BY <1>6, <1>7

(* The pipeline implements FrameOutput: of the accepted frames it shows    *)
(* some, in order and each at most once, while fewer frames were accepted  *)
(* than half the number of ids.                                            *)
THEOREM FrameOutputImplemented ==
  ASSUME MaxFrames <= IdHalf
  PROVE  Spec => ImplementsFrameOutput
<1>1. Init => FrameAbstraction!Init
  BY DEF Init, FrameAbstraction!Init
<1>2. Inductive /\ [Next]_vars => [FrameAbstraction!Next]_<<accepted, shown>>
  <2>1. SUFFICES ASSUME Inductive, [Next]_vars
                 PROVE  [FrameAbstraction!Next]_<<accepted, shown>>
    OBVIOUS
  <2>2. CASE ProcessSend
    BY <2>2 DEF ProcessSend, outVars, FrameAbstraction!Next, FrameAbstraction!Accept
  <2>3. CASE OutDraw
    <3>1. accepted' = accepted
      BY <2>3 DEF OutDraw, voVars
    <3>2. shown' = shown \/ shown' \in shown + 1 .. accepted - 1
      BY <2>1, <2>3, ShowsNewer
    <3>q. QED
      BY <3>1, <3>2 DEF FrameAbstraction!Next, FrameAbstraction!Show
  <2>4. CASE [Next]_vars /\ ~ProcessSend /\ ~OutDraw
    <3>1. UNCHANGED <<accepted, shown>>
      BY <2>4 DEF Next, VoStep, ConvertStep, OutStep, ProcessGet, ProcessCopy, ProcessPut,
         ConvertGetRgb, ConvertRecv, ConvertDo, ConvertPutYuv, ConvertSend, OutRecv, OutPut,
         vo_reconfig, Vo_Dmx_ChangeParam, voVars, outVars, vars
    <3>q. QED
      BY <3>1
  <2>q. QED
    BY <2>1, <2>2, <2>3, <2>4
<1>q. QED
  BY <1>1, <1>2, InductiveHolds, PTL DEF Spec, ImplementsFrameOutput, FrameAbstraction!Spec

==============================================================================
