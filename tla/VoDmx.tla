------------------------------- MODULE VoDmx -------------------------------
(***************************************************************************)
(* The image pipeline of lq/vo_dmx.c: the VO thread copies each frame into *)
(* a unit of a pool and queues it, a pool of threads converts YUV to RGB   *)
(* and queues the results, and one thread outputs them in order.           *)
(*                                                                         *)
(*   Vo_Dmx_Process -> yuv queue -> _thread_yuv2rgb (N) -> rgb queue       *)
(*                                                  -> _thread_rgb_out     *)
(*                                                                         *)
(* Init is the state after a successful Vo_Dmx_Init.  Each call of         *)
(* Img_Pool_Get, Img_Pool_Put, Img_Queue_Send and Img_Queue_Recv is one    *)
(* action: it runs under the mutex of its pool or queue.  The queues are   *)
(* FIFO sequences here; ImgQueue shows that the ring buffers are that.     *)
(***************************************************************************)
EXTENDS Integers, Sequences, FiniteSets

CONSTANTS
  Converters,         \* the threads of the pool (THREAD_POOL_SIZE_YUV2RGB)
  IMG_QUEUE_SIZE_YUV,
  IMG_QUEUE_SIZE_RGB,
  IdHalf,             \* half the number of image ids, 2^31 in the code
  Params,             \* image parameters: format, width and height
  NoImage,            \* a unit whose last mp_image_alloc failed
  None,               \* no unit
  MaxFrames           \* bound: frames the pipeline accepts

ASSUME ConstantsAssumption ==
  /\ IsFiniteSet(Converters)
  /\ IMG_QUEUE_SIZE_YUV \in Nat \ {0}
  /\ IMG_QUEUE_SIZE_RGB \in Nat \ {0}
  /\ IdHalf \in Nat \ {0}
  /\ NoImage \notin Params
  /\ None \notin Int
  /\ MaxFrames \in Nat

IMG_POOL_SIZE_YUV == Cardinality(Converters) + IMG_QUEUE_SIZE_YUV
PoolWithoutSpare == Cardinality(Converters) + IMG_QUEUE_SIZE_RGB

IMG_POOL_SIZE_RGB == Cardinality(Converters) + IMG_QUEUE_SIZE_RGB + 1

YuvUnits == 0 .. IMG_POOL_SIZE_YUV - 1
RgbUnits == 0 .. IMG_POOL_SIZE_RGB - 1

IdCount == 2 * IdHalf

Ids == 0 .. IdCount - 1

(* Frame numbers, which do not wrap; -1 is an image never written to.      *)
Frames == -1 .. MaxFrames

VARIABLES
  yuv,          \* the yuv pool: state, image parameters, id and content of each unit
  rgb,          \* the rgb pool: state, id and content of each unit
  img_info,     \* the parameters the yuv pool allocates images with
  queue_yuv,
  queue_rgb,
  vo, vo_unit,              \* where the VO thread is, and its yuv unit
  conv, conv_yuv, conv_rgb, \* where each converter is, and its two units
  out, out_unit,            \* where the output thread is, and its rgb unit
  idx_in_last,
  idx_out_last,
  params,       \* parameters of the frames the VO gets (vo->params)
  reconfig,     \* the player is between vo_reconfig and Vo_Dmx_ChangeParam
  accepted,     \* history: number of frames queued, which idx_in_last wraps
  shown         \* history: number of the frame output last

pools == <<yuv, rgb, img_info>>
voVars == <<vo, vo_unit, idx_in_last, accepted>>
convVars == <<conv, conv_yuv, conv_rgb>>
outVars == <<out, out_unit, idx_out_last, shown>>
playerVars == <<params, reconfig>>
vars == <<pools, queue_yuv, queue_rgb, voVars, convVars, outVars, playerVars>>

(* Img_Pool_Init allocates an image for every unit.                        *)
YuvPoolInit(img) ==
  [u \in YuvUnits |-> [state |-> "FREE", img |-> img, id |-> 0, frame |-> -1]]

RgbPoolInit == [u \in RgbUnits |-> [state |-> "FREE", id |-> 0, frame |-> -1]]

Init ==
  /\ params \in Params
  /\ img_info = params
  /\ yuv = YuvPoolInit(params)
  /\ rgb = RgbPoolInit
  /\ queue_yuv = <<>>
  /\ queue_rgb = <<>>
  /\ vo = "idle" /\ vo_unit = None
  /\ conv = [c \in Converters |-> "get_rgb"]
  /\ conv_yuv = [c \in Converters |-> None]
  /\ conv_rgb = [c \in Converters |-> None]
  /\ out = "recv" /\ out_unit = None
  /\ idx_in_last = 0
  /\ idx_out_last = IdCount - 1
  /\ reconfig = FALSE
  /\ accepted = 0
  /\ shown = -1

(***************************************************************************)
(* lq/img_pool.c and lq/img_queue.c                                        *)
(***************************************************************************)

NotEvenFree(pool, u) == \A v \in DOMAIN pool : v < u => pool[v].state # "FREE"

SkipFirst(pool, u) ==
  /\ u > 0
  /\ pool[u].state = "FREE"
  /\ \A v \in DOMAIN pool : 0 < v /\ v < u => pool[v].state # "FREE"

(* The unit the search of Img_Pool_Get finds.                              *)
FirstFree(pool, u) ==
  /\ pool[u].state = "FREE"
  /\ \A v \in DOMAIN pool : v < u => pool[v].state # "FREE"

NoneFree(pool) == \A u \in DOMAIN pool : pool[u].state # "FREE"

KeepImage(u) == yuv[u].img

(* The image of a unit as Img_Pool_Get leaves it: allocated again if its   *)
(* parameters are not those of the pool or there is none.                  *)
PoolImage(u) == img_info

(* Img_Pool_Get on the yuv pool: the unit found is taken, or stays free    *)
(* because there is no memory for its image.                               *)
Img_Pool_Get_Yuv(u) ==
  /\ FirstFree(yuv, u)
  /\ yuv' = [yuv EXCEPT ![u].state = "USED", ![u].img = PoolImage(u)]

Img_Pool_Get_Fails ==
  \/ NoneFree(yuv) /\ UNCHANGED yuv
  \/ \E u \in YuvUnits :
       /\ FirstFree(yuv, u)
       /\ yuv[u].img # img_info
       /\ yuv' = [yuv EXCEPT ![u].img = NoImage]

(* The units follow when they are next taken from the pool.               *)
Img_Pool_UpdateParams(new) == img_info' = new

NotPutBack(pool, u) == pool

(* Img_Pool_Put: only a USED unit turns FREE.                              *)
PutBack(pool, u) == [pool EXCEPT ![u].state = "FREE"]

NeverFull(queue, size) == FALSE

IsFull(queue, size) == Len(queue) = size

(***************************************************************************)
(* Vo_Dmx_Process, on the VO thread (vo_vdpau.c: flip_page)                *)
(***************************************************************************)

ProcessGet ==
  /\ vo = "idle"
  /\ ~reconfig
  /\ accepted < MaxFrames
  /\ \/ \E u \in YuvUnits : Img_Pool_Get_Yuv(u) /\ vo' = "copy" /\ vo_unit' = u
     \/ Img_Pool_Get_Fails /\ UNCHANGED <<vo, vo_unit>>
  /\ UNCHANGED <<rgb, img_info, queue_yuv, queue_rgb, idx_in_last, accepted,
                 convVars, outVars, playerVars>>

(* video_surface_get_bits_y_cb_cr, which may fail, or mp_image_copy.       *)
ProcessCopy ==
  /\ vo = "copy"
  /\ \/ /\ yuv' = [yuv EXCEPT ![vo_unit].frame = accepted, ![vo_unit].id = idx_in_last]
        /\ vo' = "send"
     \/ vo' = "put" /\ UNCHANGED yuv
  /\ UNCHANGED <<rgb, img_info, queue_yuv, queue_rgb, vo_unit, idx_in_last, accepted,
                 convVars, outVars, playerVars>>

ProcessSend ==
  /\ vo = "send"
  /\ \/ /\ IsFull(queue_yuv, IMG_QUEUE_SIZE_YUV)
        /\ vo' = "put"
        /\ UNCHANGED <<queue_yuv, vo_unit, idx_in_last, accepted>>
     \/ /\ ~IsFull(queue_yuv, IMG_QUEUE_SIZE_YUV)
        /\ queue_yuv' = Append(queue_yuv, vo_unit)
        /\ idx_in_last' = (idx_in_last + 1) % IdCount
        /\ accepted' = accepted + 1
        /\ vo' = "idle" /\ vo_unit' = None
  /\ UNCHANGED <<pools, queue_rgb, convVars, outVars, playerVars>>

(* EXIT_ERR                                                                *)
ProcessPut ==
  /\ vo = "put"
  /\ yuv' = PutBack(yuv, vo_unit)
  /\ vo' = "idle" /\ vo_unit' = None
  /\ UNCHANGED <<rgb, img_info, queue_yuv, queue_rgb, idx_in_last, accepted,
                 convVars, outVars, playerVars>>

(***************************************************************************)
(* _thread_yuv2rgb.  A thread that finds no unit sleeps 5 ms and tries     *)
(* again: no action, since nothing changes.                                *)
(***************************************************************************)

ConvertGetRgb(c) ==
  /\ conv[c] = "get_rgb"
  /\ \E u \in RgbUnits :
       /\ FirstFree(rgb, u)
       /\ rgb' = [rgb EXCEPT ![u].state = "USED"]
       /\ conv_rgb' = [conv_rgb EXCEPT ![c] = u]
  /\ conv' = [conv EXCEPT ![c] = "recv"]
  /\ UNCHANGED <<yuv, img_info, queue_yuv, queue_rgb, voVars, conv_yuv, outVars, playerVars>>

ConvertRecv(c) ==
  /\ conv[c] = "recv"
  /\ queue_yuv # <<>>
  /\ queue_yuv' = Tail(queue_yuv)
  /\ conv_yuv' = [conv_yuv EXCEPT ![c] = Head(queue_yuv)]
  /\ rgb' = [rgb EXCEPT ![conv_rgb[c]].id = yuv[Head(queue_yuv)].id]
  /\ conv' = [conv EXCEPT ![c] = "convert"]
  /\ UNCHANGED <<yuv, img_info, queue_rgb, voVars, conv_rgb, outVars, playerVars>>

(* Img_Convert_Do reads the yuv image and fills the rgb image, or fails.   *)
ConvertDo(c) ==
  /\ conv[c] = "convert"
  /\ \/ /\ rgb' = [rgb EXCEPT ![conv_rgb[c]].frame = yuv[conv_yuv[c]].frame]
        /\ conv' = [conv EXCEPT ![c] = "put_yuv"]
     \/ conv' = [conv EXCEPT ![c] = "put_yuv_err"] /\ UNCHANGED rgb
  /\ UNCHANGED <<yuv, img_info, queue_yuv, queue_rgb, voVars, conv_yuv, conv_rgb,
                 outVars, playerVars>>

(* The yuv unit goes back to its pool; after an error the thread starts    *)
(* over and no longer knows its rgb unit, which stays USED.                *)
ConvertPutYuv(c) ==
  /\ \/ /\ conv[c] = "put_yuv"
        /\ conv' = [conv EXCEPT ![c] = "send"]
        /\ UNCHANGED conv_rgb
     \/ /\ conv[c] = "put_yuv_err"
        /\ conv' = [conv EXCEPT ![c] = "get_rgb"]
        /\ conv_rgb' = [conv_rgb EXCEPT ![c] = None]
  /\ yuv' = PutBack(yuv, conv_yuv[c])
  /\ conv_yuv' = [conv_yuv EXCEPT ![c] = None]
  /\ UNCHANGED <<rgb, img_info, queue_yuv, queue_rgb, voVars, outVars, playerVars>>

(* A failure of Img_Queue_Send is only logged: the rgb unit stays USED.    *)
ConvertSend(c) ==
  /\ conv[c] = "send"
  /\ \/ IsFull(queue_rgb, IMG_QUEUE_SIZE_RGB) /\ UNCHANGED queue_rgb
     \/ /\ ~IsFull(queue_rgb, IMG_QUEUE_SIZE_RGB)
        /\ queue_rgb' = Append(queue_rgb, conv_rgb[c])
  /\ conv' = [conv EXCEPT ![c] = "get_rgb"]
  /\ conv_rgb' = [conv_rgb EXCEPT ![c] = None]
  /\ UNCHANGED <<pools, queue_yuv, voVars, conv_yuv, outVars, playerVars>>

(***************************************************************************)
(* _thread_rgb_out                                                         *)
(***************************************************************************)

OutRecv ==
  /\ out = "recv"
  /\ queue_rgb # <<>>
  /\ queue_rgb' = Tail(queue_rgb)
  /\ out_unit' = Head(queue_rgb)
  /\ out' = "draw"
  /\ UNCHANGED <<pools, queue_yuv, voVars, convVars, idx_out_last, shown, playerVars>>

HighBit(id) == id >= IdHalf

AnyId(id) == TRUE

(* The test of step-3: the image is newer than the last one, or the ids    *)
(* seem to have wrapped.                                                   *)
IsNewer(id) == id > idx_out_last \/ (~HighBit(id) /\ HighBit(idx_out_last))

OutDraw ==
  /\ out = "draw"
  /\ IF IsNewer(rgb[out_unit].id)
     THEN idx_out_last' = rgb[out_unit].id /\ shown' = rgb[out_unit].frame
     ELSE UNCHANGED <<idx_out_last, shown>>
  /\ out' = "put"
  /\ UNCHANGED <<pools, queue_yuv, queue_rgb, voVars, convVars, out_unit, playerVars>>

OutPut ==
  /\ out = "put"
  /\ rgb' = PutBack(rgb, out_unit)
  /\ out' = "recv" /\ out_unit' = None
  /\ UNCHANGED <<yuv, img_info, queue_yuv, queue_rgb, voVars, convVars, idx_out_last,
                 shown, playerVars>>

(***************************************************************************)
(* The player (video.c: write_video) waits until the VO has shown its last *)
(* frame, reconfigures it, and tells the pipeline; it queues no frame in   *)
(* between.                                                                *)
(***************************************************************************)

StillDisplaying == vo # "idle"

vo_reconfig ==
  /\ ~StillDisplaying
  /\ ~reconfig
  /\ params' \in Params \ {params}
  /\ reconfig' = TRUE
  /\ UNCHANGED <<pools, queue_yuv, queue_rgb, voVars, convVars, outVars>>

Vo_Dmx_ChangeParam ==
  /\ reconfig
  /\ Img_Pool_UpdateParams(params)
  /\ reconfig' = FALSE
  /\ UNCHANGED <<yuv, rgb, queue_yuv, queue_rgb, voVars, convVars, outVars, params>>

VoStep == ProcessCopy \/ ProcessSend \/ ProcessPut

ConvertStep(c) ==
  \/ ConvertGetRgb(c)
  \/ ConvertRecv(c)
  \/ ConvertDo(c)
  \/ ConvertPutYuv(c)
  \/ ConvertSend(c)

OutStep == OutRecv \/ OutDraw \/ OutPut

Next ==
  \/ ProcessGet \/ VoStep
  \/ \E c \in Converters : ConvertStep(c)
  \/ OutStep
  \/ vo_reconfig \/ Vo_Dmx_ChangeParam

Spec == Init /\ [][Next]_vars

(* The threads of the pipeline run for ever and are never blocked: each    *)
(* polls.  No assumption is needed about the player.                       *)
Fairness ==
  /\ WF_vars(VoStep)
  /\ \A c \in Converters : WF_vars(ConvertStep(c))
  /\ WF_vars(OutStep)

FairSpec == Spec /\ Fairness

(***************************************************************************)
(* Properties                                                              *)
(***************************************************************************)

InQueue(queue, u) == \E i \in DOMAIN queue : queue[i] = u

Positions(queue, u) == {i \in DOMAIN queue : queue[i] = u}

(* Who has a unit: threads and positions of a queue.                       *)
YuvOwners(u) ==
  {<<"conv", c>> : c \in {d \in Converters : conv_yuv[d] = u}}
    \cup {<<"queue", i>> : i \in Positions(queue_yuv, u)}
    \cup (IF vo_unit = u THEN {<<"vo", 1>>} ELSE {})

RgbOwners(u) ==
  {<<"conv", c>> : c \in {d \in Converters : conv_rgb[d] = u}}
    \cup {<<"queue", i>> : i \in Positions(queue_rgb, u)}
    \cup (IF out_unit = u THEN {<<"out", 1>>} ELSE {})

Lost(u) == rgb[u].state = "USED" /\ RgbOwners(u) = {}

VoStates == {"idle", "copy", "send", "put"}
ConverterStates == {"get_rgb", "recv", "convert", "put_yuv", "put_yuv_err", "send"}
OutStates == {"recv", "draw", "put"}

img_unit_yuv ==
  [state : {"FREE", "USED"}, img : Params \cup {NoImage}, id : Ids, frame : Frames]

img_unit_rgb == [state : {"FREE", "USED"}, id : Ids, frame : Frames]

(* The ranges of all fields.                                               *)
TypeOK ==
  /\ yuv \in [YuvUnits -> img_unit_yuv]
  /\ rgb \in [RgbUnits -> img_unit_rgb]
  /\ img_info \in Params
  /\ queue_yuv \in Seq(YuvUnits) /\ Len(queue_yuv) <= IMG_QUEUE_SIZE_YUV
  /\ queue_rgb \in Seq(RgbUnits) /\ Len(queue_rgb) <= IMG_QUEUE_SIZE_RGB
  /\ vo \in VoStates /\ vo_unit \in YuvUnits \cup {None}
  /\ conv \in [Converters -> ConverterStates]
  /\ conv_yuv \in [Converters -> YuvUnits \cup {None}]
  /\ conv_rgb \in [Converters -> RgbUnits \cup {None}]
  /\ out \in OutStates /\ out_unit \in RgbUnits \cup {None}
  /\ idx_in_last \in Ids /\ idx_out_last \in Ids
  /\ params \in Params /\ reconfig \in BOOLEAN
  /\ accepted \in 0 .. MaxFrames /\ shown \in Frames

(* No image buffer is used by two threads, or both by a thread and a       *)
(* queue: a unit has at most one owner, and none when it is FREE.          *)
UnitsOwnedOnce ==
  /\ \A u \in YuvUnits :
       /\ \A a, b \in YuvOwners(u) : a = b
       /\ yuv[u].state = "FREE" => YuvOwners(u) = {}
  /\ \A u \in RgbUnits :
       /\ \A a, b \in RgbOwners(u) : a = b
       /\ rgb[u].state = "FREE" => RgbOwners(u) = {}

(* A yuv unit always finds its way back to the pool: while it is USED some *)
(* thread or the queue has it.                                             *)
YuvUnitsKept == \A u \in YuvUnits : yuv[u].state = "USED" => YuvOwners(u) # {}

(* Who owns the units, but for the rgb units that are lost.                *)
Ownership == TypeOK /\ UnitsOwnedOnce /\ YuvUnitsKept

(* The same of the rgb units.  The comment in _thread_yuv2rgb (vo_dmx.c,   *)
(* after Img_Convert_Do) reads "put img-rgb unit back to pool".            *)
RgbUnitsKept == \A u \in RgbUnits : ~Lost(u)

(* The size of the rgb pool is chosen so that a converter need not wait    *)
(* for the output thread: as long as no unit was lost, one is FREE.        *)
RgbPoolSuffices ==
  (\E c \in Converters : conv[c] = "get_rgb") /\ RgbUnitsKept
    => \E u \in RgbUnits : rgb[u].state = "FREE"

(* The image in a unit is the one its id was given for, while it waits in  *)
(* a queue or is being converted or output: nobody writes to it.           *)
IdMatches(unit) == unit.id = unit.frame % IdCount

ContentsMatch ==
  /\ \A u \in YuvUnits :
       InQueue(queue_yuv, u) \/ (\E c \in Converters : conv_yuv[c] = u) => IdMatches(yuv[u])
  /\ \A u \in RgbUnits : InQueue(queue_rgb, u) \/ out_unit = u => IdMatches(rgb[u])

(* The assertions of mp_image_copy (mp_image.c: mp_image_copy_cb): the     *)
(* unit's image has the parameters of the frame, although the player       *)
(* changes these while older images are still in the pipeline.             *)
CopyMatches == vo = "copy" => yuv[vo_unit].img = params

(* A unit holds what it is said to hold, in the format the copy needs.     *)
ImagesIntact == ContentsMatch /\ CopyMatches

FrameAbstraction == INSTANCE FrameOutput

(* The pipeline implements FrameOutput.                                    *)
ImplementsFrameOutput == FrameAbstraction!Spec

AllLost == \A u \in RgbUnits : Lost(u)

InYuvStage(n) ==
  \/ \E i \in DOMAIN queue_yuv : yuv[queue_yuv[i]].frame = n
  \/ \E c \in Converters : conv_yuv[c] # None /\ yuv[conv_yuv[c]].frame = n

InRgbStage(n) ==
  \/ \E i \in DOMAIN queue_rgb : rgb[queue_rgb[i]].frame = n
  \/ out_unit # None /\ rgb[out_unit].frame = n

(* Every accepted frame is converted and output or dropped, and its units  *)
(* are used again, unless all rgb units are lost.                          *)
FramesLeave ==
  \A n \in 0 .. MaxFrames - 1 :
    /\ InYuvStage(n) ~> ~InYuvStage(n) \/ AllLost
    /\ InRgbStage(n) ~> ~InRgbStage(n)

(***************************************************************************)
(* The inductive invariant behind the safety properties                    *)
(***************************************************************************)

(* Where a thread is tells which units it has; the VO thread has a frame   *)
(* in hand only below the bound, and not while the player reconfigures.    *)
ThreadsAgree ==
  /\ vo = "idle" <=> vo_unit = None
  /\ vo # "idle" => accepted < MaxFrames /\ ~reconfig
  /\ \A c \in Converters :
       /\ conv_yuv[c] = None <=> conv[c] \in {"get_rgb", "recv", "send"}
       /\ conv_rgb[c] = None <=> conv[c] = "get_rgb"
  /\ out = "recv" <=> out_unit = None

NoDuplicates(queue) == \A i, j \in DOMAIN queue : queue[i] = queue[j] => i = j

(* 'held' are the units the converters have, 'other' is that of the thread *)
(* at the end of the pipeline: all of them and the queue are apart.        *)
Apart(queue, held, other) ==
  /\ NoDuplicates(queue) /\ ~InQueue(queue, other)
  /\ \A c \in Converters : ~InQueue(queue, held[c]) /\ (held[c] # None => held[c] # other)
  /\ \A c, d \in Converters : held[c] = held[d] /\ held[c] # None => c = d

Has(queue, held, other, u) ==
  InQueue(queue, u) \/ other = u \/ \E c \in Converters : held[c] = u

UnitsApart ==
  /\ Apart(queue_yuv, conv_yuv, vo_unit)
  /\ Apart(queue_rgb, conv_rgb, out_unit)
  /\ \A u \in YuvUnits : yuv[u].state = "USED" <=> Has(queue_yuv, conv_yuv, vo_unit, u)
  /\ \A u \in RgbUnits : Has(queue_rgb, conv_rgb, out_unit, u) => rgb[u].state = "USED"

(* A unit holds an accepted frame, under its id.                           *)
Accepted(unit) == IdMatches(unit) /\ unit.frame \in 0 .. accepted - 1

IdsFollow ==
  /\ idx_in_last = accepted % IdCount
  /\ idx_out_last = shown % IdCount /\ shown < accepted
  /\ vo = "send" => yuv[vo_unit].frame = accepted /\ yuv[vo_unit].id = idx_in_last

YuvFrames ==
  \A u \in YuvUnits :
    InQueue(queue_yuv, u) \/ (\E c \in Converters : conv_yuv[c] = u) => Accepted(yuv[u])

RgbFrames ==
  /\ \A u \in RgbUnits : InQueue(queue_rgb, u) \/ out_unit = u => Accepted(rgb[u])
  /\ \A c \in Converters :
       /\ conv[c] = "convert" => rgb[conv_rgb[c]].id = yuv[conv_yuv[c]].id
       /\ conv[c] \in {"put_yuv", "send"} => Accepted(rgb[conv_rgb[c]])

FramesKnown == IdsFollow /\ YuvFrames /\ RgbFrames

(* The pool allocates what the next frame needs.                           *)
ParamsFollow == CopyMatches /\ (~reconfig => img_info = params)

Inductive == TypeOK /\ ThreadsAgree /\ UnitsApart /\ FramesKnown /\ ParamsFollow

=============================================================================
