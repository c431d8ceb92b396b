------------------------ MODULE DisplayPipeline_proofs ------------------------
(* Proofs about DisplayPipeline for every set of addresses and every bound. *)
EXTENDS DisplayPipeline, TLAPS

\* The pipeline holds the window of the surface there is, or none.
SurfaceInv == mNativeWindow \in {0, surface}

\* A drawer's pointer is out of date.
Stale(d) == pointer[d] \notin {Null, vfb.at}

\* What a live boot may still spoil: one frame of each drawer before it has unmapped the
\* framebuffer, then the frames that are being drawn.
StrayInv ==
  /\ pc["live"] \in {"sizes", "mmap"} => vfb.at = Null
  /\ anim = "draw" => pointer["anim"] # Null
  /\ pc["ui"] = "draw" => pointer["ui"] # Null
  /\ \A d \in Drawers :
       /\ strayed[d] <= lives
       /\ Stale(d) => strayed[d] + 1 <= lives
       /\ pc["live"] = "map" => strayed[d] + 1 <= lives
       /\ pc["live"] = "map" /\ Stale(d) => strayed[d] + 2 <= lives

-----------------------------------------------------------------------------
(* Types. *)

PcType ==
  pc \in [Callers -> UiPcs \cup LivePcs] /\ pc["ui"] \in UiPcs /\ pc["live"] \in LivePcs

LEMMA GotoType ==
  ASSUME TypeOK, NEW t \in Callers, NEW place, Goto(t, place),
         t = "ui" => place \in UiPcs, t = "live" => place \in LivePcs
  PROVE  PcType'
<1>1. CASE t = "ui" BY <1>1 DEF TypeOK, PcType, Goto, Callers
<1>2. CASE t = "live" BY <1>2 DEF TypeOK, PcType, Goto, Callers
<1> QED BY <1>1, <1>2 DEF Callers

LEMMA HandlerType == ASSUME NEW h \in DOMAIN Handlers PROVE Handlers[h] \in Seq(Calls)
<1>1. ASSUME NEW a \in Calls, NEW b \in Calls, NEW c \in Calls, NEW d \in Calls
      PROVE  /\ <<a>> \in Seq(Calls) /\ <<a, b>> \in Seq(Calls)
             /\ <<a, b, c>> \in Seq(Calls) /\ <<a, b, c, d>> \in Seq(Calls)
  OBVIOUS
<1>2. /\ {"render on", "render off", "vfb", "gradient", "anim on", "anim off"} \subseteq Calls
      /\ {"gpu", "paint", "touch", "boot", "forget"} \subseteq Calls
  BY DEF Calls
<1>3. /\ <<"render on">> \in Seq(Calls) /\ <<"render off">> \in Seq(Calls)
      /\ <<"paint">> \in Seq(Calls) /\ <<"touch">> \in Seq(Calls)
      /\ <<"render off", "forget">> \in Seq(Calls)
      /\ <<"render off", "anim off">> \in Seq(Calls)
  BY <1>1, <1>2
<1>4. /\ <<"render on", "vfb", "anim on">> \in Seq(Calls)
      /\ <<"render on", "anim off", "vfb">> \in Seq(Calls)
      /\ <<"render on", "anim off", "gradient">> \in Seq(Calls)
  BY <1>1, <1>2
<1>5. /\ <<"render on", "anim off", "vfb", "gpu">> \in Seq(Calls)
      /\ <<"render on", "anim off", "vfb", "paint">> \in Seq(Calls)
      /\ <<"render on", "vfb", "anim on", "boot">> \in Seq(Calls)
  BY <1>1, <1>2
<1>6. h \in {"start", "stop", "splash", "canvas", "gradient", "gpuTest", "glClear", "clear",
             "touch", "liveBoot", "destroyed", "onDestroy"}
  BY DEF Handlers
<1>7. /\ Handlers["start"] = <<"render on">> /\ Handlers["stop"] = <<"render off">>
      /\ Handlers["clear"] = <<"paint">> /\ Handlers["touch"] = <<"touch">>
      /\ Handlers["destroyed"] = <<"render off", "forget">>
      /\ Handlers["onDestroy"] = <<"render off", "anim off">>
  BY DEF Handlers
<1>8. /\ Handlers["splash"] = <<"render on", "vfb", "anim on">>
      /\ Handlers["canvas"] = <<"render on", "anim off", "vfb">>
      /\ Handlers["gradient"] = <<"render on", "anim off", "gradient">>
  BY DEF Handlers
<1>9. /\ Handlers["gpuTest"] = <<"render on", "anim off", "vfb", "gpu">>
      /\ Handlers["glClear"] = <<"render on", "anim off", "vfb", "paint">>
      /\ Handlers["liveBoot"] = <<"render on", "vfb", "anim on", "boot">>
  BY DEF Handlers
<1> QED BY <1>3, <1>4, <1>5, <1>6, <1>7, <1>8, <1>9

LEMMA CallingType ==
  ASSUME TypeOK, NEW c, Calling(c) PROVE todo' \in Seq(Calls) /\ pc["ui"] = "idle"
BY DEF TypeOK, Calling

LEMMA RenderType == ASSUME TypeOK, RenderStep PROVE TypeOK'
<1>1. CASE RenderChecks BY <1>1 DEF TypeOK, RenderChecks, window, buffer, animation, drawing, counts, process
<1>2. CASE RenderLocks BY <1>2 DEF TypeOK, RenderLocks, window, buffer, animation, drawing, counts, process
<1>3. CASE RendersFrame BY <1>3 DEF TypeOK, RendersFrame, window, buffer, animation, drawing, counts, process
<1> QED BY <1>1, <1>2, <1>3 DEF RenderStep

LEMMA AnimType == ASSUME TypeOK, AnimStep PROVE TypeOK'
<1>1. CASE AnimChecks BY <1>1 DEF TypeOK, AnimChecks, window, rendering, buffer, drawing, counts, process
<1>2. CASE AnimLooks BY <1>2 DEF TypeOK, AnimLooks, window, rendering, buffer, drawing, counts, process
<1>3. CASE AnimFetches
  BY <1>3 DEF TypeOK, AnimFetches, Drawers, window, rendering, buffer, counts, process
<1>4. CASE AnimDraws
  BY <1>4 DEF TypeOK, AnimDraws, Draws, Drawers, window, rendering, buffer, counts
<1> QED BY <1>1, <1>2, <1>3, <1>4 DEF AnimStep

\* startBootAnimation and stopBootAnimation leave a caller at one of its own places.
LEMMA AnimPlaces ==
  ASSUME NEW t \in Callers
  PROVE  /\ t = "ui" => {Back(t), "on join", "on joining", "off join", "off joining", "raise",
                          "create", "idle", "lower", AfterJoin(t)} \subseteq UiPcs
         /\ t = "live" => {Back(t), "on join", "on joining", "raise", "create"} \subseteq LivePcs
BY DEF Callers, Back, AfterJoin, UiPcs, LivePcs, OnPcs, OffPcs

LEMMA AnimCallType == ASSUME TypeOK, NEW t \in Callers, AnimCall(t) PROVE TypeOK'
<1>0. t = "ui" \/ t = "live" BY DEF Callers
<1>1. CASE OnChecks(t)
  <2>1. PcType' BY <1>1, GotoType, AnimPlaces DEF OnChecks
  <2>2. UNCHANGED <<window, rendering, buffer, animation, drawing, todo, counts, process>>
    BY <1>1 DEF OnChecks
  <2> QED
    BY <2>1, <2>2 DEF TypeOK, PcType, window, rendering, buffer, animation, drawing, counts,
                      process
<1>2. CASE LooksForThread(t)
  <2>1. t = "live" => pc[t] = "on join" /\ AfterJoin(t) = "raise"
    BY <1>2 DEF LooksForThread, TypeOK, LivePcs, OnPcs, AfterJoin
  <2>2. PcType' BY <1>2, <2>1, GotoType, AnimPlaces DEF LooksForThread
  <2>3. crashed' \in BOOLEAN BY <1>2 DEF LooksForThread, TypeOK
  <2>4. UNCHANGED <<window, rendering, buffer, animation, drawing, todo, counts, bridged>>
    BY <1>2 DEF LooksForThread
  <2> QED
    BY <2>2, <2>3, <2>4 DEF TypeOK, PcType, window, rendering, buffer, animation, drawing,
                            counts
<1>3. CASE Joins(t)
  <2>1. t = "live" => AfterJoin(t) = "raise"
    BY <1>3 DEF Joins, Joining, TypeOK, LivePcs, OnPcs, AfterJoin
  <2>2. PcType' BY <1>3, <2>1, GotoType, AnimPlaces DEF Joins
  <2>3. /\ anim' = "none"
        /\ UNCHANGED <<window, rendering, buffer, mBootAnimRunning, drawing, todo, counts, process>>
    BY <1>3 DEF Joins
  <2> QED
    BY <2>2, <2>3 DEF TypeOK, PcType, window, rendering, buffer, drawing, counts, process
<1>4. CASE OnRaises(t)
  <2>1. PcType' BY <1>4, GotoType, AnimPlaces DEF OnRaises
  <2>2. /\ mBootAnimRunning' = TRUE
        /\ UNCHANGED <<window, rendering, buffer, anim, drawing, todo, counts, process>>
    BY <1>4 DEF OnRaises
  <2> QED
    BY <2>1, <2>2 DEF TypeOK, PcType, window, rendering, buffer, drawing, counts, process
<1>5. CASE OnCreates(t)
  <2>1. PcType' BY <1>5, GotoType, AnimPlaces DEF OnCreates, TypeOK, PcType
  <2>2. (anim' = anim \/ anim' = "check") /\ crashed' \in BOOLEAN
    BY <1>5 DEF OnCreates, TypeOK
  <2>3. UNCHANGED <<window, rendering, buffer, mBootAnimRunning, drawing, todo, counts, bridged>>
    BY <1>5 DEF OnCreates
  <2> QED
    BY <2>1, <2>2, <2>3 DEF TypeOK, PcType, window, rendering, buffer, drawing, counts
<1> QED BY <1>1, <1>2, <1>3, <1>4, <1>5 DEF AnimCall

\* The steps of a UI handler that are native calls without a place of their own.
LEMMA UiCallType ==
  ASSUME TypeOK, SetsSurface \/ ClearsSurface \/ StartsRender \/ SetsMode \/ Paints PROVE TypeOK'
<1>1. CASE SetsSurface
  <2>1. todo' \in Seq(Calls) BY <1>1, CallingType DEF SetsSurface
  <2>2. mNativeWindow' \in Nat BY <1>1 DEF SetsSurface, TypeOK
  <2> QED
    BY <1>1, <2>1, <2>2 DEF TypeOK, SetsSurface, rendering, buffer, animation, drawing, counts,
                            process
<1>2. CASE ClearsSurface
  <2>1. todo' \in Seq(Calls) BY <1>2, CallingType DEF ClearsSurface
  <2> QED
    BY <1>2, <2>1 DEF TypeOK, ClearsSurface, rendering, buffer, animation, drawing, counts,
                      process
<1>3. CASE StartsRender
  <2>1. todo' \in Seq(Calls) BY <1>3, CallingType DEF StartsRender
  <2>2. /\ mIsRunning' \in BOOLEAN /\ mUseVfbMode' \in BOOLEAN /\ mFrameCount' \in Nat
        /\ render' \in {"none", "check", "lock", "frame", "over"}
        /\ isRendering' \in BOOLEAN
    <3>1. CASE isRendering BY <1>3, <3>1 DEF StartsRender, TypeOK, rendering
    <3>2. CASE ~isRendering /\ mIsRunning
      <4>1. isRendering' = TRUE /\ UNCHANGED <<mIsRunning, mUseVfbMode, mFrameCount, render>>
        BY <1>3, <3>2 DEF StartsRender
      <4> QED BY <4>1 DEF TypeOK
    <3>3. CASE ~isRendering /\ ~mIsRunning
      <4>1. /\ isRendering' = TRUE /\ mIsRunning' = TRUE /\ mFrameCount' = 0
            /\ render' = "check" /\ UNCHANGED mUseVfbMode
        BY <1>3, <3>3 DEF StartsRender
      <4> QED BY <4>1 DEF TypeOK
    <3> QED BY <3>1, <3>2, <3>3
  <2>3. crashed' \in BOOLEAN BY <1>3 DEF StartsRender, TypeOK
  <2>4. UNCHANGED <<window, buffer, animation, drawing, pc, counts, bridged>>
    BY <1>3 DEF StartsRender
  <2> QED
    BY <2>1, <2>2, <2>3, <2>4 DEF TypeOK, window, buffer, animation, drawing, counts
<1>4. CASE SetsMode
  <2>1. todo' \in Seq(Calls) BY <1>4, CallingType DEF SetsMode
  <2>2. mUseVfbMode' \in BOOLEAN BY <1>4 DEF SetsMode
  <2> QED
    BY <1>4, <2>1, <2>2 DEF TypeOK, SetsMode, window, buffer, animation, drawing, counts, process
<1>5. CASE Paints
  <2>1. todo' \in Seq(Calls) BY <1>5, CallingType DEF Paints
  <2> QED
    BY <1>5, <2>1 DEF TypeOK, Paints, window, rendering, buffer, animation, drawing, counts,
                      process
<1> QED BY <1>1, <1>2, <1>3, <1>4, <1>5

LEMMA UiPlaces ==
  /\ {"idle", "render join", "draw", "notify", "anim on", "anim off", "lower", "off join"}
       \subseteq UiPcs
  /\ {"idle", "begun", "map", "sizes", "mmap", "telephony", "post", "anim on"} \subseteq LivePcs
  /\ "ui" \in Callers /\ "live" \in Callers
BY DEF UiPcs, LivePcs, OnPcs, OffPcs, Callers

\* The steps of a UI handler that go to another place.
LEMMA UiStopType ==
  ASSUME TypeOK, StopsRender \/ JoinsRender \/ TurnsAnimation \/ OffChecks \/ OffLowers
  PROVE  TypeOK'
<1>1. CASE StopsRender
  <2>1. todo' \in Seq(Calls) BY <1>1, CallingType DEF StopsRender
  <2>2. PcType' BY <1>1, GotoType, UiPlaces DEF StopsRender, TypeOK, PcType
  <2>3. isRendering' \in BOOLEAN /\ mIsRunning' \in BOOLEAN BY <1>1 DEF StopsRender, TypeOK
  <2>4. UNCHANGED <<window, mUseVfbMode, mFrameCount, render, buffer, animation, drawing,
                    counts, process>>
    BY <1>1 DEF StopsRender
  <2> QED
    BY <2>1, <2>2, <2>3, <2>4 DEF TypeOK, PcType, window, buffer, animation, drawing, counts,
                                  process
<1>2. CASE JoinsRender
  <2>1. PcType' BY <1>2, GotoType, UiPlaces DEF JoinsRender
  <2>2. /\ render' = "none"
        /\ UNCHANGED <<window, mIsRunning, mUseVfbMode, mFrameCount, isRendering, buffer,
                       animation, drawing, todo, counts, process>>
    BY <1>2 DEF JoinsRender
  <2> QED
    BY <2>1, <2>2 DEF TypeOK, PcType, window, buffer, animation, drawing, counts, process
<1>3. CASE TurnsAnimation
  <2>1. todo' \in Seq(Calls) BY <1>3, CallingType DEF TurnsAnimation
  <2>2. PcType' BY <1>3, GotoType, UiPlaces DEF TurnsAnimation, Calling
  <2>3. UNCHANGED <<window, rendering, buffer, animation, drawing, counts, process>>
    BY <1>3 DEF TurnsAnimation
  <2> QED
    BY <2>1, <2>2, <2>3 DEF TypeOK, PcType, window, rendering, buffer, animation, drawing,
                            counts, process
<1>4. CASE OffChecks
  <2>1. PcType' BY <1>4, GotoType, UiPlaces DEF OffChecks
  <2>2. UNCHANGED <<window, rendering, buffer, animation, drawing, todo, counts, process>>
    BY <1>4 DEF OffChecks
  <2> QED
    BY <2>1, <2>2 DEF TypeOK, PcType, window, rendering, buffer, animation, drawing, counts,
                      process
<1>5. CASE OffLowers
  <2>1. PcType' BY <1>5, GotoType, UiPlaces DEF OffLowers
  <2>2. /\ mBootAnimRunning' \in BOOLEAN
        /\ UNCHANGED <<window, rendering, buffer, anim, drawing, todo, counts, process>>
    BY <1>5 DEF OffLowers
  <2> QED
    BY <2>1, <2>2 DEF TypeOK, PcType, window, rendering, buffer, drawing, counts, process
<1> QED BY <1>1, <1>2, <1>3, <1>4, <1>5

LEMMA UiDrawType ==
  ASSUME TypeOK, GpuFetches \/ GpuDraws \/ GpuNotifies \/ BeginsLive PROVE TypeOK'
<1>1. CASE GpuFetches
  <2>1. todo' \in Seq(Calls) BY <1>1, CallingType DEF GpuFetches
  <2>2. PcType' BY <1>1, GotoType, UiPlaces DEF GpuFetches, TypeOK, PcType
  <2>3. pointer' \in [Drawers -> Addresses \cup {Null}]
    BY <1>1 DEF GpuFetches, TypeOK, Drawers
  <2>4. UNCHANGED <<window, rendering, buffer, animation, strayed, counts, process>>
    BY <1>1 DEF GpuFetches
  <2> QED
    BY <2>1, <2>2, <2>3, <2>4 DEF TypeOK, PcType, window, rendering, buffer, animation, counts,
                                  process
<1>2. CASE GpuDraws
  <2>1. PcType' BY <1>2, GotoType, UiPlaces DEF GpuDraws
  <2>2. /\ strayed' \in [Drawers -> Nat] /\ crashed' \in BOOLEAN
        /\ pointer' \in [Drawers -> Addresses \cup {Null}]
    BY <1>2 DEF GpuDraws, Draws, TypeOK, Drawers
  <2>3. UNCHANGED <<window, rendering, buffer, animation, todo, counts, bridged>>
    BY <1>2 DEF GpuDraws
  <2> QED
    BY <2>1, <2>2, <2>3 DEF TypeOK, PcType, window, rendering, buffer, animation, counts
<1>3. CASE GpuNotifies
  <2>1. PcType' BY <1>3, GotoType, UiPlaces DEF GpuNotifies
  <2>2. UNCHANGED <<window, rendering, buffer, animation, drawing, todo, counts, process>>
    BY <1>3 DEF GpuNotifies
  <2> QED
    BY <2>1, <2>2 DEF TypeOK, PcType, window, rendering, buffer, animation, drawing, counts,
                      process
<1>4. CASE BeginsLive
  <2>1. todo' \in Seq(Calls) BY <1>4, CallingType DEF BeginsLive
  <2>2. PcType' BY <1>4, GotoType, UiPlaces DEF BeginsLive
  <2>3. /\ lives' \in Nat
        /\ UNCHANGED <<window, rendering, buffer, animation, drawing, handled, process>>
    BY <1>4 DEF BeginsLive, TypeOK
  <2> QED
    BY <2>1, <2>2, <2>3 DEF TypeOK, PcType, window, rendering, buffer, animation, drawing,
                            process
<1> QED BY <1>1, <1>2, <1>3, <1>4

Mappings == [at : Addresses \cup {Null}, sized : BOOLEAN]

\* A step of the live boot that does no more than map the framebuffer anew.
LEMMA MappedType ==
  ASSUME TypeOK, PcType', vfb' \in Mappings, mBufferMutex' \in {"free", "live"},
         UNCHANGED <<window, rendering, animation, drawing, todo, counts, process>>
  PROVE  TypeOK'
BY DEF TypeOK, PcType, Mappings, window, rendering, animation, drawing, counts, process

LEMMA LiveType ==
  ASSUME TypeOK, LiveUnmaps \/ LiveSizes \/ LiveMaps \/ LiveBridges \/ ShowsLive PROVE TypeOK'
<1>1. CASE LiveUnmaps
  <2>1. PcType' BY <1>1, GotoType, UiPlaces DEF LiveUnmaps
  <2>2. vfb' \in Mappings /\ mBufferMutex' = "live" BY <1>1 DEF LiveUnmaps, Mappings
  <2>3. UNCHANGED <<window, rendering, animation, drawing, todo, counts, process>>
    BY <1>1 DEF LiveUnmaps
  <2> QED BY <2>1, <2>2, <2>3, MappedType
<1>2. CASE LiveSizes
  <2>1. PcType' BY <1>2, GotoType, UiPlaces DEF LiveSizes
  <2>2. vfb \in Mappings /\ mBufferMutex \in {"free", "live"} BY DEF TypeOK, Mappings
  <2>3. vfb' \in Mappings /\ mBufferMutex' = mBufferMutex BY <1>2, <2>2 DEF LiveSizes, Mappings
  <2>4. UNCHANGED <<window, rendering, animation, drawing, todo, counts, process>>
    BY <1>2 DEF LiveSizes
  <2> QED BY <2>1, <2>2, <2>3, <2>4, MappedType
<1>3. CASE LiveMaps
  <2>1. PcType' BY <1>3, GotoType, UiPlaces DEF LiveMaps
  <2>2. vfb \in Mappings BY DEF TypeOK, Mappings
  <2>3. vfb' \in Mappings /\ mBufferMutex' = "free" BY <1>3, <2>2 DEF LiveMaps, Mappings
  <2>4. UNCHANGED <<window, rendering, animation, drawing, todo, counts, process>>
    BY <1>3 DEF LiveMaps
  <2> QED BY <2>1, <2>3, <2>4, MappedType
<1>4. CASE LiveBridges
  <2>1. PcType' BY <1>4, GotoType, UiPlaces DEF LiveBridges, TypeOK, PcType
  <2>2. bridged' \in BOOLEAN /\ crashed' \in BOOLEAN BY <1>4 DEF LiveBridges, TypeOK
  <2>3. UNCHANGED <<window, rendering, buffer, animation, drawing, todo, counts>>
    BY <1>4 DEF LiveBridges
  <2> QED
    BY <2>1, <2>2, <2>3 DEF TypeOK, PcType, window, rendering, buffer, animation, drawing,
                            counts
<1>5. CASE ShowsLive
  <2>1. PcType' BY <1>5, GotoType, UiPlaces DEF ShowsLive
  <2>2. UNCHANGED <<window, rendering, buffer, animation, drawing, todo, counts, process>>
    BY <1>5 DEF ShowsLive
  <2> QED
    BY <2>1, <2>2 DEF TypeOK, PcType, window, rendering, buffer, animation, drawing, counts,
                      process
<1> QED BY <1>1, <1>2, <1>3, <1>4, <1>5

LEMMA EventType ==
  ASSUME TypeOK, HandlesSurface \/ \E h \in DOMAIN Handlers : Handles(h) PROVE TypeOK'
<1>1. CASE HandlesSurface
  <2>1. todo' \in Seq(Calls) BY <1>1 DEF HandlesSurface, Calls
  <2>2. surface' \in Nat /\ made' \in Nat /\ handled' \in Nat
    BY <1>1 DEF HandlesSurface, TypeOK
  <2>3. UNCHANGED <<mNativeWindow, rendering, buffer, animation, drawing, pc, lives, process>>
    BY <1>1 DEF HandlesSurface
  <2> QED
    BY <2>1, <2>2, <2>3 DEF TypeOK, rendering, buffer, animation, drawing, process
<1>2. ASSUME NEW h \in DOMAIN Handlers, Handles(h) PROVE TypeOK'
  <2>1. todo' \in Seq(Calls) BY <1>2, HandlerType DEF Handles
  <2>2. PcType' BY <1>2, GotoType, UiPlaces DEF Handles, TypeOK, PcType
  <2>3. handled' \in Nat BY <1>2 DEF Handles, TypeOK
  <2>4. UNCHANGED <<window, rendering, buffer, animation, drawing, lives, process>>
    BY <1>2 DEF Handles
  <2> QED
    BY <2>1, <2>2, <2>3, <2>4 DEF TypeOK, PcType, window, rendering, buffer, animation, drawing,
                                  process
<1> QED BY <1>1, <1>2

LEMMA TypeStep == TypeOK /\ [Next]_vars => TypeOK'
<1> SUFFICES ASSUME TypeOK, [Next]_vars PROVE TypeOK' OBVIOUS
<1>1. CASE RenderStep BY <1>1, RenderType
<1>2. CASE AnimStep BY <1>2, AnimType
<1>3. CASE UiStep BY <1>3, UiCallType, UiStopType, UiDrawType, AnimCallType, UiPlaces DEF UiStep
<1>4. CASE LiveStep BY <1>4, LiveType, AnimCallType, UiPlaces DEF LiveStep
<1>5. CASE UiEvent BY <1>5, EventType, LiveType DEF UiEvent
<1>6. CASE UNCHANGED vars
  BY <1>6 DEF TypeOK, vars, window, rendering, buffer, animation, drawing, counts, process
<1> QED BY <1>1, <1>2, <1>3, <1>4, <1>5, <1>6 DEF Next

LEMMA InitType == Init => TypeOK
<1> SUFFICES ASSUME Init PROVE TypeOK OBVIOUS
<1>1. pc \in [Callers -> UiPcs \cup LivePcs] /\ pc["ui"] \in UiPcs /\ pc["live"] \in LivePcs
  BY UiPlaces DEF Init
<1>2. todo \in Seq(Calls) BY DEF Init
<1>3. /\ bridged \in BOOLEAN /\ crashed \in BOOLEAN
      /\ vfb \in [at : Addresses \cup {Null}, sized : BOOLEAN]
  <2>1. bridged \in BOOLEAN /\ crashed \in BOOLEAN BY DEF Init
  <2>2. vfb \in [at : Addresses \cup {Null}, sized : {bridged}] BY DEF Init
  <2> QED BY <2>1, <2>2
<1> QED BY <1>1, <1>2, <1>3 DEF Init, TypeOK

\* TypeOK of DisplayPipeline holds for every set of addresses and every bound.
THEOREM TypeCorrect == Spec => []TypeOK
BY InitType, TypeStep, PTL DEF Spec

-----------------------------------------------------------------------------
(* The surface. *)

\* Whoever does not touch the window and counts no frame.
LEMMA WindowKept ==
  ASSUME TypeOK, SurfaceInv, UNCHANGED window, UNCHANGED mFrameCount
  PROVE  SurfaceInv' /\ ~(mFrameCount' > mFrameCount)
BY DEF TypeOK, SurfaceInv, window

LEMMA SurfaceStep ==
  ASSUME TypeOK, SurfaceInv, [Next]_vars
  PROVE  /\ SurfaceInv'
         /\ mFrameCount' > mFrameCount => surface # 0 /\ mNativeWindow = surface
<1>1. CASE RendersFrame BY <1>1 DEF RendersFrame, TypeOK, SurfaceInv, window
<1>2. CASE HandlesSurface
  BY <1>2 DEF HandlesSurface, TypeOK, SurfaceInv, rendering
<1>3. CASE SetsSurface BY <1>3 DEF SetsSurface, TypeOK, SurfaceInv, rendering
<1>4. CASE ClearsSurface BY <1>4 DEF ClearsSurface, TypeOK, SurfaceInv, rendering
<1>5. CASE StartsRender
  <2>1. mFrameCount' \in {0, mFrameCount} /\ UNCHANGED window
    BY <1>5 DEF StartsRender, rendering
  <2> QED BY <2>1 DEF TypeOK, SurfaceInv, window
<1>6. CASE RenderChecks \/ RenderLocks
  BY <1>6, WindowKept DEF RenderChecks, RenderLocks
<1>7. CASE AnimStep
  BY <1>7, WindowKept DEF AnimStep, AnimChecks, AnimLooks, AnimFetches, AnimDraws, rendering
<1>8. ASSUME NEW t \in Callers, AnimCall(t) PROVE UNCHANGED window /\ UNCHANGED mFrameCount
  BY <1>8 DEF AnimCall, OnChecks, LooksForThread, Joins, OnRaises, OnCreates, rendering
<1>9. CASE StopsRender \/ JoinsRender \/ SetsMode \/ TurnsAnimation \/ OffChecks \/ OffLowers
  BY <1>9, WindowKept DEF StopsRender, JoinsRender, SetsMode, TurnsAnimation, OffChecks,
                          OffLowers, rendering
<1>10. CASE Paints \/ GpuFetches \/ GpuDraws \/ GpuNotifies \/ BeginsLive
  BY <1>10, WindowKept DEF Paints, GpuFetches, GpuDraws, GpuNotifies, BeginsLive, rendering
<1>11. CASE LiveUnmaps \/ LiveSizes \/ LiveMaps \/ LiveBridges \/ ShowsLive
  BY <1>11, WindowKept DEF LiveUnmaps, LiveSizes, LiveMaps, LiveBridges, ShowsLive, rendering
<1>12. ASSUME NEW h \in DOMAIN Handlers, Handles(h) PROVE UNCHANGED window /\ UNCHANGED mFrameCount
  BY <1>12 DEF Handles, rendering
<1>13. CASE UNCHANGED vars BY <1>13, WindowKept DEF vars, rendering
<1> QED
  BY <1>1, <1>2, <1>3, <1>4, <1>5, <1>6, <1>7, <1>8, <1>9, <1>10, <1>11, <1>12, <1>13,
     WindowKept, UiPlaces
  DEF Next, RenderStep, UiStep, LiveStep, UiEvent

-----------------------------------------------------------------------------
(* The flag and the thread of the animation. *)

\* A step that leaves the animation alone and takes no caller from its creation of the thread.
LEMMA FlagKept ==
  ASSUME FlagHasThread, UNCHANGED animation,
         \A t \in Callers : pc[t] = "create" => pc'[t] = "create"
  PROVE  FlagHasThread'
BY DEF FlagHasThread, animation

LEMMA GotoKeepsCreate ==
  ASSUME TypeOK, NEW t \in Callers, NEW place, Goto(t, place), pc[t] # "create"
  PROVE  \A u \in Callers : pc[u] = "create" => pc'[u] = "create"
BY DEF TypeOK, Goto

LEMMA FlagAnimCall ==
  ASSUME TypeOK, FlagHasThread, NEW t \in Callers, AnimCall(t) PROVE FlagHasThread'
<1>1. CASE OnChecks(t)
  BY <1>1, GotoKeepsCreate, FlagKept DEF OnChecks
<1>2. CASE LooksForThread(t)
  <2>1. pc[t] # "create" /\ (UNCHANGED animation) /\ \E place : Goto(t, place)
    BY <1>2 DEF LooksForThread
  <2> QED BY <2>1, GotoKeepsCreate, FlagKept
<1>3. CASE Joins(t)
  <2>1. pc[t] # "create" BY <1>3 DEF Joins, Joining
  <2>2. \A u \in Callers : pc[u] = "create" => pc'[u] = "create"
    BY <1>3, <2>1, GotoKeepsCreate DEF Joins
  <2> QED BY <1>3, <2>2 DEF Joins, FlagHasThread
<1>4. CASE OnRaises(t)
  <2>1. pc'[t] = "create" BY <1>4 DEF OnRaises, Goto, TypeOK
  <2> QED BY <2>1 DEF FlagHasThread
<1>5. CASE OnCreates(t)
  <2>1. CASE anim = "none" BY <1>5, <2>1 DEF OnCreates, FlagHasThread
  <2>2. CASE anim # "none"
    BY <1>5, <2>2, FlagKept DEF OnCreates, animation
  <2> QED BY <2>1, <2>2
<1> QED BY <1>1, <1>2, <1>3, <1>4, <1>5 DEF AnimCall

LEMMA FlagStep ==
  ASSUME TypeOK, FlagHasThread, [Next]_vars PROVE FlagHasThread'
<1>1. CASE RenderStep
  BY <1>1, FlagKept DEF RenderStep, RenderChecks, RenderLocks, RendersFrame
<1>2. CASE AnimStep
  BY <1>2 DEF AnimStep, AnimChecks, AnimLooks, AnimFetches, AnimDraws, FlagHasThread
<1>3. CASE OffLowers BY <1>3 DEF OffLowers, FlagHasThread
<1>4. CASE OffChecks \/ JoinsRender \/ GpuDraws \/ GpuNotifies
  <2>1. "ui" \in Callers /\ pc["ui"] # "create"
    BY <1>4 DEF OffChecks, JoinsRender, GpuDraws, GpuNotifies, Callers
  <2>2. (UNCHANGED animation) /\ \E place : Goto("ui", place)
    BY <1>4 DEF OffChecks, JoinsRender, GpuDraws, GpuNotifies
  <2> QED BY <2>1, <2>2, GotoKeepsCreate, FlagKept
<1>5. CASE StopsRender \/ TurnsAnimation \/ GpuFetches
  <2>1. "ui" \in Callers /\ pc["ui"] # "create"
    BY <1>5 DEF StopsRender, TurnsAnimation, GpuFetches, Calling, Callers
  <2>2. (UNCHANGED animation) /\ ((UNCHANGED pc) \/ \E place : Goto("ui", place))
    BY <1>5 DEF StopsRender, TurnsAnimation, GpuFetches
  <2> QED BY <2>1, <2>2, GotoKeepsCreate, FlagKept
<1>6. CASE SetsSurface \/ ClearsSurface \/ StartsRender \/ SetsMode \/ Paints
  BY <1>6, FlagKept DEF SetsSurface, ClearsSurface, StartsRender, SetsMode, Paints
<1>7. CASE BeginsLive \/ LiveUnmaps \/ LiveSizes \/ LiveMaps \/ LiveBridges \/ ShowsLive
  <2>1. "live" \in Callers /\ pc["live"] # "create"
    BY <1>7 DEF BeginsLive, LiveUnmaps, LiveSizes, LiveMaps, LiveBridges, ShowsLive, Callers
  <2>2. (UNCHANGED animation) /\ ((UNCHANGED pc) \/ \E place : Goto("live", place))
    BY <1>7 DEF BeginsLive, LiveUnmaps, LiveSizes, LiveMaps, LiveBridges, ShowsLive
  <2> QED BY <2>1, <2>2, GotoKeepsCreate, FlagKept
<1>8. CASE HandlesSurface BY <1>8, FlagKept DEF HandlesSurface
<1>9. ASSUME NEW h \in DOMAIN Handlers, Handles(h) PROVE FlagHasThread'
  <2>1. CASE h = "liveBoot"
    <3>1. pc["live"] # "create" /\ Goto("live", "begun") /\ UNCHANGED animation
      BY <1>9, <2>1 DEF Handles
    <3> QED BY <3>1, GotoKeepsCreate, FlagKept, UiPlaces
  <2>2. CASE h # "liveBoot" BY <1>9, <2>2, FlagKept DEF Handles
  <2> QED BY <2>1, <2>2
<1>10. CASE UNCHANGED vars BY <1>10, FlagKept DEF vars
<1> QED
  BY <1>1, <1>2, <1>3, <1>4, <1>5, <1>6, <1>7, <1>8, <1>9, <1>10, FlagAnimCall, UiPlaces
  DEF Next, UiStep, LiveStep, UiEvent

-----------------------------------------------------------------------------
(* What is drawn outside the framebuffer. *)

\* A step that neither draws nor maps, and brings no one to a place where that is next.
Quiet ==
  /\ UNCHANGED <<drawing, vfb, lives>>
  /\ anim' = "draw" => anim = "draw"
  /\ pc'["ui"] = "draw" => pc["ui"] = "draw"
  /\ pc'["live"] \in {"map", "sizes", "mmap"} => pc'["live"] = pc["live"]

LEMMA StrayKept == ASSUME StrayInv, Quiet PROVE StrayInv'
<1>1. \A d \in Drawers : Stale(d)' <=> Stale(d) BY DEF Quiet, Stale, drawing
<1> QED BY <1>1 DEF StrayInv, Quiet, drawing

LEMMA QuietAnimCall ==
  ASSUME TypeOK, NEW t \in Callers, AnimCall(t) PROVE Quiet
<1>1. CASE OnChecks(t)
  BY <1>1 DEF OnChecks, Goto, Back, Quiet, TypeOK, Callers, buffer, animation, counts
<1>2. CASE LooksForThread(t)
  BY <1>2 DEF LooksForThread, Goto, AfterJoin, Quiet, TypeOK, Callers, buffer, animation, counts
<1>3. CASE Joins(t)
  BY <1>3 DEF Joins, Goto, AfterJoin, Quiet, TypeOK, Callers, buffer, counts
<1>4. CASE OnRaises(t)
  BY <1>4 DEF OnRaises, Goto, Quiet, TypeOK, Callers, buffer, counts
<1>5. CASE OnCreates(t)
  BY <1>5 DEF OnCreates, Goto, Back, Quiet, TypeOK, Callers, buffer, counts
<1> QED BY <1>1, <1>2, <1>3, <1>4, <1>5 DEF AnimCall

LEMMA QuietUi ==
  ASSUME TypeOK,
         \/ SetsSurface \/ ClearsSurface \/ StartsRender \/ StopsRender \/ JoinsRender
         \/ SetsMode \/ TurnsAnimation \/ OffChecks \/ OffLowers \/ Paints \/ GpuNotifies
  PROVE  Quiet
<1>1. CASE SetsSurface \/ ClearsSurface \/ StartsRender \/ SetsMode \/ Paints
  BY <1>1 DEF SetsSurface, ClearsSurface, StartsRender, SetsMode, Paints, Quiet, buffer,
              animation, counts
<1>2. CASE StopsRender \/ JoinsRender \/ OffChecks \/ OffLowers \/ GpuNotifies
  BY <1>2 DEF StopsRender, JoinsRender, OffChecks, OffLowers, GpuNotifies, Goto, Quiet, TypeOK,
              Callers, buffer, animation, counts
<1>3. CASE TurnsAnimation
  <2>1. Goto("ui", "anim on") \/ Goto("ui", "anim off")
    BY <1>3 DEF TurnsAnimation, Calling
  <2> QED
    BY <1>3, <2>1 DEF TurnsAnimation, Goto, Quiet, TypeOK, Callers, buffer, animation, counts
<1> QED BY <1>1, <1>2, <1>3

LEMMA QuietOther ==
  ASSUME TypeOK,
         \/ RenderStep \/ AnimChecks \/ AnimLooks \/ LiveBridges \/ ShowsLive \/ UNCHANGED vars
         \/ HandlesSurface \/ \E h \in DOMAIN Handlers : Handles(h)
  PROVE  Quiet
<1>1. CASE RenderStep
  BY <1>1 DEF RenderStep, RenderChecks, RenderLocks, RendersFrame, Quiet, buffer, animation,
              counts
<1>2. CASE AnimChecks \/ AnimLooks
  BY <1>2 DEF AnimChecks, AnimLooks, Quiet, buffer, counts
<1>3. CASE LiveBridges \/ ShowsLive
  BY <1>3 DEF LiveBridges, ShowsLive, Goto, Quiet, TypeOK, Callers, buffer, animation, counts
<1>4. CASE HandlesSurface BY <1>4 DEF HandlesSurface, Quiet, buffer, animation
<1>5. ASSUME NEW h \in DOMAIN Handlers, Handles(h) PROVE Quiet
  BY <1>5 DEF Handles, Goto, Quiet, TypeOK, Callers, buffer, animation
<1>6. CASE UNCHANGED vars BY <1>6 DEF vars, Quiet, buffer, animation, counts
<1> QED BY <1>1, <1>2, <1>3, <1>4, <1>5, <1>6

\* A pointer that is out of date is spent with the frame; one that is not does no harm.
LEMMA DrawsOnce ==
  ASSUME TypeOK, StrayInv, NEW d \in Drawers, Draws(d), pointer[d] # Null,
         pointer' = [pointer EXCEPT ![d] = Null], UNCHANGED <<vfb, lives>>,
         pc'["live"] = pc["live"], anim' = "draw" => d # "anim" /\ anim = "draw",
         pc'["ui"] = "draw" => d # "ui" /\ pc["ui"] = "draw"
  PROVE  StrayInv'
<1>1. strayed' = strayed \/ (Stale(d) /\ strayed' = [strayed EXCEPT ![d] = @ + 1])
  BY DEF Draws, Stale
<1>2. ~Stale(d)' BY DEF Stale, TypeOK
<1>3. \A e \in Drawers \ {d} : (Stale(e)' <=> Stale(e)) /\ strayed'[e] = strayed[e]
  BY <1>1 DEF Stale, TypeOK
<1>4. strayed'[d] = strayed[d] \/ (Stale(d) /\ strayed'[d] = strayed[d] + 1)
  BY <1>1 DEF TypeOK
<1>5. /\ strayed[d] \in Nat /\ lives \in Nat /\ strayed'[d] <= lives
      /\ pc["live"] = "map" => strayed'[d] + 1 <= lives
  BY <1>4 DEF StrayInv, TypeOK
<1>6. /\ anim' = "draw" => pointer'["anim"] # Null
      /\ pc'["ui"] = "draw" => pointer'["ui"] # Null
  BY DEF StrayInv, TypeOK, Drawers
<1> QED BY <1>2, <1>3, <1>5, <1>6 DEF StrayInv

LEMMA StrayStep ==
  ASSUME TypeOK, StrayInv, [Next]_vars PROVE StrayInv'
<1>1. CASE AnimFetches
  <2>1. CASE vfb.at = Null \/ ~vfb.sized
    BY <1>1, <2>1, StrayKept DEF AnimFetches, Quiet, buffer, counts, drawing
  <2>2. CASE ~(vfb.at = Null \/ ~vfb.sized)
    <3>1. pointer' = [pointer EXCEPT !["anim"] = vfb.at] /\ UNCHANGED <<vfb, lives, strayed, pc>>
      BY <1>1, <2>2 DEF AnimFetches, buffer, counts
    <3>2. /\ pointer'["anim"] = vfb.at /\ pointer'["ui"] = pointer["ui"]
      BY <3>1 DEF TypeOK, Drawers
    <3>3. \A d \in Drawers : Stale(d)' => Stale(d)
      BY <3>1, <3>2 DEF Stale, Drawers
    <3> QED BY <2>2, <3>1, <3>2, <3>3 DEF StrayInv
  <2> QED BY <2>1, <2>2
<1>2. CASE GpuFetches
  <2>1. CASE vfb.at = Null \/ ~vfb.sized
    BY <1>2, <2>1, StrayKept DEF GpuFetches, Quiet, buffer, animation, counts, drawing
  <2>2. CASE ~(vfb.at = Null \/ ~vfb.sized)
    <3>1. /\ pointer' = [pointer EXCEPT !["ui"] = vfb.at]
          /\ UNCHANGED <<vfb, lives, strayed, anim>> /\ Goto("ui", "draw")
      BY <1>2, <2>2 DEF GpuFetches, buffer, counts, animation
    <3>2. pointer'["ui"] = vfb.at /\ pointer'["anim"] = pointer["anim"]
      BY <3>1 DEF TypeOK, Drawers
    <3>3. \A d \in Drawers : Stale(d)' => Stale(d)
      BY <3>1, <3>2 DEF Stale, Drawers
    <3>4. pc'["live"] = pc["live"] BY <3>1 DEF Goto, TypeOK, Callers
    <3> QED BY <2>2, <3>1, <3>2, <3>3, <3>4 DEF StrayInv
  <2> QED BY <2>1, <2>2
<1>3. CASE AnimDraws
  <2>1. pointer["anim"] # Null /\ Draws("anim") BY <1>3 DEF AnimDraws, StrayInv
  <2>2. /\ pointer' = [pointer EXCEPT !["anim"] = Null] /\ anim' = "check"
        /\ UNCHANGED <<vfb, lives, pc>>
    BY <1>3 DEF AnimDraws, buffer, counts
  <2> QED BY <2>1, <2>2, DrawsOnce DEF Drawers
<1>4. CASE GpuDraws
  <2>1. pointer["ui"] # Null /\ Draws("ui") BY <1>4 DEF GpuDraws, StrayInv
  <2>2. /\ pointer' = [pointer EXCEPT !["ui"] = Null] /\ Goto("ui", "notify")
        /\ UNCHANGED <<vfb, lives, anim>>
    BY <1>4 DEF GpuDraws, buffer, counts, animation
  <2>3. pc'["ui"] = "notify" /\ pc'["live"] = pc["live"]
    BY <2>2 DEF Goto, TypeOK, Callers
  <2> QED BY <2>1, <2>2, <2>3, DrawsOnce DEF Drawers
<1>5. CASE BeginsLive
  <2>1. /\ lives' = lives + 1 /\ UNCHANGED <<drawing, vfb, anim>>
        /\ Goto("live", "map") \/ Goto("live", "post")
    BY <1>5 DEF BeginsLive, buffer, animation
  <2>2. pc'["live"] \in {"map", "post"} /\ pc'["ui"] = pc["ui"]
    BY <2>1 DEF Goto, TypeOK, Callers
  <2>3. \A d \in Drawers : (Stale(d)' <=> Stale(d)) /\ strayed'[d] = strayed[d] /\ strayed[d] \in Nat
    BY <2>1 DEF Stale, drawing, TypeOK
  <2> QED BY <2>1, <2>2, <2>3 DEF StrayInv, drawing, TypeOK
<1>6. CASE LiveUnmaps
  <2>1. /\ UNCHANGED <<drawing, lives, anim>> /\ Goto("live", "sizes")
        /\ vfb'.at = Null /\ pc["live"] = "map"
    BY <1>6 DEF LiveUnmaps, counts, animation
  <2>2. pc'["live"] = "sizes" /\ pc'["ui"] = pc["ui"] BY <2>1 DEF Goto, TypeOK, Callers
  <2>3. \A d \in Drawers : strayed[d] + 1 <= lives /\ strayed[d] \in Nat
    BY <2>1 DEF StrayInv, TypeOK
  <2> QED BY <2>1, <2>2, <2>3 DEF StrayInv, drawing, TypeOK
<1>7. CASE LiveSizes
  <2>1. /\ UNCHANGED <<drawing, lives, anim>> /\ Goto("live", "mmap") /\ vfb'.at = vfb.at
        /\ pc["live"] = "sizes"
    BY <1>7 DEF LiveSizes, counts, animation, TypeOK
  <2>2. pc'["live"] = "mmap" /\ pc'["ui"] = pc["ui"] BY <2>1 DEF Goto, TypeOK, Callers
  <2>3. \A d \in Drawers : Stale(d)' <=> Stale(d) BY <2>1 DEF Stale, drawing
  <2> QED BY <2>1, <2>2, <2>3 DEF StrayInv, drawing
<1>8. CASE LiveMaps
  <2>1. /\ UNCHANGED <<drawing, lives, anim>> /\ Goto("live", "anim on") /\ pc["live"] = "mmap"
    BY <1>8 DEF LiveMaps, counts, animation
  <2>2. pc'["live"] = "anim on" /\ pc'["ui"] = pc["ui"] BY <2>1 DEF Goto, TypeOK, Callers
  <2>3. \A d \in Drawers : Stale(d)' => Stale(d) BY <2>1 DEF Stale, drawing, StrayInv
  <2> QED BY <2>1, <2>2, <2>3 DEF StrayInv, drawing
<1> QED
  BY <1>1, <1>2, <1>3, <1>4, <1>5, <1>6, <1>7, <1>8, StrayKept, QuietAnimCall, QuietUi,
     QuietOther, UiPlaces
  DEF Next, AnimStep, UiStep, LiveStep, UiEvent

-----------------------------------------------------------------------------

SafetyInv == TypeOK /\ SurfaceInv /\ FlagHasThread /\ StrayInv

LEMMA InitSafe == Init => SafetyInv
<1> SUFFICES ASSUME Init PROVE SafetyInv OBVIOUS
<1>1. TypeOK BY InitType
<1>2. SurfaceInv /\ FlagHasThread BY DEF Init, SurfaceInv, FlagHasThread
<1>3. StrayInv BY DEF Init, StrayInv, Stale, Callers, Drawers
<1> QED BY <1>1, <1>2, <1>3 DEF SafetyInv

LEMMA StepSafe == SafetyInv /\ [Next]_vars => SafetyInv'
BY TypeStep, SurfaceStep, FlagStep, StrayStep DEF SafetyInv

\* The inductive invariant of DisplayPipeline.
THEOREM SafetyHolds == Spec => []SafetyInv
BY InitSafe, StepSafe, PTL DEF Spec

\* startBootAnimation, stopBootAnimation: whoever calls them when, a raised flag has a thread
\* that draws or a caller that is about to create one.
THEOREM FlagAlwaysHasThread == Spec => []FlagHasThread
<1>1. SafetyInv => FlagHasThread BY DEF SafetyInv
<1> QED BY <1>1, SafetyHolds, PTL

\* bootAnimationLoop, renderTestTriangleToVfb: for every number of live boots, a drawer has
\* missed the framebuffer at most once in each.
THEOREM AlwaysStraysOncePerLiveBoot == Spec => []StraysOncePerLiveBoot
<1>1. SafetyInv => StraysOncePerLiveBoot BY DEF SafetyInv, StrayInv, StraysOncePerLiveBoot
<1> QED BY <1>1, SafetyHolds, PTL

\* renderLoop, surfaceDestroyed: a frame is only posted to the surface the SurfaceView has.
THEOREM FramesAlwaysGoToTheSurface == Spec => FramesGoToTheSurface
<1>1. SafetyInv /\ [Next]_vars =>
        [mFrameCount' > mFrameCount => surface # 0 /\ mNativeWindow = surface]_vars
  BY SurfaceStep DEF SafetyInv
<1> QED BY <1>1, SafetyHolds, PTL DEF Spec, FramesGoToTheSurface
=============================================================================
