--------------------------- MODULE DisplayPipeline ---------------------------
(***************************************************************************)
(* What the screen shows (display_pipeline.cpp, virtual_framebuffer.cpp,   *)
(* the boot animation of gralloc_bridge.cpp, the drawing of gpu_bridge.cpp *)
(* and their handlers in MainActivity.kt).  The render thread posts frames *)
(* to the window under mWindowMutex and copies the framebuffer under       *)
(* mBufferMutex; the animation thread and the GPU test draw through a      *)
(* pointer into the framebuffer's mapping and hold no mutex.  The UI       *)
(* thread starts and stops both threads; a live boot maps the framebuffer  *)
(* anew and starts the animation from a thread of its own.                 *)
(*                                                                         *)
(* A handler of the UI is the sequence of its native calls.  A critical    *)
(* section is one step where nobody waits inside it.                       *)
(***************************************************************************)
EXTENDS Integers, Sequences

CONSTANTS
  Addresses,   \* where mmap() may put the framebuffer
  Null,
  MaxHandled,  \* bound: handlers that the UI runs
  MaxFrames,   \* bound: frames between two starts of the render thread
  MaxLives     \* bound: live boots

ASSUME DisplayAssumption ==
  /\ Null \notin Addresses
  /\ MaxHandled \in Nat /\ MaxFrames \in Nat /\ MaxLives \in Nat

Callers == {"ui", "live"}
Drawers == {"ui", "anim"}

\* The native calls a handler makes, in their order.
Handlers ==
  [start     |-> <<"render on">>,
   stop      |-> <<"render off">>,
   splash    |-> <<"render on", "vfb", "anim on">>,
   canvas    |-> <<"render on", "anim off", "vfb">>,
   gradient  |-> <<"render on", "anim off", "gradient">>,
   gpuTest   |-> <<"render on", "anim off", "vfb", "gpu">>,
   glClear   |-> <<"render on", "anim off", "vfb", "paint">>,
   clear     |-> <<"paint">>,
   touch     |-> <<"touch">>,
   liveBoot  |-> <<"render on", "vfb", "anim on", "boot">>,
   destroyed |-> <<"render off", "forget">>,
   onDestroy |-> <<"render off", "anim off">>]

Calls == {"render on", "render off", "vfb", "gradient", "anim on", "anim off", "gpu", "paint",
          "touch", "boot", "forget", "surface"}

VARIABLES
  surface,        \* the surface the SurfaceView has, 0 for none; they are numbered
  made,           \* how many there have been
  mNativeWindow,  \* the surface whose window the pipeline holds
  mIsRunning, mUseVfbMode, mFrameCount,
  render,         \* where the render thread is
  isRendering,
  vfb,            \* the mapping of the framebuffer, and whether its sizes are there
  mBufferMutex,   \* free, or held by a live boot
  mBootAnimRunning,
  anim,           \* where the animation thread is
  pointer,        \* where the animation thread and the UI's GPU test draw
  todo,           \* the calls the UI's handler has left
  pc,             \* where the two callers are
  handled, lives,
  bridged,        \* the telephony bridge has its threads
  strayed,        \* history: how often either has drawn outside the mapping
  crashed         \* the process has ended

window    == <<surface, made, mNativeWindow>>
rendering == <<mIsRunning, mUseVfbMode, mFrameCount, render, isRendering>>
buffer    == <<vfb, mBufferMutex>>
animation == <<mBootAnimRunning, anim>>
counts    == <<handled, lives>>
process   == <<bridged, crashed>>
drawing   == <<pointer, strayed>>
vars == <<window, rendering, buffer, animation, drawing, todo, pc, counts, process>>

OnPcs   == {"anim on", "on join", "on joining", "raise", "create"}
OffPcs  == {"anim off", "lower", "off join", "off joining"}
UiPcs   == {"idle", "render join", "draw", "notify"} \cup OnPcs \cup OffPcs
LivePcs == {"idle", "begun", "map", "sizes", "mmap", "telephony", "post"} \cup OnPcs

TypeOK ==
  /\ surface \in Nat /\ made \in Nat /\ mNativeWindow \in Nat
  /\ mIsRunning \in BOOLEAN /\ mUseVfbMode \in BOOLEAN /\ mFrameCount \in Nat
  /\ render \in {"none", "check", "lock", "frame", "over"}
  /\ isRendering \in BOOLEAN
  /\ vfb \in [at : Addresses \cup {Null}, sized : BOOLEAN]
  /\ mBufferMutex \in {"free", "live"}
  /\ mBootAnimRunning \in BOOLEAN
  /\ anim \in {"none", "check", "look", "fetch", "draw", "over"}
  /\ pointer \in [Drawers -> Addresses \cup {Null}] /\ strayed \in [Drawers -> Nat]
  /\ todo \in Seq(Calls)
  /\ pc \in [Callers -> UiPcs \cup LivePcs]
  /\ pc["ui"] \in UiPcs /\ pc["live"] \in LivePcs
  /\ handled \in Nat /\ lives \in Nat
  /\ bridged \in BOOLEAN /\ crashed \in BOOLEAN

\* onCreate() has mapped the framebuffer (or failed to) and started the telephony bridge, or
\* has failed to prepare the sandbox and done neither.
Init ==
  /\ surface = 0 /\ made = 0 /\ mNativeWindow = 0
  /\ mIsRunning = FALSE /\ mUseVfbMode = FALSE /\ mFrameCount = 0 /\ render = "none"
  /\ isRendering = FALSE
  /\ bridged \in BOOLEAN
  /\ vfb \in [at : IF bridged THEN Addresses \cup {Null} ELSE {Null}, sized : {bridged}]
  /\ mBufferMutex = "free"
  /\ mBootAnimRunning = FALSE /\ anim = "none"
  /\ pointer = [d \in Drawers |-> Null] /\ strayed = [d \in Drawers |-> 0]
  /\ todo = <<>> /\ pc = [t \in Callers |-> "idle"]
  /\ handled = 0 /\ lives = 0 /\ crashed = FALSE

Goto(t, place) == pc' = [pc EXCEPT ![t] = place]

\* Where a caller goes on after its call.
Back(t) == IF t = "ui" THEN "idle" ELSE "telephony"

-----------------------------------------------------------------------------
(* The render thread. *)

RenderChecks ==
  /\ render = "check"
  /\ render' = IF mIsRunning THEN "lock" ELSE "over"
  /\ UNCHANGED <<window, mIsRunning, mUseVfbMode, mFrameCount, isRendering,
                 buffer, animation, drawing, todo, pc, counts, process>>

\* mWindowMutex is the render thread's until the frame is over.
RenderLocks ==
  /\ render = "lock"
  /\ render' = "frame"
  /\ UNCHANGED <<window, mIsRunning, mUseVfbMode, mFrameCount, isRendering,
                 buffer, animation, drawing, todo, pc, counts, process>>

\* No frame where there is no window, or its buffer cannot be locked; one of the framebuffer
\* waits for mBufferMutex.
RendersFrame ==
  /\ render = "frame"
  /\ render' = "check"
  /\ \/ UNCHANGED mFrameCount
     \/ /\ mNativeWindow # 0 /\ mFrameCount < MaxFrames
        /\ mUseVfbMode => mBufferMutex = "free"
        /\ mFrameCount' = mFrameCount + 1
  /\ UNCHANGED <<window, mIsRunning, mUseVfbMode, isRendering, buffer,
                 animation, drawing, todo, pc, counts, process>>

-----------------------------------------------------------------------------
(* The animation thread. *)

AnimChecks ==
  /\ anim = "check"
  /\ anim' = IF mBootAnimRunning THEN "look" ELSE "over"
  /\ UNCHANGED <<window, rendering, buffer, mBootAnimRunning, drawing, todo, pc, counts,
                 process>>

\* Mutant: without a framebuffer the thread returns.
AnimLooksOnce ==
  /\ anim = "look" /\ mBufferMutex = "free"
  /\ anim' = IF vfb.at = Null THEN "over" ELSE "fetch"
  /\ UNCHANGED <<window, rendering, buffer, mBootAnimRunning, drawing, todo, pc, counts,
                 process>>

AnimLooks ==
  /\ anim = "look" /\ mBufferMutex = "free"
  /\ anim' = IF vfb.at = Null THEN "check" ELSE "fetch"
  /\ UNCHANGED <<window, rendering, buffer, mBootAnimRunning, drawing, todo, pc, counts,
                 process>>

\* The getters take no mutex.  Without a pointer or a size nothing is drawn.
AnimFetches ==
  /\ anim = "fetch"
  /\ IF vfb.at = Null \/ ~vfb.sized
     THEN anim' = "check" /\ UNCHANGED pointer
     ELSE anim' = "draw" /\ pointer' = [pointer EXCEPT !["anim"] = vfb.at]
  /\ UNCHANGED <<window, rendering, buffer, mBootAnimRunning, strayed, todo, pc, counts,
                 process>>

\* The pixels go where the pointer shows.  Outside the mapping that is the end of the
\* process, or some other memory is written.
Draws(d) ==
  IF pointer[d] = vfb.at THEN UNCHANGED <<strayed, crashed>>
  ELSE strayed' = [strayed EXCEPT ![d] = @ + 1] /\ crashed' \in BOOLEAN

\* Mutant: the pointer is taken once for all frames.
AnimDrawsOn ==
  /\ anim = "draw"
  /\ anim' = IF mBootAnimRunning THEN "draw" ELSE "over"
  /\ Draws("anim")
  /\ UNCHANGED <<window, rendering, buffer, mBootAnimRunning, pointer, todo, pc, counts, bridged>>

AnimDraws ==
  /\ anim = "draw"
  /\ anim' = "check"
  /\ Draws("anim")
  /\ pointer' = [pointer EXCEPT !["anim"] = Null]
  /\ UNCHANGED <<window, rendering, buffer, mBootAnimRunning, todo, pc, counts, bridged>>

-----------------------------------------------------------------------------
(* startBootAnimation and stopBootAnimation, by the UI and by a live boot. *)

OnChecks(t) ==
  /\ pc[t] = "anim on"
  /\ Goto(t, IF mBootAnimRunning THEN Back(t) ELSE "on join")
  /\ UNCHANGED <<window, rendering, buffer, animation, drawing, todo, counts, process>>

OffChecks ==
  /\ pc["ui"] = "anim off"
  /\ Goto("ui", IF mBootAnimRunning THEN "lower" ELSE "idle")
  /\ UNCHANGED <<window, rendering, buffer, animation, drawing, todo, counts, process>>

OffLowers ==
  /\ pc["ui"] = "lower"
  /\ mBootAnimRunning' = FALSE
  /\ Goto("ui", "off join")
  /\ UNCHANGED <<window, rendering, buffer, anim, drawing, todo, counts, process>>

Joining(t) == pc[t] \in {"on joining", "off joining"}
AfterJoin(t) == IF pc[t] \in {"on join", "on joining"} THEN "raise" ELSE "idle"

\* joinable(): a thread that another one joins already must not be joined again.
LooksForThread(t) ==
  /\ pc[t] \in {"on join", "off join"}
  /\ IF anim = "none" THEN Goto(t, AfterJoin(t)) /\ UNCHANGED crashed
     ELSE /\ Goto(t, IF pc[t] = "on join" THEN "on joining" ELSE "off joining")
          /\ crashed' = \E u \in Callers \ {t} : Joining(u)
  /\ UNCHANGED <<window, rendering, buffer, animation, drawing, todo, counts, bridged>>

Joins(t) ==
  /\ Joining(t) /\ anim = "over"
  /\ anim' = "none"
  /\ Goto(t, AfterJoin(t))
  /\ UNCHANGED <<window, rendering, buffer, mBootAnimRunning, drawing, todo, counts, process>>

OnRaises(t) ==
  /\ pc[t] = "raise"
  /\ mBootAnimRunning' = TRUE
  /\ Goto(t, "create")
  /\ UNCHANGED <<window, rendering, buffer, anim, drawing, todo, counts, process>>

\* Assigning to a joinable std::thread is std::terminate().
OnCreates(t) ==
  /\ pc[t] = "create"
  /\ IF anim = "none" THEN anim' = "check" /\ Goto(t, Back(t)) /\ UNCHANGED crashed
                      ELSE crashed' = TRUE /\ UNCHANGED <<anim, pc>>
  /\ UNCHANGED <<window, rendering, buffer, mBootAnimRunning, drawing, todo, counts, bridged>>

AnimCall(t) ==
  OnChecks(t) \/ LooksForThread(t) \/ Joins(t) \/ OnRaises(t) \/ OnCreates(t)

-----------------------------------------------------------------------------
(* The UI's handlers. *)

\* A button, a touch or a callback; the live boot's button is disabled until that is over.
Handles(h) ==
  /\ pc["ui"] = "idle" /\ todo = <<>> /\ handled < MaxHandled
  /\ h = "liveBoot" => pc["live"] = "idle" /\ lives < MaxLives
  /\ h = "destroyed" => surface # 0
  /\ todo' = Handlers[h]
  /\ IF h = "liveBoot" THEN Goto("live", "begun") ELSE UNCHANGED pc
  /\ handled' = handled + 1
  /\ UNCHANGED <<window, rendering, buffer, animation, drawing, lives, process>>

\* surfaceCreated() brings a new surface, surfaceChanged() the one there is.
HandlesSurface ==
  /\ pc["ui"] = "idle" /\ todo = <<>> /\ handled < MaxHandled
  /\ IF surface = 0 THEN made' = made + 1 /\ surface' = made' ELSE UNCHANGED <<made, surface>>
  /\ todo' = <<"surface">>
  /\ handled' = handled + 1
  /\ UNCHANGED <<mNativeWindow, rendering, buffer, animation, drawing, pc, lives, process>>

Calling(c) ==
  /\ pc["ui"] = "idle" /\ todo # <<>> /\ Head(todo) = c
  /\ todo' = Tail(todo)

\* setSurface() waits for mWindowMutex; it may get no window for the surface.
SetsSurface ==
  /\ Calling("surface") /\ render # "frame"
  /\ mNativeWindow' \in {0, surface}
  /\ UNCHANGED <<surface, made, rendering, buffer, animation, drawing, pc, counts, process>>

\* Mutant: the window is kept.
ForgetsNothing ==
  /\ Calling("forget") /\ render # "frame"
  /\ surface' = 0
  /\ UNCHANGED <<made, mNativeWindow, rendering, buffer, animation, drawing, pc, counts, process>>

\* clearSurface(), the end of surfaceDestroyed(): the surface is gone after it.
ClearsSurface ==
  /\ Calling("forget") /\ render # "frame"
  /\ mNativeWindow' = 0 /\ surface' = 0
  /\ UNCHANGED <<made, rendering, buffer, animation, drawing, pc, counts, process>>

\* startDisplayTest() with startTestRender(), if there is no rendering.
StartsRender ==
  /\ Calling("render on")
  /\ IF isRendering THEN UNCHANGED <<rendering, crashed>>
     ELSE /\ isRendering' = TRUE
          /\ IF mIsRunning THEN UNCHANGED <<mIsRunning, mFrameCount, render, crashed>>
             ELSE /\ mIsRunning' = TRUE /\ mFrameCount' = 0
                  /\ render' = "check"
                  /\ crashed' = (render # "none")
          /\ UNCHANGED mUseVfbMode
  /\ UNCHANGED <<window, buffer, animation, drawing, pc, counts, bridged>>

\* Mutant: the flag stays up.
StopsLoudly ==
  /\ Calling("render off")
  /\ IF isRendering THEN isRendering' = FALSE /\ Goto("ui", "render join")
                    ELSE UNCHANGED <<isRendering, pc>>
  /\ UNCHANGED <<window, mIsRunning, mUseVfbMode, mFrameCount, render, buffer,
                 animation, drawing, counts, process>>

\* stopDisplayTest() with stopTestRender().
StopsRender ==
  /\ Calling("render off")
  /\ IF isRendering
     THEN /\ isRendering' = FALSE /\ mIsRunning' = FALSE
          /\ Goto("ui", IF mIsRunning THEN "render join" ELSE "idle")
     ELSE UNCHANGED <<isRendering, mIsRunning, pc>>
  /\ UNCHANGED <<window, mUseVfbMode, mFrameCount, render, buffer, animation,
                 drawing, counts, process>>

JoinsRender ==
  /\ pc["ui"] = "render join" /\ render = "over"
  /\ render' = "none"
  /\ Goto("ui", "idle")
  /\ UNCHANGED <<window, mIsRunning, mUseVfbMode, mFrameCount, isRendering,
                 buffer, animation, drawing, todo, counts, process>>

SetsMode ==
  /\ Calling("vfb") \/ Calling("gradient")
  /\ mUseVfbMode' = (Head(todo) = "vfb")
  /\ UNCHANGED <<window, mIsRunning, mFrameCount, render, isRendering, buffer,
                 animation, drawing, pc, counts, process>>

TurnsAnimation ==
  /\ Calling("anim on") \/ Calling("anim off")
  /\ Goto("ui", Head(todo))
  /\ UNCHANGED <<window, rendering, buffer, animation, drawing, counts, process>>

\* clearScreen() and drawTouchCircle() draw under mBufferMutex; a touch only shows in the
\* framebuffer's mode.
Paints ==
  /\ \/ Calling("paint") /\ mBufferMutex = "free"
     \/ Calling("touch") /\ (mUseVfbMode => mBufferMutex = "free")
  /\ UNCHANGED <<window, rendering, buffer, animation, drawing, pc, counts, process>>

\* renderTestTriangleToVfb(): the pointer, the pixels, the notification under the mutex.
GpuFetches ==
  /\ Calling("gpu")
  /\ IF vfb.at = Null \/ ~vfb.sized
     THEN UNCHANGED <<pc, pointer>>
     ELSE Goto("ui", "draw") /\ pointer' = [pointer EXCEPT !["ui"] = vfb.at]
  /\ UNCHANGED <<window, rendering, buffer, animation, strayed, counts, process>>

GpuDraws ==
  /\ pc["ui"] = "draw"
  /\ Draws("ui")
  /\ pointer' = [pointer EXCEPT !["ui"] = Null]
  /\ Goto("ui", "notify")
  /\ UNCHANGED <<window, rendering, buffer, animation, todo, counts, bridged>>

GpuNotifies ==
  /\ pc["ui"] = "notify" /\ mBufferMutex = "free"
  /\ Goto("ui", "idle")
  /\ UNCHANGED <<window, rendering, buffer, animation, drawing, todo, counts, process>>

-----------------------------------------------------------------------------
(* A live boot. *)

\* performDirectBoot() starts its thread; one that finds no image ends at once.
BeginsLive ==
  /\ Calling("boot") /\ pc["live"] = "begun"
  /\ lives' = lives + 1
  /\ \E place \in {"map", "post"} : Goto("live", place)
  /\ UNCHANGED <<window, rendering, buffer, animation, drawing, handled, process>>

\* VirtualFramebuffer::initialize() takes mBufferMutex and closes what there is.
LiveUnmaps ==
  /\ pc["live"] = "map" /\ mBufferMutex = "free"
  /\ mBufferMutex' = "live"
  /\ vfb' = [at |-> Null, sized |-> FALSE]
  /\ Goto("live", "sizes")
  /\ UNCHANGED <<window, rendering, animation, drawing, todo, counts, process>>

LiveSizes ==
  /\ pc["live"] = "sizes"
  /\ vfb' = [vfb EXCEPT !.sized = TRUE]
  /\ Goto("live", "mmap")
  /\ UNCHANGED <<window, rendering, mBufferMutex, animation, drawing, todo, counts, process>>

\* The file cannot be made, or it is mapped somewhere.
LiveMaps ==
  /\ pc["live"] = "mmap"
  /\ \E a \in Addresses \cup {Null} : vfb' = [vfb EXCEPT !.at = a]
  /\ mBufferMutex' = "free"
  /\ Goto("live", "anim on")
  /\ UNCHANGED <<window, rendering, animation, drawing, todo, counts, process>>

\* A second set of telephony threads is std::terminate().
LiveBridges ==
  /\ pc["live"] = "telephony"
  /\ IF bridged THEN crashed' = TRUE /\ UNCHANGED <<bridged, pc>>
                ELSE bridged' = TRUE /\ Goto("live", "post") /\ UNCHANGED crashed
  /\ UNCHANGED <<window, rendering, buffer, animation, drawing, todo, counts>>

\* The button is enabled again.
ShowsLive ==
  /\ pc["live"] = "post" /\ pc["ui"] = "idle" /\ todo = <<>>
  /\ Goto("live", "idle")
  /\ UNCHANGED <<window, rendering, buffer, animation, drawing, todo, counts, process>>

-----------------------------------------------------------------------------

RenderStep == RenderChecks \/ RenderLocks \/ RendersFrame
AnimStep   == AnimChecks \/ AnimLooks \/ AnimFetches \/ AnimDraws
UiStep ==
  \/ SetsSurface \/ ClearsSurface \/ StartsRender \/ StopsRender \/ JoinsRender \/ SetsMode
  \/ TurnsAnimation \/ OffChecks \/ OffLowers \/ AnimCall("ui")
  \/ Paints \/ GpuFetches \/ GpuDraws \/ GpuNotifies \/ BeginsLive
LiveStep == LiveUnmaps \/ LiveSizes \/ LiveMaps \/ AnimCall("live") \/ LiveBridges
UiEvent  == HandlesSurface \/ ShowsLive \/ \E h \in DOMAIN Handlers : Handles(h)

Next == ~crashed /\ (RenderStep \/ AnimStep \/ UiStep \/ LiveStep \/ UiEvent)

Spec == Init /\ [][Next]_vars

\* The four threads are scheduled; a handler that waits for a mutex gets it in the end, since
\* its holders come back for it again and again.
Fairness ==
  /\ WF_vars(~crashed /\ RenderStep) /\ WF_vars(~crashed /\ AnimStep)
  /\ WF_vars(~crashed /\ LiveStep)
  /\ SF_vars(~crashed /\ UiStep)

FairSpec == Spec /\ Fairness
-----------------------------------------------------------------------------
(* Properties. *)

\* renderLoop, surfaceDestroyed: a frame is only posted to the surface the SurfaceView has.
FramesGoToTheSurface ==
  [][mFrameCount' > mFrameCount => surface # 0 /\ mNativeWindow = surface]_vars

\* startBootAnimation refuses while the flag is up: a raised flag has a thread that draws, or
\* a caller that is about to create one.
FlagHasThread ==
  mBootAnimRunning /\ (\A t \in Callers : pc[t] # "create") => anim \notin {"none", "over"}

\* A handler of the UI comes back, with one exception: between its look at the flag and its
\* join a live boot may join the thread, raise the flag and create the next one.  The handler
\* then joins a thread that nobody tells to end.
JoinsTheNext == Joining("ui") /\ mBootAnimRunning

HandlerReturns ==
  todo # <<>> \/ pc["ui"] # "idle" ~>
    (todo = <<>> /\ pc["ui"] = "idle") \/ JoinsTheNext \/ crashed

\* bootAnimationLoop, renderTestTriangleToVfb: the pointer is taken without mBufferMutex and a
\* live boot may unmap the framebuffer under it, but it is taken anew for every frame: either
\* drawer misses the framebuffer at most once in each live boot, and never without one.
StraysOncePerLiveBoot == \A d \in Drawers : strayed[d] <= lives
=============================================================================
