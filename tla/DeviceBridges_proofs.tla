------------------------- MODULE DeviceBridges_proofs -------------------------
(* Proofs about DeviceBridges for every set of sockets, guests and radios and every bound. *)
EXTENDS DeviceBridges, TLAPS

StartPcs == {"start join", "start halt"}
StopPcs  == {"stop join", "stop halt"}

\* A camera's thread has been joined before the camera starts again, and nobody but the call
\* that is under way has touched the flag since.
CameraInv ==
  /\ pc["ui"] \in StartPcs \cup StopPcs \cup {"begin"} =>
       camera \in Cameras /\ ~mGeneratorRunning[camera]
  /\ pc["ui"] \in {"start halt", "stop halt", "begin"} => generator[camera] = "none"
  /\ \A c \in Cameras :
       ~mGeneratorRunning[c] /\ ~(camera = c /\ pc["ui"] \in StartPcs \cup StopPcs)
       => generator[c] = "none" /\ ~isStreaming[c]

\* netd's thread is there as long as the flag is up or a shutdown is on its way to join it.
NetdInv ==
  /\ pc["ui"] \in {"close", "net join"} => ~running["netd"]
  /\ pc["ui"] = "net join" => ~listening["netd"]
  /\ worker["netd"] # "bind"
  /\ ~running["netd"] /\ pc["ui"] \notin {"close", "net join"}
       => worker["netd"] = "none" /\ ~listening["netd"]

\* Who holds a mutex is where it is held, and has read the state there is.
HoldsRightly(t) ==
  /\ pc[t] = "rilds" => mutex["telephony"] = t
  /\ pc[t] = "vhci" => mutex["bluetooth"] = t
  /\ mutex["telephony"] = t => pc[t] \in {"rilds", "tell"} /\ mutex["bluetooth"] # t
  /\ mutex["bluetooth"] = t => pc[t] \in {"vhci", "tell"}
  /\ \A r \in Radios : mutex[MutexOf[r]] = t => copy[t][r] = enabled[r]

MutexInv == (\A t \in Callers : HoldsRightly(t)) /\ PropertiesTellTheState

Telephony == <<"init", "telephony">>
Bluetooth == <<"init", "bluetooth">>

\* The rild threads have been started.
Started == \E s \in Rilds : worker[s] # "none"

\* A caller that has started the rild threads and not yet the vhci thread.
Owes(t) ==
  \/ pc[t] \in {"bluetooth", "vhci"}
  \/ t = "ui" /\ pc[t] = "idle" /\ todo # <<>> /\ Head(todo) = Bluetooth

\* Bluetooth is started by the one caller that got past telephony, and by nobody after it.
OrderInv ==
  /\ \A i \in 1 .. Len(todo) : todo[i] = Bluetooth /\ i > 1 => todo[i - 1] = Telephony
  /\ todo # <<>> /\ Head(todo) = Bluetooth => pc["ui"] \in {"idle", "telephony", "rilds"}
  /\ ~Started => ~vhci
  /\ \A t \in Callers :
       Owes(t) => Started /\ ~vhci /\ \A u \in Callers \ {t} : ~Owes(u)

-----------------------------------------------------------------------------
(* Types. *)

PcType ==
  pc \in [Callers -> UiPcs \cup LivePcs] /\ pc["ui"] \in UiPcs /\ pc["live"] \in LivePcs

LEMMA GotoType ==
  ASSUME TypeOK, NEW t \in Callers, NEW place, Goto(t, place),
         t = "ui" => place \in UiPcs, t = "live" => place \in LivePcs
  PROVE  /\ PcType' /\ pc'[t] = place
         /\ \A u \in Callers \ {t} : pc'[u] = pc[u]
<1>1. CASE t = "ui" BY <1>1 DEF TypeOK, PcType, Goto, Callers
<1>2. CASE t = "live" BY <1>2 DEF TypeOK, PcType, Goto, Callers
<1> QED BY <1>1, <1>2 DEF Callers

LEMMA CallTypes ==
  /\ \A op \in {"start", "stop"}, c \in Cameras : <<op, c>> \in Calls
  /\ \A op \in {"on", "off"}, r \in Radios : <<op, r>> \in Calls
  /\ \A b \in Mutexes : <<"init", b>> \in Calls
  /\ <<"init", "network">> \in Calls /\ <<"init", "camera">> \in Calls
  /\ <<"shutdown", "network">> \in Calls
BY DEF Calls

LEMMA HandlerTypes ==
  /\ CreateCalls \in Seq(Calls) /\ DestroyCalls \in Seq(Calls) /\ <<>> \in Seq(Calls)
  /\ \A x \in Calls : <<x>> \in Seq(Calls)
<1>1. ASSUME NEW a \in Calls, NEW b \in Calls, NEW c \in Calls, NEW d \in Calls, NEW e \in Calls
      PROVE  <<a>> \in Seq(Calls) /\ <<a, b, c>> \in Seq(Calls) /\ <<a, b, c, d, e>> \in Seq(Calls)
  OBVIOUS
<1>2. /\ <<"init", "telephony">> \in Calls /\ <<"init", "bluetooth">> \in Calls
      /\ <<"start", "back">> \in Calls /\ <<"stop", "back">> \in Calls
      /\ <<"stop", "front">> \in Calls
  BY CallTypes DEF Mutexes, Cameras
<1>3. CreateCalls \in Seq(Calls) BY <1>1, <1>2, CallTypes DEF CreateCalls
<1>4. DestroyCalls \in Seq(Calls) BY <1>1, <1>2, CallTypes DEF DestroyCalls
<1>5. <<>> \in Seq(Calls) OBVIOUS
<1>6. \A x \in Calls : <<x>> \in Seq(Calls) OBVIOUS
<1> QED BY <1>3, <1>4, <1>5, <1>6

LEMMA CallingType ==
  ASSUME TypeOK, NEW op, NEW what, Calling(op, what)
  PROVE  todo' \in Seq(Calls) /\ pc["ui"] = "idle"
BY DEF TypeOK, Calling

LEMMA InitType == Init => TypeOK
<1> SUFFICES ASSUME Init PROVE TypeOK
  OBVIOUS
<1>1. todo \in Seq(Calls) /\ <<>> \in Seq(Guests) BY HandlerTypes DEF Init
<1>2. pc \in [Callers -> UiPcs \cup LivePcs] /\ pc["ui"] \in UiPcs /\ pc["live"] \in LivePcs
  BY DEF Init, Callers, UiPcs, LivePcs
<1>3. enabled \in [Radios -> BOOLEAN] /\ copy \in [Callers -> [Radios -> BOOLEAN]] BY DEF Init
<1>4. backlog \in [Daemons -> Seq(Guests)] /\ served \in [Daemons -> Guests \cup {NoGuest}]
  BY <1>1 DEF Init
<1> QED BY <1>1, <1>2, <1>3, <1>4 DEF Init, TypeOK, Cameras

LEMMA CameraType == ASSUME TypeOK, CameraCall PROVE TypeOK'
<1>0. "ui" \in Callers BY DEF Callers
<1>1. CASE UiInitsCamera
  BY <1>1, CallingType DEF UiInitsCamera, CameraIsReset, TypeOK, ui, daemons, guests, radios
<1>2. CASE JoinsGenerator
  <2>1. PcType' BY <1>0, <1>2, GotoType DEF JoinsGenerator, UiPcs, Callers
  <2> QED BY <1>2, <2>1 DEF JoinsGenerator, TypeOK, PcType, ui, daemons, guests, radios
<1>3. CASE StreamHalts
  <2>1. PcType' BY <1>0, <1>3, GotoType DEF StreamHalts, UiPcs, Callers
  <2>2. camera' = camera \/ camera' = "none" BY <1>3 DEF StreamHalts
  <2> QED BY <1>3, <2>1, <2>2 DEF StreamHalts, TypeOK, PcType, ui, daemons, guests, radios
<1>4. CASE StreamBegins
  <2>1. PcType' BY <1>0, <1>4, GotoType DEF StreamBegins, UiPcs, Callers
  <2> QED BY <1>4, <2>1 DEF StreamBegins, TypeOK, PcType, ui, daemons, guests, radios
<1>5. ASSUME NEW op \in {"start", "stop"}, NEW c \in Cameras, StopStreamBegins(op, c)
      PROVE  TypeOK'
  <2>1. PcType' BY <1>0, <1>5, GotoType DEF StopStreamBegins, UiPcs, Callers
  <2>2. todo' \in Seq(Calls) BY <1>5, CallingType DEF StopStreamBegins
  <2> QED BY <1>5, <2>1, <2>2 DEF StopStreamBegins, TypeOK, PcType, ui, daemons, guests, radios
<1> QED BY <1>1, <1>2, <1>3, <1>4, <1>5 DEF CameraCall

LEMMA NetworkType == ASSUME TypeOK, NetworkCall PROVE TypeOK'
<1>0. "ui" \in Callers BY DEF Callers
<1>1. CASE UiInitsNetwork
  BY <1>1, CallingType DEF UiInitsNetwork, TypeOK, Daemons, ui, cameras, guests, radios
<1>2. CASE ShutdownBegins
  <2>1. PcType'
    BY <1>0, <1>2, GotoType DEF ShutdownBegins, UiPcs, Callers, TypeOK, PcType
  <2>2. todo' \in Seq(Calls) BY <1>2, CallingType DEF ShutdownBegins
  <2> QED BY <1>2, <2>1, <2>2 DEF ShutdownBegins, TypeOK, PcType, ui, cameras, guests, radios
<1>3. CASE ShutdownCloses
  <2>1. PcType' BY <1>0, <1>3, GotoType DEF ShutdownCloses, UiPcs, Callers
  <2>2. backlog' \in [Daemons -> Seq(Guests)]
    <3>1. <<>> \in Seq(Guests) OBVIOUS
    <3> QED BY <1>3, <3>1 DEF ShutdownCloses, TypeOK
  <2> QED
    BY <1>3, <2>1, <2>2 DEF ShutdownCloses, TypeOK, PcType, ui, cameras, guests, radios
<1>4. CASE ShutdownJoins
  <2>1. PcType' BY <1>0, <1>4, GotoType DEF ShutdownJoins, UiPcs, Callers
  <2> QED BY <1>4, <2>1 DEF ShutdownJoins, TypeOK, PcType, ui, cameras, guests, radios
<1> QED BY <1>1, <1>2, <1>3, <1>4 DEF NetworkCall

LEMMA InitStepType == ASSUME TypeOK, NEW t \in Callers, InitStep(t) PROVE TypeOK'
<1>1. CASE StartsRilds(t)
  <2>1. PcType'
    <3>1. CASE UNCHANGED pc BY <3>1 DEF TypeOK, PcType
    <3>2. CASE Goto(t, IF t = "ui" THEN "idle" ELSE "bluetooth")
      BY <3>2, GotoType DEF UiPcs, LivePcs
    <3> QED BY <1>1, <3>1, <3>2 DEF StartsRilds
  <2>2. told' \in [Radios -> {"on", "off", "unset"}]
    BY <1>1 DEF StartsRilds, Tells, TypeOK
  <2>3. running' \in [Daemons -> BOOLEAN] BY <1>1 DEF StartsRilds, TypeOK
  <2>4. /\ worker' \in [Daemons -> {"none", "bind", "poll", "accept", "read", "over"}]
        /\ mutex' \in [Mutexes -> Callers \cup {"free"}]
        /\ ended' \in {"no", "camera", "network", "telephony", "bluetooth"}
    <3>1. CASE \E s \in Rilds : worker[s] # "none" BY <1>1, <3>1 DEF StartsRilds, TypeOK
    <3>2. CASE ~\E s \in Rilds : worker[s] # "none"
      <4>1. worker' \in [Daemons -> {"none", "bind", "poll", "accept", "read", "over"}]
        BY <1>1, <3>2 DEF StartsRilds, TypeOK
      <4>2. mutex' \in [Mutexes -> Callers \cup {"free"}]
        BY <1>1, <3>2 DEF StartsRilds, TypeOK
      <4> QED BY <1>1, <3>2, <4>1, <4>2 DEF StartsRilds, TypeOK
    <3> QED BY <3>1, <3>2
  <2> QED
    BY <1>1, <2>1, <2>2, <2>3, <2>4 DEF StartsRilds, TypeOK, PcType, ui, cameras, guests
<1>2. CASE StartsVhci(t)
  <2>1. PcType'
    <3>1. CASE UNCHANGED pc BY <3>1 DEF TypeOK, PcType
    <3>2. CASE Goto(t, "idle") BY <3>2, GotoType DEF UiPcs, LivePcs
    <3> QED BY <1>2, <3>1, <3>2 DEF StartsVhci
  <2>2. told' \in [Radios -> {"on", "off", "unset"}]
    BY <1>2 DEF StartsVhci, Tells, TypeOK
  <2>3. /\ vhci' \in BOOLEAN
        /\ mutex' \in [Mutexes -> Callers \cup {"free"}]
        /\ ended' \in {"no", "camera", "network", "telephony", "bluetooth"}
    BY <1>2 DEF StartsVhci, TypeOK
  <2> QED
    BY <1>2, <2>1, <2>2, <2>3 DEF StartsVhci, TypeOK, PcType, ui, cameras, daemons, guests
<1>3. ASSUME NEW b \in Mutexes, InitBegins(t, b) PROVE TypeOK'
  <2>1. PcType'
    BY <1>3, GotoType DEF InitBegins, UiPcs, LivePcs, Callers
  <2>2. copy' \in [Callers -> [Radios -> BOOLEAN]] BY <1>3 DEF InitBegins, Reads, TypeOK
  <2>3. mutex' \in [Mutexes -> Callers \cup {"free"}] BY <1>3 DEF InitBegins, TypeOK
  <2> QED
    BY <1>3, <2>1, <2>2, <2>3 DEF InitBegins, TypeOK, PcType, ui, cameras, daemons, guests
<1> QED BY <1>1, <1>2, <1>3 DEF InitStep

LEMMA RadioType == ASSUME TypeOK, RadioCall PROVE TypeOK'
<1>0. "ui" \in Callers BY DEF Callers
<1>1. CASE InitStep("ui") BY <1>0, <1>1, InitStepType
<1>2. ASSUME NEW b \in Mutexes, UiInits(b) PROVE TypeOK'
  <2>1. PcType' BY <1>0, <1>2, GotoType DEF UiInits, UiPcs, Callers, Mutexes
  <2>2. todo' \in Seq(Calls) BY <1>2, CallingType DEF UiInits
  <2> QED
    BY <1>2, <2>1, <2>2 DEF UiInits, TypeOK, PcType, ui, cameras, daemons, guests, radios
<1>3. ASSUME NEW b \in Mutexes, ToggleTells(b) PROVE TypeOK'
  <2>1. PcType' BY <1>0, <1>3, GotoType DEF ToggleTells, UiPcs, Callers
  <2>2. told' \in [Radios -> {"on", "off", "unset"}] BY <1>3 DEF ToggleTells, Tells, TypeOK
  <2>3. mutex' \in [Mutexes -> Callers \cup {"free"}] BY <1>3 DEF ToggleTells, TypeOK
  <2> QED
    BY <1>3, <2>1, <2>2, <2>3 DEF ToggleTells, TypeOK, PcType, ui, cameras, daemons, guests
<1>4. ASSUME NEW op \in {"on", "off"}, NEW r \in Radios, Toggles(op, r) PROVE TypeOK'
  <2>1. PcType' BY <1>0, <1>4, GotoType DEF Toggles, UiPcs, Callers
  <2>2. todo' \in Seq(Calls) BY <1>4, CallingType DEF Toggles
  <2>3. enabled' \in [Radios -> BOOLEAN] BY <1>4 DEF Toggles, TypeOK
  <2>4. copy' \in [Callers -> [Radios -> BOOLEAN]] BY <1>4, <2>3 DEF Toggles, Reads, TypeOK
  <2>5. mutex' \in [Mutexes -> Callers \cup {"free"}] BY <1>0, <1>4 DEF Toggles, TypeOK
  <2> QED
    BY <1>4, <2>1, <2>2, <2>3, <2>4, <2>5
    DEF Toggles, TypeOK, PcType, ui, cameras, daemons, guests
<1> QED BY <1>1, <1>2, <1>3, <1>4 DEF RadioCall

LEMMA LiveType == ASSUME TypeOK, LiveStep PROVE TypeOK'
<1>0. "live" \in Callers BY DEF Callers
<1>1. CASE LiveInitsCamera
  <2>1. PcType' BY <1>0, <1>1, GotoType DEF LiveInitsCamera, LivePcs, Callers
  <2> QED
    BY <1>1, <2>1 DEF LiveInitsCamera, CameraIsReset, TypeOK, PcType, ui, daemons, guests, radios
<1>2. CASE InitStep("live") BY <1>0, <1>2, InitStepType
<1> QED BY <1>1, <1>2 DEF LiveStep

LEMMA GeneratorType == ASSUME TypeOK, NEW c \in Cameras, GeneratorStep(c) PROVE TypeOK'
BY DEF GeneratorStep, GeneratorOpens, GeneratorEnds, TypeOK, ui, daemons, guests, radios

LEMMA WorkerType ==
  ASSUME TypeOK, NEW s \in Daemons, WorkerStep(s) \/ NetdGivesUp
  PROVE  TypeOK'
<1>0. "netd" \in Daemons BY DEF Daemons
<1>1. ASSUME NEW d \in Daemons, NEW place \in {"read", "poll", "accept", "over"},
             WorkerGoes(d, place)
      PROVE  /\ worker' \in [Daemons -> {"none", "bind", "poll", "accept", "read", "over"}]
             /\ UNCHANGED <<ui, todo, pc, camera, cameras, running, radios, vhci, ended>>
  BY <1>1 DEF WorkerGoes, TypeOK
<1>2. Turn(s) \in {"poll", "over"} BY DEF Turn
<1>3. CASE RildBinds(s)
  BY <1>1, <1>2, <1>3 DEF RildBinds, TypeOK, ui, cameras, guests, radios
<1>4. CASE WorkerPolls(s)
  BY <1>1, <1>2, <1>4 DEF WorkerPolls, TypeOK, ui, cameras, guests, radios
<1>5. CASE WorkerAccepts(s)
  <2>1. CASE backlog[s] = <<>>
    BY <1>1, <1>2, <1>5, <2>1 DEF WorkerAccepts, TypeOK, ui, cameras, guests, radios
  <2>2. CASE backlog[s] # <<>>
    <3>1. Head(backlog[s]) \in Guests /\ Tail(backlog[s]) \in Seq(Guests)
      BY <2>2 DEF TypeOK
    <3>2. /\ served' \in [Daemons -> Guests \cup {NoGuest}]
          /\ backlog' \in [Daemons -> Seq(Guests)]
      BY <1>5, <2>2, <3>1 DEF WorkerAccepts, TypeOK
    <3> QED
      BY <1>1, <1>5, <2>2, <3>2 DEF WorkerAccepts, TypeOK, ui, cameras, guests, radios
  <2> QED BY <2>1, <2>2
<1>6. CASE WorkerAnswers(s)
  BY <1>1, <1>2, <1>6 DEF WorkerAnswers, TypeOK, ui, cameras, guests, radios
<1>7. CASE NetdGivesUp
  BY <1>0, <1>1, <1>7 DEF NetdGivesUp, TypeOK, ui, cameras, guests, radios
<1> QED BY <1>3, <1>4, <1>5, <1>6, <1>7 DEF WorkerStep

LEMMA GuestType == ASSUME TypeOK, GuestStep PROVE TypeOK'
<1>1. ASSUME NEW g \in Guests, GuestBreaksSilence(g) PROVE TypeOK'
  BY <1>1 DEF GuestBreaksSilence, TypeOK, ui, cameras, radios
<1>2. ASSUME NEW g \in Guests, NEW s \in Daemons, GuestConnects(g, s) PROVE TypeOK'
  <2>1. Append(backlog[s], g) \in Seq(Guests) BY DEF TypeOK
  <2>2. backlog' \in [Daemons -> Seq(Guests)] BY <1>2, <2>1 DEF GuestConnects, TypeOK
  <2>3. silent' \subseteq Guests /\ visits' \in Nat BY <1>2 DEF GuestConnects, TypeOK
  <2> QED BY <1>2, <2>2, <2>3 DEF GuestConnects, TypeOK, ui, cameras, radios
<1> QED BY <1>1, <1>2 DEF GuestStep

LEMMA EventType == ASSUME TypeOK, UiEvent PROVE TypeOK'
<1>0. "live" \in Callers BY DEF Callers
<1>1. ASSUME NEW calls \in Seq(Calls), Handles(calls)
      PROVE  /\ todo' \in Seq(Calls) /\ handled' \in Nat
             /\ UNCHANGED <<camera, cameras, daemons, radios, vhci, ended>>
  BY <1>1 DEF Handles, TypeOK
<1>2. CASE OnCreate
  BY <1>1, <1>2, HandlerTypes
  DEF OnCreate, TypeOK, Cameras, cameras, daemons, guests, radios
<1>3. CASE OnDestroy
  BY <1>1, <1>3, HandlerTypes DEF OnDestroy, TypeOK, cameras, daemons, guests, radios
<1>4. CASE Taps
  <2>1. PICK x \in Calls : Handles(<<x>>)
    BY <1>4, CallTypes DEF Taps, TypeOK
  <2>2. todo' \in Seq(Calls) /\ handled' \in Nat
        /\ UNCHANGED <<camera, cameras, daemons, radios, vhci, ended>>
    BY <1>1, <2>1, HandlerTypes
  <2> QED BY <1>4, <2>2 DEF Taps, TypeOK, cameras, daemons, guests, radios
<1>5. CASE SwitchesCamera
  <2>1. PICK c \in Cameras : activeCameraId' = c /\ Handles(<<<<"start", c>>>>)
    BY <1>5 DEF SwitchesCamera
  <2>2. <<<<"start", c>>>> \in Seq(Calls) BY CallTypes, HandlerTypes
  <2> QED
    BY <1>1, <1>5, <2>1, <2>2 DEF SwitchesCamera, TypeOK, cameras, daemons, guests, radios
<1>6. CASE BootsLive
  <2>1. PcType' BY <1>0, <1>6, GotoType DEF BootsLive, LivePcs, Callers
  <2>2. /\ todo' \in Seq(Calls) /\ handled' \in Nat
        /\ UNCHANGED <<camera, cameras, daemons, radios, vhci, ended>>
    BY <1>1, <1>6, HandlerTypes DEF BootsLive
  <2> QED
    BY <1>6, <2>1, <2>2 DEF BootsLive, TypeOK, PcType, cameras, daemons, guests, radios
<1> QED BY <1>2, <1>3, <1>4, <1>5, <1>6 DEF UiEvent

LEMMA TypeStep == TypeOK /\ [Next]_vars => TypeOK'
<1> SUFFICES ASSUME TypeOK, [Next]_vars PROVE TypeOK'
  OBVIOUS
<1>1. CASE UiStep BY <1>1, CameraType, NetworkType, RadioType DEF UiStep
<1>2. CASE NetdGivesUp
  <2>1. "netd" \in Daemons BY DEF Daemons
  <2> QED BY <1>2, <2>1, WorkerType
<1>3. CASE UNCHANGED vars
  BY <1>3 DEF vars, TypeOK, ui, cameras, daemons, guests, radios
<1> QED
  BY <1>1, <1>2, <1>3, EventType, LiveType, GuestType, GeneratorType, WorkerType DEF Next

-----------------------------------------------------------------------------
(* The cameras. *)

CameraPcs == StartPcs \cup StopPcs \cup {"begin"}

\* Whoever leaves the cameras alone, and is not in the middle of a stream's call.
LEMMA CameraFrame ==
  ASSUME TypeOK, CameraInv, UNCHANGED <<camera, cameras>>,
         \/ pc'["ui"] = pc["ui"]
         \/ pc["ui"] \notin CameraPcs /\ pc'["ui"] \notin CameraPcs
  PROVE  CameraInv'
BY DEF CameraInv, CameraPcs, StartPcs, StopPcs, cameras

LEMMA CameraCallKeepsCamera == ASSUME TypeOK, CameraInv, CameraCall PROVE CameraInv'
<1> USE DEF StartPcs, StopPcs
<1>0. "ui" \in Callers BY DEF Callers
<1>1. CASE UiInitsCamera
  BY <1>1 DEF UiInitsCamera, CameraIsReset, Calling, CameraInv, TypeOK
<1>2. CASE JoinsGenerator
  <2>1. pc'["ui"] = IF pc["ui"] = "start join" THEN "start halt" ELSE "stop halt"
    BY <1>0, <1>2 DEF JoinsGenerator, Goto, TypeOK
  <2>2. camera \in Cameras /\ generator'[camera] = "none"
    BY <1>2 DEF JoinsGenerator, CameraInv, TypeOK
  <2>3. \A c \in Cameras : c # camera => generator'[c] = generator[c]
    BY <1>2 DEF JoinsGenerator, TypeOK
  <2> QED BY <1>2, <2>1, <2>2, <2>3 DEF JoinsGenerator, CameraInv
<1>3. CASE StreamHalts
  <2>1. pc'["ui"] = IF pc["ui"] = "start halt" THEN "begin" ELSE "idle"
    BY <1>0, <1>3 DEF StreamHalts, Goto, TypeOK
  <2>2. /\ camera \in Cameras /\ ~isStreaming'[camera] /\ generator[camera] = "none"
        /\ \A c \in Cameras : c # camera => isStreaming'[c] = isStreaming[c]
    BY <1>3 DEF StreamHalts, CameraInv, TypeOK
  <2> QED BY <1>3, <2>1, <2>2 DEF StreamHalts, CameraInv
<1>4. CASE StreamBegins
  <2>1. pc'["ui"] = "idle" BY <1>0, <1>4 DEF StreamBegins, Goto, TypeOK
  <2>2. camera \in Cameras /\ generator[camera] = "none" BY <1>4 DEF StreamBegins, CameraInv
  <2>3. CASE mCamInitialized
    <3>1. /\ mGeneratorRunning'[camera]
          /\ \A c \in Cameras : c # camera =>
               /\ mGeneratorRunning'[c] = mGeneratorRunning[c]
               /\ isStreaming'[c] = isStreaming[c] /\ generator'[c] = generator[c]
      BY <1>4, <2>2, <2>3 DEF StreamBegins, TypeOK
    <3> QED BY <1>4, <2>1, <3>1 DEF StreamBegins, CameraInv
  <2>4. CASE ~mCamInitialized
    BY <1>4, <2>1, <2>4 DEF StreamBegins, CameraInv
  <2> QED BY <2>3, <2>4
<1>5. ASSUME NEW op \in {"start", "stop"}, NEW c \in Cameras, StopStreamBegins(op, c)
      PROVE  CameraInv'
  <2>1. /\ camera' = c /\ ~mGeneratorRunning'[c]
        /\ \A d \in Cameras : d # c => mGeneratorRunning'[d] = mGeneratorRunning[d]
        /\ UNCHANGED <<generator, isStreaming>> /\ pc["ui"] = "idle"
    BY <1>5 DEF StopStreamBegins, Calling, TypeOK
  <2>2. /\ pc'["ui"] \in {"start join", "start halt", "stop join", "stop halt"}
        /\ pc'["ui"] \in {"start halt", "stop halt"}
             => ~mGeneratorRunning[c] \/ generator[c] = "none"
    BY <1>0, <1>5 DEF StopStreamBegins, Goto, TypeOK
  <2> QED BY <2>1, <2>2 DEF CameraInv
<1> QED BY <1>1, <1>2, <1>3, <1>4, <1>5 DEF CameraCall

LEMMA LiveKeepsCamera == ASSUME TypeOK, CameraInv, LiveInitsCamera PROVE CameraInv'
<1>1. pc'["ui"] = pc["ui"] BY DEF LiveInitsCamera, Goto, TypeOK, Callers
<1> QED BY <1>1 DEF LiveInitsCamera, CameraIsReset, CameraInv, TypeOK

LEMMA GeneratorKeepsCamera ==
  ASSUME TypeOK, CameraInv, NEW c \in Cameras, GeneratorStep(c) PROVE CameraInv'
<1>1. /\ generator[c] # "none"
      /\ \A d \in Cameras : d # c => generator'[d] = generator[d]
      /\ UNCHANGED <<pc, camera, mGeneratorRunning, isStreaming>>
  BY DEF GeneratorStep, GeneratorOpens, GeneratorEnds, TypeOK
<1> QED BY <1>1 DEF CameraInv, StartPcs, StopPcs

-----------------------------------------------------------------------------
(* Where the callers are after a step. *)

LEMMA Goes ==
  ASSUME TypeOK, NEW t \in Callers, NEW place, Goto(t, place)
  PROVE  pc'[t] = place /\ \A u \in Callers \ {t} : pc'[u] = pc[u]
BY DEF TypeOK, Goto

\* A call of the cameras' leaves the netd daemon, the radios and the vhci thread alone.
LEMMA CameraCallPlaces ==
  ASSUME TypeOK, CameraCall
  PROVE  /\ pc["ui"] \in {"idle"} \cup CameraPcs /\ pc'["ui"] \in {"idle"} \cup CameraPcs
         /\ pc'["live"] = pc["live"] /\ UNCHANGED <<daemons, radios, vhci>>
         /\ \/ UNCHANGED todo /\ pc["ui"] # "idle"
            \/ \E op \in {"init", "start", "stop"}, what \in Cameras \cup {"camera"} :
                 Calling(op, what)
<1> USE DEF CameraPcs, StartPcs, StopPcs
<1>0. "ui" \in Callers /\ "live" \in Callers \ {"ui"} BY DEF Callers
<1>1. CASE UiInitsCamera BY <1>1 DEF UiInitsCamera, Calling
<1>2. CASE JoinsGenerator BY <1>0, <1>2, Goes DEF JoinsGenerator
<1>3. CASE StreamHalts BY <1>0, <1>3, Goes DEF StreamHalts
<1>4. CASE StreamBegins BY <1>0, <1>4, Goes DEF StreamBegins
<1>5. ASSUME NEW op \in {"start", "stop"}, NEW c \in Cameras, StopStreamBegins(op, c)
      PROVE  /\ pc["ui"] = "idle" /\ pc'["ui"] \in CameraPcs /\ pc'["live"] = pc["live"]
             /\ UNCHANGED <<daemons, radios, vhci>> /\ Calling(op, c)
  BY <1>0, <1>5, Goes DEF StopStreamBegins, Calling
<1> QED BY <1>1, <1>2, <1>3, <1>4, <1>5 DEF CameraCall

NetworkPcs == {"idle", "close", "net join"}

\* Nor does a call of the network's touch the cameras, the radios, or any other daemon.
LEMMA NetworkCallPlaces ==
  ASSUME TypeOK, NetworkCall
  PROVE  /\ pc["ui"] \in NetworkPcs /\ pc'["ui"] \in NetworkPcs
         /\ pc'["live"] = pc["live"] /\ UNCHANGED <<camera, cameras, radios, vhci>>
         /\ \A s \in Rilds : worker'[s] = worker[s]
         /\ \/ UNCHANGED todo /\ pc["ui"] # "idle"
            \/ \E op \in {"init", "shutdown"} : Calling(op, "network")
<1> USE DEF NetworkPcs
<1>0. "ui" \in Callers /\ "live" \in Callers \ {"ui"} BY DEF Callers
<1>1. CASE UiInitsNetwork
  BY <1>1, DeviceAssumption DEF UiInitsNetwork, Calling, TypeOK, Daemons
<1>2. CASE ShutdownBegins BY <1>0, <1>2, Goes DEF ShutdownBegins, Calling
<1>3. CASE ShutdownCloses BY <1>0, <1>3, Goes DEF ShutdownCloses
<1>4. CASE ShutdownJoins
  BY <1>0, <1>4, Goes, DeviceAssumption DEF ShutdownJoins, TypeOK, Daemons
<1> QED BY <1>1, <1>2, <1>3, <1>4 DEF NetworkCall

\* A handler of the UI begins where none is under way; only BootsLive moves a caller.
LEMMA EventPlaces ==
  ASSUME TypeOK, UiEvent
  PROVE  /\ pc["ui"] = "idle" /\ pc'["ui"] = "idle" /\ todo = <<>>
         /\ \/ pc'["live"] = pc["live"]
            \/ pc["live"] = "idle" /\ pc'["live"] = "camera"
         /\ UNCHANGED <<camera, cameras, daemons, radios, vhci, ended>>
         /\ \/ todo' \in {<<>>, CreateCalls, DestroyCalls}
            \/ \E op \in {"start", "stop", "on", "off"}, what \in Cameras \cup Radios :
                 todo' = <<<<op, what>>>>
<1>0. "live" \in Callers /\ "ui" \in Callers \ {"live"} BY DEF Callers
<1>1. CASE OnCreate BY <1>1 DEF OnCreate, Handles
<1>2. CASE OnDestroy BY <1>2 DEF OnDestroy, Handles
<1>3. CASE Taps BY <1>3 DEF Taps, Handles, TypeOK
<1>4. CASE SwitchesCamera BY <1>4 DEF SwitchesCamera, Handles
<1>5. CASE BootsLive BY <1>0, <1>5, Goes DEF BootsLive, Handles
<1> QED BY <1>1, <1>2, <1>3, <1>4, <1>5 DEF UiEvent

\* A daemon's thread and its guests leave the rest alone, and a thread does not go back to
\* where it was not started.
LEMMA WorkerPlaces ==
  ASSUME TypeOK, NEW s \in Daemons, WorkerStep(s) \/ (s = "netd" /\ NetdGivesUp)
  PROVE  /\ UNCHANGED <<pc, todo, camera, cameras, running, radios, vhci, ended>>
         /\ worker[s] # "none" /\ worker'[s] \notin {"none", "bind"}
         /\ \A d \in Daemons : d # s => worker'[d] = worker[d] /\ listening'[d] = listening[d]
         /\ worker[s] # "bind" => UNCHANGED listening
<1>1. ASSUME NEW place \in {"read", "poll", "accept", "over"}, WorkerGoes(s, place)
      PROVE  /\ UNCHANGED <<pc, todo, camera, cameras, running, radios, vhci, ended>>
             /\ worker'[s] = place /\ \A d \in Daemons : d # s => worker'[d] = worker[d]
  BY <1>1 DEF WorkerGoes, TypeOK
<1>2. Turn(s) \in {"poll", "over"} BY DEF Turn
<1>3. CASE RildBinds(s) BY <1>1, <1>2, <1>3 DEF RildBinds, TypeOK
<1>4. CASE WorkerPolls(s) BY <1>1, <1>2, <1>4 DEF WorkerPolls
<1>5. CASE WorkerAccepts(s) BY <1>1, <1>2, <1>5 DEF WorkerAccepts
<1>6. CASE WorkerAnswers(s) BY <1>1, <1>2, <1>6 DEF WorkerAnswers
<1>7. CASE s = "netd" /\ NetdGivesUp BY <1>1, <1>7 DEF NetdGivesUp
<1> QED BY <1>3, <1>4, <1>5, <1>6, <1>7 DEF WorkerStep

InitPcs == {"telephony", "rilds", "bluetooth", "vhci"}

\* The two initialize() of the radios, by either caller.
LEMMA InitStepPlaces ==
  ASSUME TypeOK, NEW t \in Callers, InitStep(t)
  PROVE  /\ pc[t] \in InitPcs /\ pc'[t] \in InitPcs \cup {"idle"}
         /\ \A u \in Callers \ {t} : pc'[u] = pc[u]
         /\ UNCHANGED <<todo, camera, cameras, listening>>
         /\ running'["netd"] = running["netd"] /\ worker'["netd"] = worker["netd"]
<1> USE DEF InitPcs
<1>0. "netd" \in Daemons /\ "netd" \notin Rilds BY DeviceAssumption DEF Daemons
<1>1. CASE StartsRilds(t)
  <2>1. running'["netd"] = running["netd"] BY <1>0, <1>1 DEF StartsRilds, TypeOK
  <2>2. worker'["netd"] = worker["netd"] BY <1>0, <1>1 DEF StartsRilds
  <2>3. /\ pc[t] \in InitPcs /\ pc'[t] \in InitPcs \cup {"idle"}
        /\ \A u \in Callers \ {t} : pc'[u] = pc[u]
    BY <1>1, Goes DEF StartsRilds
  <2> QED BY <1>1, <2>1, <2>2, <2>3 DEF StartsRilds
<1>2. CASE StartsVhci(t)
  <2>1. /\ pc[t] \in InitPcs /\ pc'[t] \in InitPcs \cup {"idle"}
        /\ \A u \in Callers \ {t} : pc'[u] = pc[u]
    BY <1>2, Goes DEF StartsVhci
  <2> QED BY <1>2, <2>1 DEF StartsVhci, daemons
<1>3. ASSUME NEW b \in Mutexes, InitBegins(t, b)
      PROVE  /\ pc[t] \in InitPcs /\ pc'[t] \in InitPcs
             /\ \A u \in Callers \ {t} : pc'[u] = pc[u]
             /\ UNCHANGED <<todo, camera, cameras, daemons>>
  BY <1>3, Goes DEF InitBegins, Mutexes
<1> QED BY <1>1, <1>2, <1>3 DEF InitStep, daemons

ToggleCall ==
  \/ \E b \in Mutexes : UiInits(b) \/ ToggleTells(b)
  \/ \E op \in {"on", "off"}, r \in Radios : Toggles(op, r)

\* The other calls of the radios', which only the UI makes.
LEMMA TogglePlaces ==
  ASSUME TypeOK, ToggleCall
  PROVE  /\ pc["ui"] \in {"idle", "tell"} /\ pc'["ui"] \in {"idle", "tell"} \cup Mutexes
         /\ pc'["live"] = pc["live"] /\ UNCHANGED <<camera, cameras, daemons, vhci>>
         /\ \/ UNCHANGED todo /\ pc["ui"] = "tell" /\ pc'["ui"] = "idle"
            \/ \E b \in Mutexes : Calling("init", b) /\ pc'["ui"] = b
            \/ \E op \in {"on", "off"}, r \in Radios : Calling(op, r) /\ pc'["ui"] = "tell"
<1>0. "ui" \in Callers /\ "live" \in Callers \ {"ui"} BY DEF Callers
<1>1. ASSUME NEW b \in Mutexes, UiInits(b)
      PROVE  /\ pc["ui"] = "idle" /\ pc'["ui"] = b /\ pc'["live"] = pc["live"]
             /\ UNCHANGED <<camera, cameras, daemons, vhci>> /\ Calling("init", b)
  BY <1>0, <1>1, Goes DEF UiInits, Calling
<1>2. ASSUME NEW b \in Mutexes, ToggleTells(b)
      PROVE  /\ pc["ui"] = "tell" /\ pc'["ui"] = "idle" /\ pc'["live"] = pc["live"]
             /\ UNCHANGED <<todo, camera, cameras, daemons, vhci>>
  BY <1>0, <1>2, Goes DEF ToggleTells
<1>3. ASSUME NEW op \in {"on", "off"}, NEW r \in Radios, Toggles(op, r)
      PROVE  /\ pc["ui"] = "idle" /\ pc'["ui"] = "tell" /\ pc'["live"] = pc["live"]
             /\ UNCHANGED <<camera, cameras, daemons, vhci>> /\ Calling(op, r)
  BY <1>0, <1>3, Goes DEF Toggles, Calling
<1> QED BY <1>1, <1>2, <1>3 DEF ToggleCall

LEMMA LiveInitPlaces ==
  ASSUME TypeOK, LiveInitsCamera
  PROVE  /\ pc["live"] = "camera" /\ pc'["live"] = "telephony" /\ pc'["ui"] = pc["ui"]
         /\ UNCHANGED <<todo, daemons, radios, vhci>>
<1>0. "live" \in Callers /\ "ui" \in Callers \ {"live"} BY DEF Callers
<1> QED BY <1>0, Goes DEF LiveInitsCamera

-----------------------------------------------------------------------------
(* The netd daemon. *)

LEMMA NetdFrame ==
  ASSUME NetdInv, running'["netd"] = running["netd"], worker'["netd"] = worker["netd"],
         listening'["netd"] = listening["netd"],
         \/ pc'["ui"] = pc["ui"]
         \/ pc["ui"] \notin {"close", "net join"} /\ pc'["ui"] \notin {"close", "net join"}
  PROVE  NetdInv'
BY DEF NetdInv

LEMMA NetworkCallKeepsNetd == ASSUME TypeOK, NetdInv, NetworkCall PROVE NetdInv'
<1>0. "ui" \in Callers /\ "netd" \in Daemons BY DEF Callers, Daemons
<1>1. CASE UiInitsNetwork
  BY <1>0, <1>1 DEF UiInitsNetwork, Calling, NetdInv, TypeOK
<1>2. CASE ShutdownBegins
  <2>1. /\ pc["ui"] = "idle" /\ ~running'["netd"] /\ UNCHANGED <<listening, worker>>
        /\ pc'["ui"] = IF running["netd"] THEN "close" ELSE "idle"
    BY <1>0, <1>2, Goes DEF ShutdownBegins, Calling, TypeOK
  <2> QED BY <2>1 DEF NetdInv
<1>3. CASE ShutdownCloses
  BY <1>0, <1>3, Goes DEF ShutdownCloses, NetdInv, TypeOK
<1>4. CASE ShutdownJoins
  BY <1>0, <1>4, Goes DEF ShutdownJoins, NetdInv, TypeOK
<1> QED BY <1>1, <1>2, <1>3, <1>4 DEF NetworkCall

\* A thread that runs has its flag up, or a shutdown that waits for it.
LEMMA WorkerKeepsNetd ==
  ASSUME TypeOK, NetdInv, NEW s \in Daemons, WorkerStep(s) \/ (s = "netd" /\ NetdGivesUp)
  PROVE  NetdInv'
<1>0. "netd" \in Daemons BY DEF Daemons
<1>1. CASE s = "netd" BY <1>1, WorkerPlaces DEF NetdInv
<1>2. CASE s # "netd" BY <1>0, <1>2, WorkerPlaces, NetdFrame
<1> QED BY <1>1, <1>2

-----------------------------------------------------------------------------
(* The radios. *)

\* Whoever leaves the radios alone moves no caller that holds a mutex.
LEMMA MutexFrame ==
  ASSUME TypeOK, MutexInv, UNCHANGED radios,
         \A t \in Callers :
            \/ pc'[t] = pc[t]
            \/ pc[t] \notin {"rilds", "vhci", "tell"} /\ pc'[t] \notin {"rilds", "vhci"}
  PROVE  MutexInv'
BY DEF MutexInv, HoldsRightly, PropertiesTellTheState, radios

LEMMA InitStepKeepsMutex ==
  ASSUME TypeOK, MutexInv, NEW t \in Callers, InitStep(t) PROVE MutexInv'
<1>0. \A r \in Radios : MutexOf[r] \in Mutexes BY DEF MutexOf, Mutexes
<1>1. \A u \in Callers : "free" # u BY DEF Callers
<1>2. ASSUME NEW b \in Mutexes, InitBegins(t, b) PROVE MutexInv'
  <2>1. /\ pc[t] = b /\ mutex[b] = "free" /\ mutex'[b] = t
        /\ \A d \in Mutexes : d # b => mutex'[d] = mutex[d]
        /\ copy'[t] = enabled /\ \A u \in Callers : u # t => copy'[u] = copy[u]
        /\ UNCHANGED <<enabled, told>>
    BY <1>2 DEF InitBegins, Reads, TypeOK
  <2>2. /\ pc'[t] = IF b = "telephony" THEN "rilds" ELSE "vhci"
        /\ \A u \in Callers : u # t => pc'[u] = pc[u]
    BY <1>2, Goes DEF InitBegins
  <2>3. \A d \in Mutexes : mutex[d] # t BY <2>1 DEF MutexInv, HoldsRightly, Mutexes
  <2>4. PropertiesTellTheState'
    BY <1>0, <1>1, <2>1 DEF MutexInv, HoldsRightly, PropertiesTellTheState
  <2>5. "telephony" \in Mutexes /\ "bluetooth" \in Mutexes BY DEF Mutexes
  <2>6. ASSUME NEW u \in Callers PROVE HoldsRightly(u)'
    <3>1. CASE u = t
      <4>1. \A d \in Mutexes : mutex'[d] = u <=> d = b BY <2>1, <2>3, <3>1
      <4> QED BY <1>0, <2>1, <2>2, <2>5, <3>1, <4>1 DEF HoldsRightly, Mutexes
    <3>2. CASE u # t
      <4>1. \A d \in Mutexes : mutex'[d] = u <=> mutex[d] = u BY <1>1, <2>1, <3>2
      <4> QED BY <1>0, <2>1, <2>2, <2>5, <3>2, <4>1 DEF MutexInv, HoldsRightly
    <3> QED BY <3>1, <3>2
  <2> QED BY <2>4, <2>6 DEF MutexInv
<1>3. ASSUME NEW b \in Mutexes, mutex[b] = t, \A d \in Mutexes : d # b => mutex[d] # t,
             Tells(t, b), UNCHANGED <<enabled, copy>>,
             \A u \in Callers : u # t => pc'[u] = pc[u],
             \/ UNCHANGED <<mutex, pc>>
             \/ /\ mutex' = [mutex EXCEPT ![b] = "free"]
                /\ pc'[t] \notin {"rilds", "vhci"}
      PROVE  MutexInv'
  <2>1. \A r \in Radios :
          told'[r] = IF MutexOf[r] # b THEN told[r] ELSE IF enabled[r] THEN "on" ELSE "off"
    BY <1>3 DEF Tells, MutexInv, HoldsRightly
  <2>2. \A d \in Mutexes : d # b => mutex'[d] = mutex[d] BY <1>3 DEF TypeOK
  <2>3. PropertiesTellTheState'
    BY <1>0, <1>3, <2>1, <2>2 DEF MutexInv, HoldsRightly, PropertiesTellTheState
  <2>4. CASE UNCHANGED <<mutex, pc>> BY <1>3, <2>3, <2>4 DEF MutexInv, HoldsRightly
  <2>5. CASE mutex' = [mutex EXCEPT ![b] = "free"] /\ pc'[t] \notin {"rilds", "vhci"}
    <3>1. \A d \in Mutexes : mutex'[d] # t /\ \A u \in Callers : mutex'[d] = u => mutex[d] = u
      BY <1>1, <1>3, <2>2, <2>5 DEF TypeOK
    <3>2. \A d \in Mutexes, u \in Callers : u # t /\ mutex[d] = u => mutex'[d] = u
      BY <1>3, <2>2
    <3>3. "telephony" \in Mutexes /\ "bluetooth" \in Mutexes BY DEF Mutexes
    <3>4. ASSUME NEW u \in Callers
          PROVE  HoldsRightly(u)'
      <4>1. CASE u = t BY <1>0, <2>5, <3>1, <3>3, <4>1 DEF HoldsRightly
      <4>2. CASE u # t
        <5>1. pc'[u] = pc[u] BY <1>3, <4>2
        <5>2. \A d \in Mutexes : mutex'[d] = u <=> mutex[d] = u BY <3>1, <3>2, <4>2
        <5> QED BY <1>0, <1>3, <3>3, <5>1, <5>2 DEF MutexInv, HoldsRightly
      <4> QED BY <4>1, <4>2
    <3> QED BY <2>3, <3>4 DEF MutexInv, HoldsRightly
  <2> QED BY <1>3, <2>4, <2>5
<1>4. CASE StartsRilds(t)
  <2>1. mutex["telephony"] = t /\ mutex["bluetooth"] # t
    BY <1>4 DEF StartsRilds, MutexInv, HoldsRightly
  <2>2. \/ UNCHANGED <<mutex, pc>>
        \/ /\ mutex' = [mutex EXCEPT !["telephony"] = "free"]
           /\ pc'[t] \notin {"rilds", "vhci"}
    BY <1>4, Goes DEF StartsRilds
  <2> QED BY <1>3, <1>4, <2>1, <2>2, InitStepPlaces DEF StartsRilds, Mutexes
<1>5. CASE StartsVhci(t)
  <2>1. mutex["bluetooth"] = t /\ mutex["telephony"] # t
    BY <1>5 DEF StartsVhci, MutexInv, HoldsRightly
  <2>2. \/ UNCHANGED <<mutex, pc>>
        \/ /\ mutex' = [mutex EXCEPT !["bluetooth"] = "free"]
           /\ pc'[t] \notin {"rilds", "vhci"}
    BY <1>5, Goes DEF StartsVhci
  <2> QED BY <1>3, <1>5, <2>1, <2>2, InitStepPlaces DEF StartsVhci, Mutexes
<1> QED BY <1>2, <1>4, <1>5 DEF InitStep

LEMMA ToggleKeepsMutex == ASSUME TypeOK, MutexInv, ToggleCall PROVE MutexInv'
<1>0. /\ "ui" \in Callers /\ \A u \in Callers : "free" # u
      /\ \A r \in Radios : MutexOf[r] \in Mutexes
  BY DEF Callers, MutexOf, Mutexes
<1>1. ASSUME NEW b \in Mutexes, UiInits(b) PROVE MutexInv'
  <2>1. pc["ui"] = "idle" /\ pc'["ui"] = b /\ \A u \in Callers : u # "ui" => pc'[u] = pc[u]
    BY <1>0, <1>1, Goes DEF UiInits, Calling
  <2> QED BY <1>1, <2>1, MutexFrame DEF UiInits, Mutexes
<1>2. ASSUME NEW b \in Mutexes, ToggleTells(b) PROVE MutexInv'
  <2>1. /\ pc["ui"] = "tell" /\ mutex[b] = "ui" /\ pc'["ui"] = "idle"
        /\ \A u \in Callers : u # "ui" => pc'[u] = pc[u]
        /\ UNCHANGED <<enabled, copy>>
    BY <1>0, <1>2, Goes DEF ToggleTells
  <2>2. \A d \in Mutexes : d # b => mutex'[d] = mutex[d] /\ mutex[d] # "ui"
    BY <1>0, <1>2, <2>1 DEF ToggleTells, TypeOK, MutexInv, HoldsRightly, Mutexes
  <2>3. mutex'[b] = "free" BY <1>2 DEF ToggleTells, TypeOK
  <2>4. \A r \in Radios :
          told'[r] = IF MutexOf[r] # b THEN told[r] ELSE IF enabled[r] THEN "on" ELSE "off"
    BY <1>0, <1>2, <2>1 DEF ToggleTells, Tells, MutexInv, HoldsRightly
  <2>5. PropertiesTellTheState'
    BY <1>0, <2>1, <2>2, <2>4 DEF MutexInv, HoldsRightly, PropertiesTellTheState
  <2>6. ASSUME NEW u \in Callers
        PROVE  HoldsRightly(u)'
    <3>1. "telephony" \in Mutexes /\ "bluetooth" \in Mutexes BY DEF Mutexes
    <3>2. CASE u = "ui" BY <1>0, <2>1, <2>2, <2>3, <3>1, <3>2 DEF HoldsRightly
    <3>3. CASE u # "ui"
      <4>1. \A d \in Mutexes : mutex'[d] = u <=> mutex[d] = u
        BY <1>0, <2>1, <2>2, <2>3, <3>3
      <4> QED BY <1>0, <2>1, <3>1, <3>3, <4>1 DEF MutexInv, HoldsRightly
    <3> QED BY <3>2, <3>3
  <2> QED BY <2>5, <2>6 DEF MutexInv, HoldsRightly
<1>3. ASSUME NEW op \in {"on", "off"}, NEW r \in Radios, Toggles(op, r) PROVE MutexInv'
  <2> DEFINE b == MutexOf[r]
  <2>1. /\ pc["ui"] = "idle" /\ mutex[b] = "free" /\ b \in Mutexes /\ mutex'[b] = "ui"
        /\ \A d \in Mutexes : d # b => mutex'[d] = mutex[d]
        /\ \A x \in Radios : x # r => enabled'[x] = enabled[x]
        /\ copy'["ui"] = enabled' /\ \A u \in Callers : u # "ui" => copy'[u] = copy[u]
        /\ UNCHANGED told
    BY <1>0, <1>3 DEF Toggles, Calling, Reads, TypeOK
  <2>2. pc'["ui"] = "tell" /\ \A u \in Callers : u # "ui" => pc'[u] = pc[u]
    BY <1>0, <1>3, Goes DEF Toggles
  <2>3. \A d \in Mutexes : mutex[d] # "ui" BY <1>0, <2>1 DEF MutexInv, HoldsRightly, Mutexes
  <2>4. PropertiesTellTheState'
    BY <1>0, <2>1 DEF MutexInv, HoldsRightly, PropertiesTellTheState
  <2>5. ASSUME NEW u \in Callers
        PROVE  HoldsRightly(u)'
    <3>1. "telephony" \in Mutexes /\ "bluetooth" \in Mutexes BY DEF Mutexes
    <3>2. CASE u = "ui"
      <4>1. \A d \in Mutexes : mutex'[d] = u => d = b BY <2>1, <2>3, <3>2
      <4> QED BY <2>1, <2>2, <3>1, <3>2, <4>1 DEF HoldsRightly
    <3>3. CASE u # "ui"
      <4>1. \A d \in Mutexes : mutex'[d] = u <=> mutex[d] = u /\ d # b
        BY <1>0, <2>1, <3>3
      <4>2. \A d \in Mutexes : mutex[d] = u => d # b BY <1>0, <2>1
      <4> QED BY <1>0, <2>1, <2>2, <3>1, <3>3, <4>1, <4>2 DEF MutexInv, HoldsRightly
    <3> QED BY <3>2, <3>3
  <2> QED BY <2>4, <2>5 DEF MutexInv, HoldsRightly
<1> QED BY <1>1, <1>2, <1>3 DEF ToggleCall

-----------------------------------------------------------------------------
(* Who starts the vhci thread. *)

LEMMA Bluetooths ==
  /\ \A i \in 1 .. Len(CreateCalls) :
       CreateCalls[i] = Bluetooth /\ i > 1 => CreateCalls[i - 1] = Telephony
  /\ Len(CreateCalls) = 5 /\ Head(CreateCalls) # Bluetooth
  /\ Len(DestroyCalls) = 3 /\ Head(DestroyCalls) # Bluetooth
  /\ \A i \in 1 .. Len(DestroyCalls) : DestroyCalls[i] # Bluetooth
BY DEF CreateCalls, DestroyCalls, Bluetooth, Telephony

\* Whoever moves no caller of the radios'.
LEMMA OrderFrame ==
  ASSUME TypeOK, OrderInv, UNCHANGED <<todo, vhci>>, Started' <=> Started,
         pc'["live"] = pc["live"] \/ {pc["live"], pc'["live"]} \cap {"bluetooth", "vhci"} = {},
         \/ pc'["ui"] = pc["ui"]
         \/ /\ pc["ui"] \notin InitPcs \cup {"idle"}
            /\ pc'["ui"] \notin {"bluetooth", "vhci"}
  PROVE  OrderInv'
<1>1. todo # <<>> /\ Head(todo) = Bluetooth /\ pc'["ui"] # pc["ui"] => FALSE
  BY DEF OrderInv, InitPcs
<1>2. \A t \in Callers : Owes(t)' <=> Owes(t)
  BY <1>1 DEF Owes, Callers, InitPcs
<1> QED BY <1>1, <1>2 DEF OrderInv

\* The head of what is left is bluetooth's only where telephony has been called before it.
LEMMA CallsInOrder ==
  ASSUME TypeOK, OrderInv, NEW op, NEW what, Calling(op, what)
  PROVE  /\ \A i \in 1 .. Len(todo') : todo'[i] = Bluetooth /\ i > 1 => todo'[i - 1] = Telephony
         /\ todo' # <<>> /\ Head(todo') = Bluetooth => <<op, what>> = Telephony
<1>1. /\ todo \in Seq(Calls) /\ todo # <<>> /\ todo' = Tail(todo) /\ todo[1] = <<op, what>>
  BY DEF Calling, TypeOK
<1>2. /\ Len(todo') = Len(todo) - 1 /\ \A i \in 1 .. Len(todo') : todo'[i] = todo[i + 1]
      /\ Len(todo) \in Nat
  BY <1>1
<1>3. ASSUME NEW i \in 1 .. Len(todo'), todo'[i] = Bluetooth, i > 1
      PROVE  todo'[i - 1] = Telephony
  <2>1. i + 1 \in 1 .. Len(todo) /\ i + 1 > 1 /\ todo[i + 1] = Bluetooth BY <1>2, <1>3
  <2>2. todo[(i + 1) - 1] = Telephony BY <2>1 DEF OrderInv
  <2>3. i - 1 \in 1 .. Len(todo') /\ (i + 1) - 1 = (i - 1) + 1 BY <1>2, <1>3
  <2> QED BY <1>2, <2>2, <2>3
<1>4. ASSUME todo' # <<>>, Head(todo') = Bluetooth PROVE <<op, what>> = Telephony
  <2>1. Len(todo') > 0 /\ todo'[1] = Bluetooth BY <1>1, <1>4
  <2>2. 2 \in 1 .. Len(todo) /\ 1 \in 1 .. Len(todo') BY <1>2, <2>1
  <2>3. todo[1 + 1] = Bluetooth BY <1>2, <2>1, <2>2
  <2>4. todo[2 - 1] = Telephony BY <2>2, <2>3 DEF OrderInv
  <2>5. 2 - 1 = 1 OBVIOUS
  <2> QED BY <1>1, <2>4, <2>5, Zenon
<1> QED BY <1>3, <1>4

\* A call that is not bluetooth's.
LEMMA OtherCallKeepsOrder ==
  ASSUME TypeOK, OrderInv, NEW op, NEW what, Calling(op, what), <<op, what>> # Bluetooth,
         UNCHANGED vhci, Started' <=> Started, pc'["live"] = pc["live"],
         pc'["ui"] \notin {"bluetooth", "vhci"},
         <<op, what>> = Telephony => pc'["ui"] = "telephony"
  PROVE  OrderInv'
<1>1. todo # <<>> /\ Head(todo) # Bluetooth /\ pc["ui"] = "idle" BY DEF Calling
<1>2. ~Owes("ui") BY <1>1 DEF Owes
<1>3. ~Owes("ui")'
  BY CallsInOrder DEF Owes
<1>4. Owes("live")' <=> Owes("live") BY DEF Owes
<1>5. \A t \in Callers : Owes(t)' => Owes(t) BY <1>3, <1>4 DEF Callers
<1> QED BY <1>5, CallsInOrder DEF OrderInv

LEMMA UiKeepsOrder ==
  ASSUME TypeOK, OrderInv, CameraCall \/ NetworkCall \/ ToggleCall PROVE OrderInv'
<1>1. CASE CameraCall
  <2>1. Started' <=> Started BY <1>1, CameraCallPlaces DEF Started, daemons
  <2>2. pc'["ui"] \notin InitPcs
    BY <1>1, CameraCallPlaces DEF CameraPcs, StartPcs, StopPcs, InitPcs
  <2>3. CASE UNCHANGED todo /\ pc["ui"] # "idle"
    BY <1>1, <2>1, <2>2, <2>3, CameraCallPlaces, OrderFrame
    DEF CameraPcs, StartPcs, StopPcs, InitPcs
  <2>4. ASSUME NEW op \in {"init", "start", "stop"}, NEW what \in Cameras \cup {"camera"},
               Calling(op, what)
        PROVE  OrderInv'
    <3>1. <<op, what>> # Bluetooth /\ <<op, what>> # Telephony
      BY DEF Bluetooth, Telephony, Cameras
    <3> QED BY <1>1, <2>1, <2>2, <2>4, <3>1, CameraCallPlaces, OtherCallKeepsOrder DEF InitPcs
  <2> QED BY <1>1, <2>3, <2>4, CameraCallPlaces
<1>2. CASE NetworkCall
  <2>1. Started' <=> Started BY <1>2, NetworkCallPlaces DEF Started
  <2>2. pc'["ui"] \notin InitPcs BY <1>2, NetworkCallPlaces DEF NetworkPcs, InitPcs
  <2>3. CASE UNCHANGED todo /\ pc["ui"] # "idle"
    BY <1>2, <2>1, <2>2, <2>3, NetworkCallPlaces, OrderFrame DEF NetworkPcs, InitPcs
  <2>4. ASSUME NEW op \in {"init", "shutdown"}, Calling(op, "network") PROVE OrderInv'
    <3>1. <<op, "network">> # Bluetooth /\ <<op, "network">> # Telephony
      BY DEF Bluetooth, Telephony
    <3> QED BY <1>2, <2>1, <2>2, <2>4, <3>1, NetworkCallPlaces, OtherCallKeepsOrder DEF InitPcs
  <2> QED BY <1>2, <2>3, <2>4, NetworkCallPlaces
<1>3. CASE ToggleCall
  <2>1. (Started' <=> Started) /\ vhci' = vhci /\ pc'["live"] = pc["live"]
    BY <1>3, TogglePlaces DEF Started, daemons
  <2>2. CASE UNCHANGED todo /\ pc["ui"] = "tell" /\ pc'["ui"] = "idle"
    BY <2>1, <2>2, OrderFrame DEF InitPcs
  <2>3. ASSUME NEW op \in {"on", "off"}, NEW r \in Radios, Calling(op, r), pc'["ui"] = "tell"
        PROVE  OrderInv'
    <3>1. <<op, r>> # Bluetooth /\ <<op, r>> # Telephony BY DEF Bluetooth, Telephony
    <3> QED BY <2>1, <2>3, <3>1, OtherCallKeepsOrder
  <2>4. CASE Calling("init", "telephony") /\ pc'["ui"] = "telephony"
    <3>1. Telephony # Bluetooth BY DEF Bluetooth, Telephony
    <3> QED BY <2>1, <2>4, <3>1, OtherCallKeepsOrder DEF Telephony
  <2>5. CASE Calling("init", "bluetooth") /\ pc'["ui"] = "bluetooth"
    <3>1. todo # <<>> /\ Head(todo) = Bluetooth /\ pc["ui"] = "idle"
      BY <2>5 DEF Calling, Bluetooth
    <3>2. Owes("ui") /\ ~Owes("live") BY <3>1 DEF Owes, OrderInv, Callers
    <3>3. ~Owes("live")' BY <2>1, <3>2 DEF Owes
    <3>4. /\ \A i \in 1 .. Len(todo') :
               todo'[i] = Bluetooth /\ i > 1 => todo'[i - 1] = Telephony
          /\ ~(todo' # <<>> /\ Head(todo') = Bluetooth)
      BY <2>5, CallsInOrder DEF Telephony
    <3>5. Started /\ ~vhci BY <3>2 DEF OrderInv, Callers
    <3> QED BY <2>1, <3>3, <3>4, <3>5 DEF OrderInv, Callers
  <2> QED BY <1>3, <2>2, <2>3, <2>4, <2>5, TogglePlaces DEF Mutexes
<1> QED BY <1>1, <1>2, <1>3

\* The rild threads are started once, and by whoever then starts the vhci thread: where both
\* callers come, telephony ends the process before bluetooth could.
LEMMA InitStepKeepsOrder ==
  ASSUME TypeOK, OrderInv, NEW t \in Callers, InitStep(t), ended = "no"
  PROVE  ended' \in {"no", "telephony"} /\ (ended' = "no" => OrderInv')
<1>0. \A s \in Rilds : s \in Daemons BY DEF Daemons
<1>1. CASE StartsRilds(t)
  <2>1. CASE Started BY <1>1, <2>1 DEF StartsRilds, Started
  <2>2. CASE ~Started
    <3>1. /\ pc[t] = "rilds" /\ pc'[t] = IF t = "ui" THEN "idle" ELSE "bluetooth"
          /\ \A u \in Callers : u # t => pc'[u] = pc[u]
          /\ UNCHANGED <<todo, vhci, ended>>
      BY <1>1, <2>2, Goes DEF StartsRilds, Started
    <3>2. Started'
      <4>1. \A s \in Rilds : worker'[s] = "bind" BY <1>0, <1>1, <2>2 DEF StartsRilds, Started
      <4>2. PICK s \in Rilds : TRUE BY DeviceAssumption
      <4> QED BY <4>1, <4>2 DEF Started
    <3>3. ~vhci /\ \A u \in Callers : ~Owes(u) BY <2>2 DEF OrderInv
    <3>4. \A u \in Callers : u # t => ~Owes(u)' BY <3>1, <3>3 DEF Owes
    <3>5. pc'["ui"] \in {"idle", "telephony", "rilds"} \/ pc'["ui"] = pc["ui"]
      BY <3>1 DEF Callers
    <3> QED BY <3>1, <3>2, <3>3, <3>4, <3>5 DEF OrderInv
  <2> QED BY <2>1, <2>2
<1>2. CASE StartsVhci(t)
  <2>1. Owes(t) BY <1>2 DEF StartsVhci, Owes
  <2>2. ~vhci /\ Started /\ \A u \in Callers : u # t => ~Owes(u) BY <2>1 DEF OrderInv
  <2>3. /\ pc[t] = "vhci" /\ pc'[t] = "idle" /\ \A u \in Callers : u # t => pc'[u] = pc[u]
        /\ UNCHANGED <<todo, daemons, ended>>
    BY <1>2, <2>2, Goes DEF StartsVhci
  <2>4. Started' BY <2>2, <2>3 DEF Started, daemons
  <2>5. \A u \in Callers : ~Owes(u)'
    <3>1. \A u \in Callers : u # t => ~Owes(u)' BY <2>2, <2>3 DEF Owes
    <3>2. ~Owes(t)' BY <2>3 DEF Owes, OrderInv
    <3> QED BY <3>1, <3>2
  <2>6. pc'["ui"] = "idle" \/ pc'["ui"] = pc["ui"] BY <2>3 DEF Callers
  <2> QED BY <2>3, <2>4, <2>5, <2>6 DEF OrderInv
<1>3. ASSUME NEW b \in Mutexes, InitBegins(t, b) PROVE ended' = "no" /\ OrderInv'
  <2>1. /\ pc[t] = b /\ pc'[t] = IF b = "telephony" THEN "rilds" ELSE "vhci"
        /\ \A u \in Callers : u # t => pc'[u] = pc[u]
        /\ UNCHANGED <<todo, vhci, daemons, ended>>
    BY <1>3, Goes DEF InitBegins
  <2>2. Started' <=> Started BY <2>1 DEF Started, daemons
  <2>3. \A u \in Callers : Owes(u)' <=> Owes(u) BY <2>1 DEF Owes, Mutexes
  <2>4. pc'["ui"] = pc["ui"] \/ (pc["ui"] = "telephony" /\ pc'["ui"] = "rilds")
          \/ pc["ui"] = "bluetooth"
    BY <2>1 DEF Mutexes, Callers
  <2> QED BY <2>1, <2>2, <2>3, <2>4 DEF OrderInv
<1> QED BY <1>1, <1>2, <1>3 DEF InitStep

LEMMA EventKeepsOrder == ASSUME TypeOK, OrderInv, UiEvent PROVE OrderInv'
<1>1. ~Owes("ui") BY EventPlaces DEF Owes
<1>2. /\ \A i \in 1 .. Len(todo') :
            todo'[i] = Bluetooth /\ i > 1 => todo'[i - 1] = Telephony
      /\ todo' # <<>> => Head(todo') # Bluetooth
  <2>1. CASE todo' \in {<<>>, CreateCalls, DestroyCalls} BY <2>1, Bluetooths
  <2>2. ASSUME NEW op \in {"start", "stop", "on", "off"}, NEW what \in Cameras \cup Radios,
               todo' = <<<<op, what>>>>
        PROVE  /\ Head(todo') # Bluetooth
               /\ \A i \in 1 .. Len(todo') :
                    todo'[i] = Bluetooth /\ i > 1 => todo'[i - 1] = Telephony
    <3>1. <<op, what>> # Bluetooth BY DEF Bluetooth
    <3> QED BY <2>2, <3>1
  <2> QED BY <2>1, <2>2, EventPlaces
<1>3. ~Owes("ui")' BY <1>2, EventPlaces DEF Owes
<1>4. Owes("live")' => Owes("live") BY EventPlaces DEF Owes
<1>5. (Started' <=> Started) /\ vhci' = vhci BY EventPlaces DEF Started, daemons
<1> QED BY <1>2, <1>3, <1>4, <1>5 DEF OrderInv, Callers

LEMMA WorkerKeepsOrder ==
  ASSUME TypeOK, OrderInv, NEW s \in Daemons, WorkerStep(s) \/ (s = "netd" /\ NetdGivesUp)
  PROVE  OrderInv'
<1>1. Started' <=> Started BY WorkerPlaces DEF Started, Daemons
<1> QED BY <1>1, WorkerPlaces, OrderFrame

-----------------------------------------------------------------------------
(* Theorems. *)

\* Order is not needed once telephony has ended the process.
SafetyInv ==
  /\ EndsOnlyInTelephony
  /\ CameraInv /\ NetdInv /\ MutexInv
  /\ ended = "no" => OrderInv

LEMMA InitSafe == Init => SafetyInv
<1> SUFFICES ASSUME Init PROVE SafetyInv
  OBVIOUS
<1>1. CameraInv BY DEF Init, CameraInv, StartPcs, StopPcs, Callers
<1>2. NetdInv BY DEF Init, NetdInv, Callers, Daemons
<1>3. MutexInv
  <2>1. \A b \in Mutexes : mutex[b] = "free" BY DEF Init
  <2>2. \A t \in Callers : HoldsRightly(t)
    <3>1. \A r \in Radios : MutexOf[r] \in Mutexes BY DEF MutexOf, Mutexes
    <3> QED BY <2>1, <3>1 DEF Init, HoldsRightly, Callers, Mutexes
  <2> QED BY <2>2 DEF Init, MutexInv, PropertiesTellTheState
<1>4. OrderInv
  <2>1. ~Started BY DEF Init, Started, Daemons
  <2>2. \A t \in Callers : ~Owes(t) BY DEF Init, Owes
  <2> QED BY <2>1, <2>2 DEF Init, OrderInv
<1> QED BY <1>1, <1>2, <1>3, <1>4 DEF Init, SafetyInv, EndsOnlyInTelephony

LEMMA CameraCallSafe == ASSUME TypeOK, SafetyInv, ended = "no", CameraCall PROVE SafetyInv'
<1>1. UNCHANGED ended
  BY DEF CameraCall, UiInitsCamera, JoinsGenerator, StreamHalts, StreamBegins, StopStreamBegins,
         SafetyInv, CameraInv
<1>2. CameraInv' BY CameraCallKeepsCamera DEF SafetyInv
<1>3. NetdInv'
  BY CameraCallPlaces, NetdFrame DEF SafetyInv, daemons, CameraPcs, StartPcs, StopPcs
<1>4. MutexInv'
  <2>1. \A t \in Callers : pc'[t] = pc[t] \/
           (pc[t] \notin {"rilds", "vhci", "tell"} /\ pc'[t] \notin {"rilds", "vhci"})
    BY CameraCallPlaces DEF Callers, CameraPcs, StartPcs, StopPcs
  <2> QED BY <2>1, CameraCallPlaces, MutexFrame DEF SafetyInv
<1>5. OrderInv' BY UiKeepsOrder DEF SafetyInv
<1> QED BY <1>1, <1>2, <1>3, <1>4, <1>5 DEF SafetyInv, EndsOnlyInTelephony

LEMMA NetworkCallSafe == ASSUME TypeOK, SafetyInv, ended = "no", NetworkCall PROVE SafetyInv'
<1>1. UNCHANGED ended
  BY DEF NetworkCall, UiInitsNetwork, ShutdownBegins, ShutdownCloses, ShutdownJoins,
         SafetyInv, NetdInv, Calling
<1>2. CameraInv'
  BY NetworkCallPlaces, CameraFrame DEF SafetyInv, NetworkPcs, CameraPcs, StartPcs, StopPcs
<1>3. NetdInv' BY NetworkCallKeepsNetd DEF SafetyInv
<1>4. MutexInv'
  <2>1. \A t \in Callers : pc'[t] = pc[t] \/
           (pc[t] \notin {"rilds", "vhci", "tell"} /\ pc'[t] \notin {"rilds", "vhci"})
    BY NetworkCallPlaces DEF Callers, NetworkPcs
  <2> QED BY <2>1, NetworkCallPlaces, MutexFrame DEF SafetyInv
<1>5. OrderInv' BY UiKeepsOrder DEF SafetyInv
<1> QED BY <1>1, <1>2, <1>3, <1>4, <1>5 DEF SafetyInv, EndsOnlyInTelephony

LEMMA ToggleCallSafe == ASSUME TypeOK, SafetyInv, ended = "no", ToggleCall PROVE SafetyInv'
<1>1. UNCHANGED ended BY DEF ToggleCall, UiInits, ToggleTells, Toggles
<1>2. CameraInv'
  BY TogglePlaces, CameraFrame DEF SafetyInv, CameraPcs, StartPcs, StopPcs, Mutexes
<1>3. NetdInv' BY TogglePlaces, NetdFrame DEF SafetyInv, daemons, Mutexes
<1>4. MutexInv' BY ToggleKeepsMutex DEF SafetyInv
<1>5. OrderInv' BY UiKeepsOrder DEF SafetyInv
<1> QED BY <1>1, <1>2, <1>3, <1>4, <1>5 DEF SafetyInv, EndsOnlyInTelephony

LEMMA InitStepSafe ==
  ASSUME TypeOK, SafetyInv, ended = "no", NEW t \in Callers, InitStep(t) PROVE SafetyInv'
<1>1. ended' \in {"no", "telephony"} /\ (ended' = "no" => OrderInv')
  BY InitStepKeepsOrder DEF SafetyInv
<1>2. pc'["ui"] = pc["ui"] \/ (pc["ui"] \in InitPcs /\ pc'["ui"] \in InitPcs \cup {"idle"})
  BY InitStepPlaces DEF Callers
<1>3. CameraInv'
  BY <1>2, InitStepPlaces, CameraFrame DEF SafetyInv, InitPcs, CameraPcs, StartPcs, StopPcs
<1>4. NetdInv' BY <1>2, InitStepPlaces, NetdFrame DEF SafetyInv, InitPcs
<1>5. MutexInv' BY InitStepKeepsMutex DEF SafetyInv
<1> QED BY <1>1, <1>3, <1>4, <1>5 DEF SafetyInv, EndsOnlyInTelephony

LEMMA LiveInitSafe ==
  ASSUME TypeOK, SafetyInv, ended = "no", LiveInitsCamera PROVE SafetyInv'
<1>1. UNCHANGED ended BY DEF LiveInitsCamera
<1>2. CameraInv' BY LiveKeepsCamera DEF SafetyInv
<1>3. NetdInv' BY LiveInitPlaces, NetdFrame DEF SafetyInv, daemons
<1>4. MutexInv'
  <2>1. \A t \in Callers : pc'[t] = pc[t] \/
           (pc[t] \notin {"rilds", "vhci", "tell"} /\ pc'[t] \notin {"rilds", "vhci"})
    BY LiveInitPlaces DEF Callers
  <2> QED BY <2>1, LiveInitPlaces, MutexFrame DEF SafetyInv
<1>5. OrderInv'
  <2>1. Started' <=> Started BY LiveInitPlaces DEF Started, daemons
  <2> QED BY <2>1, LiveInitPlaces, OrderFrame DEF SafetyInv
<1> QED BY <1>1, <1>2, <1>3, <1>4, <1>5 DEF SafetyInv, EndsOnlyInTelephony

LEMMA EventSafe == ASSUME TypeOK, SafetyInv, ended = "no", UiEvent PROVE SafetyInv'
<1>1. CameraInv' BY EventPlaces, CameraFrame DEF SafetyInv
<1>2. NetdInv' BY EventPlaces, NetdFrame DEF SafetyInv, daemons
<1>3. MutexInv'
  <2>1. \A t \in Callers : pc'[t] = pc[t] \/
           (pc[t] \notin {"rilds", "vhci", "tell"} /\ pc'[t] \notin {"rilds", "vhci"})
    BY EventPlaces DEF Callers
  <2> QED BY <2>1, EventPlaces, MutexFrame DEF SafetyInv
<1>4. OrderInv' BY EventKeepsOrder DEF SafetyInv
<1> QED BY <1>1, <1>2, <1>3, <1>4, EventPlaces DEF SafetyInv, EndsOnlyInTelephony

\* The steps of the threads and of the guests, which move no caller.
LEMMA ThreadSafe ==
  ASSUME TypeOK, SafetyInv, ended = "no",
         \/ \E c \in Cameras : GeneratorStep(c)
         \/ \E s \in Daemons : WorkerStep(s) \/ (s = "netd" /\ NetdGivesUp)
         \/ GuestStep
         \/ UNCHANGED vars
  PROVE  SafetyInv'
<1>1. ASSUME NEW c \in Cameras, GeneratorStep(c) PROVE SafetyInv'
  <2>1. UNCHANGED <<todo, pc, daemons, radios, vhci, ended>>
    BY <1>1 DEF GeneratorStep, GeneratorOpens, GeneratorEnds
  <2>2. CameraInv' BY <1>1, GeneratorKeepsCamera DEF SafetyInv
  <2>3. NetdInv' /\ MutexInv' BY <2>1, NetdFrame, MutexFrame DEF SafetyInv, daemons
  <2>4. (Started' <=> Started) BY <2>1 DEF Started, daemons
  <2>5. OrderInv' BY <2>1, <2>4, OrderFrame DEF SafetyInv
  <2> QED BY <2>1, <2>2, <2>3, <2>5 DEF SafetyInv, EndsOnlyInTelephony
<1>2. ASSUME NEW s \in Daemons, WorkerStep(s) \/ (s = "netd" /\ NetdGivesUp) PROVE SafetyInv'
  <2>1. UNCHANGED <<todo, pc, camera, cameras, radios, vhci, ended>> BY <1>2, WorkerPlaces
  <2>2. CameraInv' /\ MutexInv' BY <2>1, CameraFrame, MutexFrame DEF SafetyInv
  <2>3. NetdInv' /\ OrderInv' BY <1>2, WorkerKeepsNetd, WorkerKeepsOrder DEF SafetyInv
  <2> QED BY <2>1, <2>2, <2>3 DEF SafetyInv, EndsOnlyInTelephony
<1>3. CASE GuestStep \/ UNCHANGED vars
  <2>1. UNCHANGED <<todo, pc, camera, cameras, running, listening, worker, radios, vhci, ended>>
    BY <1>3 DEF GuestStep, GuestConnects, GuestBreaksSilence, vars, daemons
  <2>2. CameraInv' /\ NetdInv' /\ MutexInv'
    BY <2>1, CameraFrame, NetdFrame, MutexFrame DEF SafetyInv
  <2>3. (Started' <=> Started) BY <2>1 DEF Started
  <2>4. OrderInv' BY <2>1, <2>3, OrderFrame DEF SafetyInv
  <2> QED BY <2>1, <2>2, <2>4 DEF SafetyInv, EndsOnlyInTelephony
<1> QED BY <1>1, <1>2, <1>3

LEMMA SafetyStep == TypeOK /\ SafetyInv /\ [Next]_vars => SafetyInv'
<1> SUFFICES ASSUME TypeOK, SafetyInv, [Next]_vars PROVE SafetyInv'
  OBVIOUS
<1>1. CASE UNCHANGED vars
  <2>1. CASE ended = "no" BY <1>1, <2>1, ThreadSafe
  <2>2. CASE ended # "no"
    <3>1. CameraInv' /\ NetdInv' /\ MutexInv'
      BY <1>1, CameraFrame, NetdFrame, MutexFrame DEF SafetyInv, vars, daemons
    <3> QED BY <1>1, <2>2, <3>1 DEF SafetyInv, EndsOnlyInTelephony, vars
  <2> QED BY <2>1, <2>2
<1>2. CASE Next
  <2>1. ended = "no" BY <1>2 DEF Next
  <2>2. CASE UiStep
    <3>1. CameraCall \/ NetworkCall \/ ToggleCall \/ InitStep("ui")
      BY <2>2 DEF UiStep, RadioCall, ToggleCall
    <3> QED
      BY <2>1, <3>1, CameraCallSafe, NetworkCallSafe, ToggleCallSafe, InitStepSafe DEF Callers
  <2>3. CASE LiveStep BY <2>1, <2>3, LiveInitSafe, InitStepSafe DEF LiveStep, Callers
  <2>4. CASE UiEvent BY <2>1, <2>4, EventSafe
  <2>5. CASE \/ \E c \in Cameras : GeneratorStep(c)
             \/ \E s \in Daemons : WorkerStep(s)
             \/ GuestStep
    BY <2>1, <2>5, ThreadSafe
  <2>6. CASE NetdGivesUp
    <3>1. "netd" \in Daemons BY DEF Daemons
    <3> QED BY <2>1, <2>6, <3>1, ThreadSafe
  <2> QED BY <1>2, <2>2, <2>3, <2>4, <2>5, <2>6 DEF Next
<1> QED BY <1>1, <1>2

\* Every variable keeps its type: a daemon serves a guest or nobody, a caller is where a call
\* of its own puts it.
THEOREM TypeCorrect == Spec => []TypeOK
<1>1. Init => TypeOK BY InitType
<1>2. TypeOK /\ [Next]_vars => TypeOK' BY TypeStep
<1> QED BY <1>1, <1>2, PTL DEF Spec

\* The inductive invariant of the devices.
THEOREM SafetyHolds == Spec => []SafetyInv
<1>1. Init => SafetyInv BY InitSafe
<1>2. TypeOK /\ SafetyInv /\ [Next]_vars => SafetyInv' BY SafetyStep
<1> QED BY <1>1, <1>2, TypeCorrect, PTL DEF Spec

\* No camera, network or Bluetooth call assigns to a joinable std::thread (camera_bridge.cpp,
\* network_bridge.cpp, bluetooth_bridge.cpp), whatever opens, polls or accepts fail.
THEOREM EndsAlwaysInTelephony == Spec => []EndsOnlyInTelephony
<1>1. SafetyInv => EndsOnlyInTelephony BY DEF SafetyInv
<1> QED BY <1>1, SafetyHolds, PTL

\* stopStream() and NetworkBridge::shutdown() leave nothing that draws, streams or listens.
THEOREM AlwaysQuietAfterStop == Spec => []QuietAfterStop
<1>1. SafetyInv => QuietAfterStop
  BY DEF SafetyInv, CameraInv, NetdInv, QuietAfterStop, StartPcs, StopPcs
<1> QED BY <1>1, SafetyHolds, PTL

\* updateProperties() under the bridge's mutex: the properties tell SIM, Wi-Fi and adapter as
\* they are, whoever toggled and initialised them.
THEOREM PropertiesAlwaysTellTheState == Spec => []PropertiesTellTheState
<1>1. SafetyInv => PropertiesTellTheState BY DEF SafetyInv, MutexInv
<1> QED BY <1>1, SafetyHolds, PTL
=============================================================================
