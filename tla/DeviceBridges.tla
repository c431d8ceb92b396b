---------------------------- MODULE DeviceBridges ----------------------------
(***************************************************************************)
(* The virtual devices that keep a thread: the cameras' frame generators   *)
(* (camera_bridge.cpp), the netd daemon (network_bridge.cpp), the rild     *)
(* sockets (telephony_bridge.cpp) and the vhci worker                      *)
(* (bluetooth_bridge.cpp), with the calls of onCreate(), onDestroy() and   *)
(* the chips on the UI thread and those of a live boot on its own.         *)
(*                                                                         *)
(* A handler of the UI is the sequence of its native calls.  A critical    *)
(* section of mCameraMutex is one step; those of mTelephonyMutex and       *)
(* mBtMutex hold the mutex from the read of the state to the last          *)
(* setProperty().  Pixels, addresses and answers are left out.             *)
(*                                                                         *)
(* Of the properties of a radio one is kept, the one that says whether it  *)
(* is on (gsm.sim.state, persist.sys.wifi.state, bluetooth.status).  Some  *)
(* of the others are set when it is switched on and left alone when it is  *)
(* switched off (ril.ready, gsm.sim.operator.iso-country, the profiles of  *)
(* Bluetooth): those say what they said, and are no part of the model.     *)
(***************************************************************************)
EXTENDS Integers, Sequences

CONSTANTS
  Radios,      \* of sim, wifi and adapter, those that are modelled
  Rilds,       \* the sockets rild, rild-debug and wpa_wlan0
  Guests,      \* processes that connect to a daemon
  NoGuest,
  MaxHandled,  \* bound: handlers that the UI runs
  MaxLives,    \* bound: live boots
  MaxVisits    \* bound: connections

ASSUME DeviceAssumption ==
  /\ Radios \subseteq {"sim", "wifi", "adapter"}
  /\ Rilds # {} /\ "netd" \notin Rilds /\ NoGuest \notin Guests
  /\ MaxHandled \in Nat /\ MaxLives \in Nat /\ MaxVisits \in Nat

Cameras == {"back", "front"}
Mutexes == {"telephony", "bluetooth"}
Daemons == Rilds \cup {"netd"}
Callers == {"ui", "live"}

\* The mutex of a radio's state.
MutexOf == [r \in Radios |-> IF r = "adapter" THEN "bluetooth" ELSE "telephony"]

\* The native calls of the UI, each with what it is about.
Calls == ({"start", "stop"} \X Cameras) \cup ({"on", "off"} \X Radios)
           \cup ({"init"} \X ({"network", "camera"} \cup Mutexes)) \cup {<<"shutdown", "network">>}

CreateCalls == <<<<"init", "network">>, <<"init", "camera">>, <<"start", "back">>,
                 <<"init", "telephony">>, <<"init", "bluetooth">>>>
DestroyCalls == <<<<"stop", "back">>, <<"stop", "front">>, <<"shutdown", "network">>>>

VARIABLES
  active,             \* there is an activity
  activeCameraId,     \* the camera of the UI's chips
  todo,               \* the calls the UI's handler has left
  handled, lives,
  pc,                 \* where the two callers are
  camera,             \* the camera that startStream() or stopStream() is about
  mCamInitialized, mGeneratorRunning, isStreaming,
  generator,          \* where each camera's thread is
  running,            \* a daemon's flag: mIsRunning, mRildRunning and its two siblings
  listening,          \* its socket is there and listens
  worker,             \* where its thread is
  backlog,            \* the guests that wait to be accepted
  served,             \* the guest whose connection the thread reads
  silent,             \* the connected guests that have asked nothing
  visits,
  enabled,            \* mSimState.isInserted, mWifiState.isConnected, mState.isEnabled
  copy,               \* what a caller's updateProperties() has read of it
  told,               \* what the properties say
  mutex,              \* who holds mTelephonyMutex and mBtMutex
  vhci,               \* mVhciThread runs
  ended               \* what has ended the process

ui      == <<active, activeCameraId, handled, lives>>
cameras == <<mCamInitialized, mGeneratorRunning, isStreaming, generator>>
guests  == <<backlog, served, silent, visits>>
daemons == <<running, listening, worker, guests>>
radios  == <<enabled, copy, told, mutex>>
vars == <<ui, todo, pc, camera, cameras, daemons, radios, vhci, ended>>

UiPcs   == {"idle", "start join", "start halt", "begin", "stop join", "stop halt", "close",
            "net join", "telephony", "rilds", "bluetooth", "vhci", "tell"}
LivePcs == {"idle", "camera", "telephony", "rilds", "bluetooth", "vhci"}

TypeOK ==
  /\ active \in BOOLEAN /\ activeCameraId \in Cameras
  /\ camera \in Cameras \cup {"none"}
  /\ todo \in Seq(Calls) /\ handled \in Nat /\ lives \in Nat
  /\ pc \in [Callers -> UiPcs \cup LivePcs] /\ pc["ui"] \in UiPcs /\ pc["live"] \in LivePcs
  /\ mCamInitialized \in BOOLEAN
  /\ mGeneratorRunning \in [Cameras -> BOOLEAN] /\ isStreaming \in [Cameras -> BOOLEAN]
  /\ generator \in [Cameras -> {"none", "open", "run", "over"}]
  /\ running \in [Daemons -> BOOLEAN] /\ listening \in [Daemons -> BOOLEAN]
  /\ worker \in [Daemons -> {"none", "bind", "poll", "accept", "read", "over"}]
  /\ backlog \in [Daemons -> Seq(Guests)] /\ served \in [Daemons -> Guests \cup {NoGuest}]
  /\ silent \subseteq Guests /\ visits \in Nat
  /\ enabled \in [Radios -> BOOLEAN] /\ copy \in [Callers -> [Radios -> BOOLEAN]]
  /\ told \in [Radios -> {"on", "off", "unset"}]
  /\ mutex \in [Mutexes -> Callers \cup {"free"}]
  /\ vhci \in BOOLEAN
  /\ ended \in {"no", "camera", "network", "telephony", "bluetooth"}

Init ==
  /\ active = FALSE /\ activeCameraId = "back" /\ camera = "none"
  /\ todo = <<>> /\ handled = 0 /\ lives = 0 /\ pc = [t \in Callers |-> "idle"]
  /\ mCamInitialized = FALSE
  /\ mGeneratorRunning = [c \in Cameras |-> FALSE] /\ isStreaming = [c \in Cameras |-> FALSE]
  /\ generator = [c \in Cameras |-> "none"]
  /\ running = [s \in Daemons |-> FALSE] /\ listening = [s \in Daemons |-> FALSE]
  /\ worker = [s \in Daemons |-> "none"]
  /\ backlog = [s \in Daemons |-> <<>>] /\ served = [s \in Daemons |-> NoGuest]
  /\ silent = {} /\ visits = 0
  /\ enabled = [r \in Radios |-> TRUE] /\ copy = [t \in Callers |-> enabled]
  /\ told = [r \in Radios |-> "unset"] /\ mutex = [b \in Mutexes |-> "free"]
  /\ vhci = FALSE /\ ended = "no"

Goto(t, place) == pc' = [pc EXCEPT ![t] = place]

Calling(op, what) ==
  /\ pc["ui"] = "idle" /\ todo # <<>> /\ Head(todo) = <<op, what>>
  /\ todo' = Tail(todo)

-----------------------------------------------------------------------------
(* CameraBridge: the callers. *)

\* initialize() sets both cameras back, whatever they do.
CameraIsReset ==
  /\ mCamInitialized' = TRUE
  /\ isStreaming' = [c \in Cameras |-> FALSE]
  /\ UNCHANGED <<mGeneratorRunning, generator>>

UiInitsCamera ==
  /\ Calling("init", "camera")
  /\ CameraIsReset
  /\ UNCHANGED <<ui, pc, camera, daemons, radios, vhci, ended>>

LiveInitsCamera ==
  /\ pc["live"] = "camera"
  /\ CameraIsReset
  /\ Goto("live", "telephony")
  /\ UNCHANGED <<ui, todo, camera, daemons, radios, vhci, ended>>

\* stopStream(), which startStream() begins with: the flag, and a thread to be joined.
StopStreamBegins(op, c) ==
  /\ op \in {"start", "stop"} /\ Calling(op, c)
  /\ camera' = c
  /\ mGeneratorRunning' = [mGeneratorRunning EXCEPT ![c] = FALSE]
  /\ LET joins == mGeneratorRunning[c] /\ generator[c] # "none" IN
     IF op = "start" THEN Goto("ui", IF joins THEN "start join" ELSE "start halt")
                     ELSE Goto("ui", IF joins THEN "stop join" ELSE "stop halt")
  /\ UNCHANGED <<ui, mCamInitialized, isStreaming, generator, daemons, radios, vhci, ended>>

JoinsGenerator ==
  /\ pc["ui"] \in {"start join", "stop join"} /\ generator[camera] = "over"
  /\ generator' = [generator EXCEPT ![camera] = "none"]
  /\ Goto("ui", IF pc["ui"] = "start join" THEN "start halt" ELSE "stop halt")
  /\ UNCHANGED <<ui, todo, camera, mCamInitialized, mGeneratorRunning, isStreaming, daemons,
                 radios, vhci, ended>>

StreamHalts ==
  /\ pc["ui"] \in {"start halt", "stop halt"}
  /\ isStreaming' = [isStreaming EXCEPT ![camera] = FALSE]
  /\ IF pc["ui"] = "start halt" THEN Goto("ui", "begin") /\ UNCHANGED camera
                                ELSE Goto("ui", "idle") /\ camera' = "none"
  /\ UNCHANGED <<ui, todo, mCamInitialized, mGeneratorRunning, generator, daemons,
                 radios, vhci, ended>>

\* Assigning to a joinable std::thread is std::terminate().
StreamBegins ==
  /\ pc["ui"] = "begin"
  /\ Goto("ui", "idle") /\ camera' = "none"
  /\ IF mCamInitialized
     THEN /\ isStreaming' = [isStreaming EXCEPT ![camera] = TRUE]
          /\ mGeneratorRunning' = [mGeneratorRunning EXCEPT ![camera] = TRUE]
          /\ IF generator[camera] = "none"
             THEN generator' = [generator EXCEPT ![camera] = "open"] /\ UNCHANGED ended
             ELSE ended' = "camera" /\ UNCHANGED generator
     ELSE UNCHANGED <<isStreaming, mGeneratorRunning, generator, ended>>
  /\ UNCHANGED <<ui, todo, mCamInitialized, daemons, radios, vhci>>

-----------------------------------------------------------------------------
(* CameraBridge: generatorLoop. *)

\* Mutant: a thread that cannot open its node lowers the flag.
GeneratorOpensOrLowers(c) ==
  /\ generator[c] = "open"
  /\ \/ generator' = [generator EXCEPT ![c] = "run"] /\ UNCHANGED mGeneratorRunning
     \/ /\ generator' = [generator EXCEPT ![c] = "over"]
        /\ mGeneratorRunning' = [mGeneratorRunning EXCEPT ![c] = FALSE]
  /\ UNCHANGED <<ui, todo, pc, camera, mCamInitialized, isStreaming, daemons, radios, vhci, ended>>

\* A thread that cannot open its node returns; its flag stays up.
GeneratorOpens(c) ==
  /\ generator[c] = "open"
  /\ \E place \in {"run", "over"} : generator' = [generator EXCEPT ![c] = place]
  /\ UNCHANGED <<ui, todo, pc, camera, mCamInitialized, mGeneratorRunning, isStreaming,
                 daemons, radios, vhci, ended>>

\* Frame after frame is written, counted once a second and followed by a sleep, until the flag
\* is seen to be down.
GeneratorEnds(c) ==
  /\ generator[c] = "run" /\ ~mGeneratorRunning[c]
  /\ generator' = [generator EXCEPT ![c] = "over"]
  /\ UNCHANGED <<ui, todo, pc, camera, mCamInitialized, mGeneratorRunning, isStreaming,
                 daemons, radios, vhci, ended>>

GeneratorStep(c) == GeneratorOpens(c) \/ GeneratorEnds(c)

-----------------------------------------------------------------------------
(* NetworkBridge: the caller. *)

\* initialize(): nothing where the flag is up.  The socket may fail to be made, bound or
\* listened on.
UiInitsNetwork ==
  /\ Calling("init", "network")
  /\ \/ UNCHANGED <<running, listening, worker, ended>>
     \/ /\ ~running["netd"]
        /\ running' = [running EXCEPT !["netd"] = TRUE]
        /\ listening' = [listening EXCEPT !["netd"] = TRUE]
        /\ IF worker["netd"] = "none"
           THEN worker' = [worker EXCEPT !["netd"] = "poll"] /\ UNCHANGED ended
           ELSE ended' = "network" /\ UNCHANGED worker
  /\ UNCHANGED <<ui, pc, camera, cameras, guests, radios, vhci>>

\* Mutant: the flag stays up.
ShutdownForgetsFlag ==
  /\ Calling("shutdown", "network")
  /\ IF running["netd"] THEN Goto("ui", "close") ELSE UNCHANGED pc
  /\ UNCHANGED <<ui, camera, cameras, running, listening, worker, guests, radios, vhci, ended>>

ShutdownBegins ==
  /\ Calling("shutdown", "network")
  /\ running' = [running EXCEPT !["netd"] = FALSE]
  /\ IF running["netd"] THEN Goto("ui", "close") ELSE UNCHANGED pc
  /\ UNCHANGED <<ui, camera, cameras, listening, worker, guests, radios, vhci, ended>>

\* Mutant: the thread is not joined.
ShutdownDetaches ==
  /\ pc["ui"] = "close"
  /\ listening' = [listening EXCEPT !["netd"] = FALSE]
  /\ backlog' = [backlog EXCEPT !["netd"] = <<>>]
  /\ silent' = silent \ {backlog["netd"][i] : i \in DOMAIN backlog["netd"]}
  /\ Goto("ui", "idle")
  /\ UNCHANGED <<ui, todo, camera, cameras, running, worker, served, visits, radios, vhci, ended>>

\* The listening socket is closed; whoever waits there is refused.
ShutdownCloses ==
  /\ pc["ui"] = "close"
  /\ listening' = [listening EXCEPT !["netd"] = FALSE]
  /\ backlog' = [backlog EXCEPT !["netd"] = <<>>]
  /\ silent' = silent \ {backlog["netd"][i] : i \in DOMAIN backlog["netd"]}
  /\ Goto("ui", "net join")
  /\ UNCHANGED <<ui, todo, camera, cameras, running, worker, served, visits, radios, vhci, ended>>

ShutdownJoins ==
  /\ pc["ui"] = "net join" /\ worker["netd"] = "over"
  /\ worker' = [worker EXCEPT !["netd"] = "none"]
  /\ Goto("ui", "idle")
  /\ UNCHANGED <<ui, todo, camera, cameras, running, listening, guests, radios, vhci, ended>>

-----------------------------------------------------------------------------
(* The daemons' threads: netdWorkerLoop, and rildSocketLoop for each of its sockets. *)

WorkerGoes(s, place) ==
  /\ worker' = [worker EXCEPT ![s] = place]
  /\ UNCHANGED <<ui, todo, pc, camera, cameras, running, radios, vhci, ended>>

\* The loop's condition, at the end of a turn.
Turn(s) == IF running[s] THEN "poll" ELSE "over"

\* A rild thread makes its own socket, and returns where it cannot.
RildBinds(s) ==
  /\ worker[s] = "bind"
  /\ \/ WorkerGoes(s, "over") /\ UNCHANGED listening
     \/ WorkerGoes(s, Turn(s)) /\ listening' = [listening EXCEPT ![s] = TRUE]
  /\ UNCHANGED guests

\* poll() finds a guest, or times out, or has been given no socket any more.
WorkerPolls(s) ==
  /\ worker[s] = "poll"
  /\ WorkerGoes(s, IF backlog[s] # <<>> THEN "accept" ELSE Turn(s))
  /\ UNCHANGED <<listening, guests>>

\* netd's thread returns where poll() fails; its flag and its socket stay.
NetdGivesUp ==
  /\ worker["netd"] = "poll"
  /\ WorkerGoes("netd", "over")
  /\ UNCHANGED <<listening, guests>>

\* accept() fails where the socket has been closed meanwhile.
WorkerAccepts(s) ==
  /\ worker[s] = "accept"
  /\ IF backlog[s] = <<>>
     THEN WorkerGoes(s, Turn(s)) /\ UNCHANGED <<served, backlog>>
     ELSE /\ WorkerGoes(s, "read")
          /\ served' = [served EXCEPT ![s] = Head(backlog[s])]
          /\ backlog' = [backlog EXCEPT ![s] = Tail(@)]
  /\ UNCHANGED <<listening, silent, visits>>

\* Mutant: the thread returns after its first guest.
WorkerAnswersOnce(s) ==
  /\ worker[s] = "read" /\ served[s] \notin silent
  /\ WorkerGoes(s, "over")
  /\ served' = [served EXCEPT ![s] = NoGuest]
  /\ UNCHANGED <<listening, backlog, silent, visits>>

\* The blocking read() returns once the guest has asked or hung up: answered, closed.
WorkerAnswers(s) ==
  /\ worker[s] = "read" /\ served[s] \notin silent
  /\ WorkerGoes(s, Turn(s))
  /\ served' = [served EXCEPT ![s] = NoGuest]
  /\ UNCHANGED <<listening, backlog, silent, visits>>

WorkerStep(s) ==
  RildBinds(s) \/ WorkerPolls(s) \/ WorkerAccepts(s) \/ WorkerAnswers(s)

-----------------------------------------------------------------------------
(* The guests. *)

Waits(g, s)  == \E i \in DOMAIN backlog[s] : backlog[s][i] = g
Connected(g) == \E s \in Daemons : served[s] = g \/ Waits(g, s)

GuestConnects(g, s) ==
  /\ listening[s] /\ ~Connected(g) /\ visits < MaxVisits
  /\ backlog' = [backlog EXCEPT ![s] = Append(@, g)]
  /\ silent' \in {silent, silent \cup {g}}
  /\ visits' = visits + 1
  /\ UNCHANGED <<ui, todo, pc, camera, cameras, running, listening, worker, served, radios, vhci,
                 ended>>

\* It asks at last, or hangs up.
GuestBreaksSilence(g) ==
  /\ g \in silent
  /\ silent' = silent \ {g}
  /\ UNCHANGED <<ui, todo, pc, camera, cameras, running, listening, worker, backlog, served,
                 visits, radios, vhci, ended>>

-----------------------------------------------------------------------------
(* TelephonyBridge and BluetoothBridge: initialize() by either caller, the toggles. *)

\* updateProperties() has read the state ...
Reads(t, state) == copy' = [copy EXCEPT ![t] = state]

\* ... and tells the properties, radio by radio, under the bridge's mutex.
Tells(t, b) ==
  told' = [r \in Radios |-> IF MutexOf[r] # b THEN told[r]
                            ELSE IF copy[t][r] THEN "on" ELSE "off"]

\* Mutant: initialize() takes no mutex.
InitBeginsUnlocked(t, b) ==
  /\ pc[t] = b
  /\ Goto(t, IF b = "telephony" THEN "rilds" ELSE "vhci")
  /\ Reads(t, enabled)
  /\ UNCHANGED <<ui, todo, camera, cameras, daemons, enabled, told, mutex, vhci, ended>>

InitBegins(t, b) ==
  /\ pc[t] = b /\ mutex[b] = "free"
  /\ Goto(t, IF b = "telephony" THEN "rilds" ELSE "vhci")
  /\ Reads(t, enabled)
  /\ mutex' = [mutex EXCEPT ![b] = t]
  /\ UNCHANGED <<ui, todo, camera, cameras, daemons, enabled, told, vhci, ended>>

\* startSocketServers(): assigning to a joinable std::thread is std::terminate().
StartsRilds(t) ==
  /\ pc[t] = "rilds"
  /\ Tells(t, "telephony")
  /\ running' = [s \in Daemons |-> s \in Rilds \/ running[s]]
  /\ IF \E s \in Rilds : worker[s] # "none"
     THEN ended' = "telephony" /\ UNCHANGED <<worker, mutex, pc>>
     ELSE /\ worker' = [s \in Daemons |-> IF s \in Rilds THEN "bind" ELSE worker[s]]
          /\ mutex' = [mutex EXCEPT !["telephony"] = "free"]
          /\ Goto(t, IF t = "ui" THEN "idle" ELSE "bluetooth")
          /\ UNCHANGED ended
  /\ UNCHANGED <<ui, todo, camera, cameras, listening, guests, enabled, copy, vhci>>

StartsVhci(t) ==
  /\ pc[t] = "vhci"
  /\ Tells(t, "bluetooth")
  /\ IF vhci
     THEN ended' = "bluetooth" /\ UNCHANGED <<vhci, mutex, pc>>
     ELSE /\ vhci' = TRUE
          /\ mutex' = [mutex EXCEPT !["bluetooth"] = "free"]
          /\ Goto(t, "idle")
          /\ UNCHANGED ended
  /\ UNCHANGED <<ui, todo, camera, cameras, daemons, enabled, copy>>

InitStep(t) == StartsRilds(t) \/ StartsVhci(t) \/ \E b \in Mutexes : InitBegins(t, b)

UiInits(b) ==
  /\ Calling("init", b)
  /\ Goto("ui", b)
  /\ UNCHANGED <<ui, camera, cameras, daemons, radios, vhci, ended>>

\* toggleSim(), toggleWifi() and toggleBluetooth().
Toggles(op, r) ==
  /\ op \in {"on", "off"} /\ Calling(op, r) /\ mutex[MutexOf[r]] = "free"
  /\ enabled' = [enabled EXCEPT ![r] = (op = "on")]
  /\ Reads("ui", enabled')
  /\ mutex' = [mutex EXCEPT ![MutexOf[r]] = "ui"]
  /\ Goto("ui", "tell")
  /\ UNCHANGED <<ui, camera, cameras, daemons, told, vhci, ended>>

ToggleTells(b) ==
  /\ pc["ui"] = "tell" /\ mutex[b] = "ui"
  /\ Tells("ui", b)
  /\ mutex' = [mutex EXCEPT ![b] = "free"]
  /\ Goto("ui", "idle")
  /\ UNCHANGED <<ui, todo, camera, cameras, daemons, enabled, copy, vhci, ended>>

-----------------------------------------------------------------------------
(* The UI's handlers. *)

Handles(calls) ==
  /\ pc["ui"] = "idle" /\ todo = <<>> /\ handled < MaxHandled
  /\ todo' = calls /\ handled' = handled + 1
  /\ UNCHANGED <<camera, cameras, daemons, radios, vhci, ended>>

\* Without a sandbox no device is initialised.
OnCreate ==
  /\ ~active /\ active' = TRUE /\ activeCameraId' = "back"
  /\ Handles(CreateCalls) \/ Handles(<<>>)
  /\ UNCHANGED <<lives, pc>>

OnDestroy ==
  /\ active /\ active' = FALSE
  /\ Handles(DestroyCalls)
  /\ UNCHANGED <<activeCameraId, lives, pc>>

\* The chips.  A new activity's chips do not know the state that the old one left, so that
\* either call of a toggle may come at any time.
Taps ==
  /\ active
  /\ \/ \E op \in {"start", "stop"} : Handles(<<<<op, activeCameraId>>>>)
     \/ \E op \in {"on", "off"}, r \in Radios : Handles(<<<<op, r>>>>)
  /\ UNCHANGED <<active, activeCameraId, lives, pc>>

SwitchesCamera ==
  /\ active
  /\ \E c \in Cameras \ {activeCameraId} : activeCameraId' = c /\ Handles(<<<<"start", c>>>>)
  /\ UNCHANGED <<active, lives, pc>>

\* performDirectBoot(): a live boot that finds an image initialises the devices.  Its button is
\* disabled until it is over.
BootsLive ==
  /\ active /\ pc["live"] = "idle" /\ lives < MaxLives
  /\ Handles(<<>>)
  /\ Goto("live", "camera") /\ lives' = lives + 1
  /\ UNCHANGED <<active, activeCameraId>>

-----------------------------------------------------------------------------

CameraCall == UiInitsCamera \/ JoinsGenerator \/ StreamHalts \/ StreamBegins
                \/ \E op \in {"start", "stop"}, c \in Cameras : StopStreamBegins(op, c)
NetworkCall == UiInitsNetwork \/ ShutdownBegins \/ ShutdownCloses \/ ShutdownJoins
RadioCall == \/ InitStep("ui")
             \/ \E b \in Mutexes : UiInits(b) \/ ToggleTells(b)
             \/ \E op \in {"on", "off"}, r \in Radios : Toggles(op, r)

UiStep    == CameraCall \/ NetworkCall \/ RadioCall
LiveStep  == LiveInitsCamera \/ InitStep("live")
UiEvent   == OnCreate \/ OnDestroy \/ Taps \/ SwitchesCamera \/ BootsLive
GuestStep == \E g \in Guests : GuestBreaksSilence(g) \/ \E s \in Daemons : GuestConnects(g, s)

Next ==
  /\ ended = "no"
  /\ \/ UiEvent \/ UiStep \/ LiveStep \/ GuestStep \/ NetdGivesUp
     \/ \E c \in Cameras : GeneratorStep(c)
     \/ \E s \in Daemons : WorkerStep(s)

Spec == Init /\ [][Next]_vars

\* Every thread is scheduled; mTelephonyMutex and mBtMutex are given back after a few steps, and
\* a live boot takes each once.  A poll() may fail but need not.  A silent guest asks or hangs
\* up some day: until then it keeps a daemon's thread, and onDestroy(), which joins netd's.
Fairness ==
  /\ WF_vars(ended = "no" /\ UiStep) /\ WF_vars(ended = "no" /\ LiveStep)
  /\ \A c \in Cameras : WF_vars(ended = "no" /\ GeneratorStep(c))
  /\ \A s \in Daemons : WF_vars(ended = "no" /\ WorkerStep(s))
  /\ \A g \in Guests : WF_vars(ended = "no" /\ GuestBreaksSilence(g))

FairSpec == Spec /\ Fairness
-----------------------------------------------------------------------------
(* Properties. *)

\* Four bridges assign to a std::thread member.  startStream() and NetworkBridge::initialize()
\* never find it joinable, not even after a generator that could not open its node or a netd
\* thread that gave up: it is the flag those leave up that sees to it.  Telephony looks at no
\* flag, and comes before Bluetooth, which does not either.
EndsOnlyInTelephony == ended \in {"no", "telephony"}

\* Where no stopStream() is under way, a lowered flag has no generator that draws and no
\* camera shown as streaming; where no shutdown() is, netd's has no thread and no socket.
QuietAfterStop ==
  /\ \A c \in Cameras :
       ~mGeneratorRunning[c]
         /\ ~(camera = c /\ pc["ui"] \in {"start join", "start halt", "stop join", "stop halt"})
       => generator[c] = "none" /\ ~isStreaming[c]
  /\ ~running["netd"] /\ pc["ui"] \notin {"close", "net join"}
       => worker["netd"] = "none" /\ ~listening["netd"]

\* The properties say of SIM, Wi-Fi and adapter what the bridge's state is, whenever nobody
\* holds the bridge's mutex: toggles and a live boot's initialize() do not cross.
PropertiesTellTheState ==
  \A r \in Radios :
    mutex[MutexOf[r]] = "free" /\ told[r] # "unset" => told[r] = IF enabled[r] THEN "on" ELSE "off"

\* A handler of the UI comes back: what it joins sees its flag, and what it waits for is given
\* back.
HandlerReturns ==
  todo # <<>> \/ pc["ui"] # "idle" ~> (todo = <<>> /\ pc["ui"] = "idle") \/ ended # "no"

\* A guest that has asked is answered, or refused by a shutdown, however many silent ones are
\* before it; except where netd's thread has given up, whose socket still takes it in.
Deserted(g) == worker["netd"] = "over" /\ (served["netd"] = g \/ Waits(g, "netd"))

AskedIsAnswered ==
  \A g \in Guests :
    Connected(g) /\ g \notin silent ~> ~Connected(g) \/ Deserted(g) \/ ended # "no"
=============================================================================
