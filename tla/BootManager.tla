----------------------------- MODULE BootManager -----------------------------
(***************************************************************************)
(* The boot manager (boot_manager.cpp): a table of init services under     *)
(* mMutex, and a boot thread that takes it through four phases, starting   *)
(* the services of a class or of a trigger's commands.  The UI thread      *)
(* starts and stops the boot, controls services, reloads the table and     *)
(* polls the phase for its badge; the live-boot thread reloads the table,  *)
(* starts the boot and waits for it.  mIsBooting and mPhase are atomics    *)
(* beside the mutex, and mBootThread is a std::thread that two threads     *)
(* join and assign.                                                        *)
(*                                                                         *)
(* What is done under the mutex is one step.  A service that has not been  *)
(* read from an image is "absent".                                         *)
(***************************************************************************)
EXTENDS Integers, Sequences

CONSTANTS
  Services,
  Core,        \* services of class core
  Main,        \* services of class main or animation
  Disabled,    \* services with the option "disabled"
  Commands,    \* the start and class_start commands of each trigger, in their order
  Announced,   \* services the property service announces before any boot
  MaxBoots,    \* bound: calls of startBootSequence() by the UI
  MaxLives,    \* bound: live boots
  MaxControls  \* bound: control, stop and reload actions of the UI

Callers  == {"ui", "live"}
Triggers == {"EARLY_INIT", "INIT", "EARLY_BOOT", "BOOT"}
Phases   == Triggers \cup {"COMPLETED"}

\* A command names services; one that names a class passes over the disabled ones.
Command  == [names : SUBSET Services, class : BOOLEAN]

ASSUME BootAssumption ==
  /\ Core \subseteq Services /\ Main \subseteq Services /\ Disabled \subseteq Services
  /\ Commands \in [Triggers -> Seq(Command)]
  /\ Announced \subseteq Services
  /\ MaxBoots \in Nat /\ MaxLives \in Nat /\ MaxControls \in Nat

VARIABLES
  status,      \* the service table
  announced,   \* the properties init.svc.*
  completed,   \* the property sys.boot_completed
  mPhase, mIsBooting,
  worker,      \* the boot thread: where it is, and the commands it has left in that phase
  pc,          \* where the two callers are
  restarting,  \* the service restartService() has stopped
  polling,     \* bootPhaseRunnable is posted
  badge,       \* what the UI shows
  boots, lives, controls,
  intact,      \* history: nobody has stopped or reloaded services since the worker began
  bridged,     \* the telephony bridge has its threads
  crashed      \* std::terminate() has ended the process

table   == <<status, announced, intact>>
callers == <<pc, restarting>>
boot    == <<mPhase, mIsBooting, worker>>
screen  == <<polling, badge>>
counts  == <<boots, lives, controls>>
process == <<bridged, crashed>>
vars    == <<table, completed, boot, callers, screen, counts, process>>

StartPcs == {"check", "join", "joining", "raise", "phase", "create"}
StopPcs  == {"stop join", "stop joining", "stop services", "stop phase"}
UiPcs    == {"idle", "restart"} \cup StartPcs \cup StopPcs
LivePcs  == {"idle", "reload", "wait", "announce", "post"} \cup StartPcs

TypeOK ==
  /\ status \in [Services -> {"absent", "STOPPED", "RUNNING"}]
  /\ announced \in [Services -> {"unset", "running", "stopped"}]
  /\ completed \in BOOLEAN
  /\ mPhase \in {"IDLE"} \cup Phases /\ mIsBooting \in BOOLEAN
  /\ worker \in [at : {"none", "new", "ending", "over"} \cup Phases, todo : Seq(Command)]
  /\ pc \in [Callers -> UiPcs \cup LivePcs]
  /\ pc["ui"] \in UiPcs /\ pc["live"] \in LivePcs
  /\ restarting \in Services \cup {"none"}
  /\ pc["ui"] = "restart" => restarting \in Services
  /\ polling \in BOOLEAN /\ badge \in {"IDLE"} \cup Phases
  /\ boots \in Nat /\ lives \in Nat /\ controls \in Nat
  /\ intact \in BOOLEAN /\ bridged \in BOOLEAN /\ crashed \in BOOLEAN

\* The property service's defaults say that the boot is completed and some services run.
Defaults(a) == [s \in Services |-> IF s \in Announced THEN "running" ELSE a[s]]

\* onCreate() has started the property service and the telephony bridge, or has failed to
\* prepare the sandbox and started neither.
Init ==
  /\ status = [s \in Services |-> "absent"]
  /\ bridged \in BOOLEAN
  /\ LET unset == [s \in Services |-> "unset"] IN
       announced = IF bridged THEN Defaults(unset) ELSE unset
  /\ completed = bridged
  /\ mPhase = "IDLE" /\ mIsBooting = FALSE
  /\ worker = [at |-> "none", todo |-> <<>>]
  /\ pc = [t \in Callers |-> "idle"] /\ restarting = "none"
  /\ polling = FALSE /\ badge = "IDLE"
  /\ boots = 0 /\ lives = 0 /\ controls = 0
  /\ intact = FALSE /\ crashed = FALSE

-----------------------------------------------------------------------------
(* The table. *)

\* Services that are there and not running get started, and their properties set.
Starts(names) ==
  LET started == {s \in names : status[s] = "STOPPED"}
  IN  /\ status' = [s \in Services |-> IF s \in started THEN "RUNNING" ELSE status[s]]
      /\ announced' = [s \in Services |-> IF s \in started THEN "running" ELSE announced[s]]

Stops(names) ==
  /\ status' = [s \in Services |-> IF s \in names THEN "STOPPED" ELSE status[s]]
  /\ announced' = [s \in Services |-> IF s \in names THEN "stopped" ELSE announced[s]]

\* The table is read from the image again: nothing runs in it, the properties stay.
Reloads ==
  /\ status' = [s \in Services |-> "STOPPED"]
  /\ intact' = FALSE
  /\ UNCHANGED announced

-----------------------------------------------------------------------------
(* bootWorker. *)

\* The commands of a phase: a class, and those of the trigger.
Script(phase) ==
  CASE phase = "INIT"      -> <<[names |-> Core, class |-> TRUE]>> \o Commands[phase]
    [] phase = "BOOT"      -> <<[names |-> Main, class |-> TRUE]>> \o Commands[phase]
    [] phase = "COMPLETED" -> <<>>
    [] OTHER               -> Commands[phase]

After == [new |-> "EARLY_INIT", EARLY_INIT |-> "INIT", INIT |-> "EARLY_BOOT",
          EARLY_BOOT |-> "BOOT", BOOT |-> "COMPLETED"]

\* Before INIT, EARLY_BOOT and COMPLETED the worker looks at the flag.
LooksAtFlag == worker.at \in {"EARLY_INIT", "INIT", "BOOT"}

WorkerEnters ==
  /\ worker.at \in {"new"} \cup Triggers /\ worker.todo = <<>>
  /\ LooksAtFlag => mIsBooting
  /\ LET phase == After[worker.at] IN
       /\ mPhase' = phase
       /\ worker' = [at |-> phase, todo |-> Script(phase)]
  /\ UNCHANGED <<table, completed, mIsBooting, callers, screen, counts, process>>

WorkerReturns ==
  /\ LooksAtFlag /\ worker.todo = <<>> /\ ~mIsBooting
  /\ worker' = [worker EXCEPT !.at = "over"]
  /\ UNCHANGED <<table, completed, mPhase, mIsBooting, callers, screen, counts, process>>

\* Mutant: a class is skipped whose services are already on their way.
WorkerRunsFirst ==
  /\ worker.todo # <<>>
  /\ LET c == Head(worker.todo) IN
       Starts(IF c.class THEN {s \in c.names \ Disabled : announced[s] # "running"} ELSE c.names)
  /\ worker' = [worker EXCEPT !.todo = Tail(@)]
  /\ UNCHANGED <<intact, completed, mPhase, mIsBooting, callers, screen, counts, process>>

\* Mutant: stopBootSequence() holds the mutex while it joins.
WorkerRunsUnlessStopping ==
  /\ worker.todo # <<>> /\ pc["ui"] # "stop joining"
  /\ LET c == Head(worker.todo) IN Starts(IF c.class THEN c.names \ Disabled ELSE c.names)
  /\ worker' = [worker EXCEPT !.todo = Tail(@)]
  /\ UNCHANGED <<intact, completed, mPhase, mIsBooting, callers, screen, counts, process>>

\* One command, under the mutex.
WorkerRuns ==
  /\ worker.todo # <<>>
  /\ LET c == Head(worker.todo) IN Starts(IF c.class THEN c.names \ Disabled ELSE c.names)
  /\ worker' = [worker EXCEPT !.todo = Tail(@)]
  /\ UNCHANGED <<intact, completed, mPhase, mIsBooting, callers, screen, counts, process>>

\* In the last phase the worker sets sys.boot_completed, then lowers the flag.
WorkerCompletes ==
  /\ worker.at = "COMPLETED"
  /\ completed' = TRUE
  /\ worker' = [worker EXCEPT !.at = "ending"]
  /\ UNCHANGED <<table, mPhase, mIsBooting, callers, screen, counts, process>>

\* Mutant: the flag is left to stopBootSequence().
WorkerEndsFlagUp ==
  /\ worker.at = "ending"
  /\ worker' = [worker EXCEPT !.at = "over"]
  /\ UNCHANGED <<table, completed, mPhase, mIsBooting, callers, screen, counts, process>>

WorkerEnds ==
  /\ worker.at = "ending"
  /\ mIsBooting' = FALSE
  /\ worker' = [worker EXCEPT !.at = "over"]
  /\ UNCHANGED <<table, completed, mPhase, callers, screen, counts, process>>

-----------------------------------------------------------------------------
(* startBootSequence, by the UI and by a live boot. *)

Goto(t, place) == pc' = [pc EXCEPT ![t] = place] /\ UNCHANGED restarting

\* The UI posts its poll, a live boot waits for the worker.
Started(t) ==
  IF t = "ui" THEN Goto(t, "idle") /\ polling' = TRUE /\ UNCHANGED badge
              ELSE Goto(t, "wait") /\ UNCHANGED screen

UiBoots ==
  /\ pc["ui"] = "idle" /\ boots < MaxBoots
  /\ boots' = boots + 1
  /\ Goto("ui", "check")
  /\ UNCHANGED <<table, completed, boot, screen, lives, controls, process>>

StartChecks(t) ==
  /\ pc[t] = "check"
  /\ IF mIsBooting THEN Started(t) ELSE Goto(t, "join") /\ UNCHANGED screen
  /\ UNCHANGED <<table, completed, boot, counts, process>>

Joining(t) == pc[t] \in {"joining", "stop joining"}
AfterJoin(t) == IF pc[t] \in {"join", "joining"} THEN "raise" ELSE "stop services"

\* joinable(): a thread that another one joins already must not be joined again.
LooksForThread(t) ==
  /\ pc[t] \in {"join", "stop join"}
  /\ IF worker.at = "none" THEN Goto(t, AfterJoin(t)) /\ UNCHANGED crashed
     ELSE /\ Goto(t, IF pc[t] = "join" THEN "joining" ELSE "stop joining")
          /\ crashed' = \E u \in Callers \ {t} : Joining(u)
  /\ UNCHANGED <<table, completed, boot, screen, counts, bridged>>

Joins(t) ==
  /\ Joining(t) /\ worker.at = "over"
  /\ worker' = [worker EXCEPT !.at = "none"]
  /\ Goto(t, AfterJoin(t))
  /\ UNCHANGED <<table, completed, mPhase, mIsBooting, screen, counts, process>>

StartRaises(t) ==
  /\ pc[t] = "raise"
  /\ mIsBooting' = TRUE
  /\ Goto(t, "phase")
  /\ UNCHANGED <<table, completed, mPhase, worker, screen, counts, process>>

StartResetsPhase(t) ==
  /\ pc[t] = "phase"
  /\ mPhase' = "IDLE"
  /\ Goto(t, "create")
  /\ UNCHANGED <<table, completed, mIsBooting, worker, screen, counts, process>>

\* Assigning to a joinable std::thread is std::terminate().
StartCreates(t) ==
  /\ pc[t] = "create"
  /\ IF worker.at = "none"
     THEN worker' = [worker EXCEPT !.at = "new"] /\ intact' = TRUE /\ Started(t)
          /\ UNCHANGED crashed
     ELSE crashed' = TRUE /\ UNCHANGED <<worker, intact, callers, screen>>
  /\ UNCHANGED <<status, announced, completed, mPhase, mIsBooting, counts, bridged>>

StartStep(t) ==
  StartChecks(t) \/ LooksForThread(t) \/ Joins(t) \/ StartRaises(t) \/ StartResetsPhase(t)
  \/ StartCreates(t)

-----------------------------------------------------------------------------
(* stopBootSequence and the other calls of the UI. *)

Controls ==
  /\ pc["ui"] = "idle" /\ controls < MaxControls
  /\ controls' = controls + 1

\* The button, or onDestroy().
StopBegins ==
  /\ Controls
  /\ mIsBooting' = FALSE
  /\ Goto("ui", "stop join")
  /\ UNCHANGED <<table, completed, mPhase, worker, screen, boots, lives, process>>

StopServices ==
  /\ pc["ui"] = "stop services"
  /\ Stops({s \in Services : status[s] = "RUNNING"})
  /\ intact' = FALSE
  /\ Goto("ui", "stop phase")
  /\ UNCHANGED <<completed, boot, screen, counts, process>>

\* Afterwards the UI takes the poll back and shows IDLE.
StopPhase ==
  /\ pc["ui"] = "stop phase"
  /\ mPhase' = "IDLE"
  /\ polling' = FALSE /\ badge' = "IDLE"
  /\ Goto("ui", "idle")
  /\ UNCHANGED <<table, completed, mIsBooting, worker, counts, process>>

\* startService(), stopService() and the first half of restartService().
UiStartsService(s) ==
  /\ Controls
  /\ Starts({s})
  /\ UNCHANGED <<intact, completed, boot, callers, screen, boots, lives, process>>

UiStopsService(s) ==
  /\ Controls /\ status[s] # "absent"
  /\ Stops({s})
  /\ intact' = FALSE
  /\ \/ UNCHANGED callers
     \/ pc' = [pc EXCEPT !["ui"] = "restart"] /\ restarting' = s
  /\ UNCHANGED <<completed, boot, screen, boots, lives, process>>

UiRestarts ==
  /\ pc["ui"] = "restart"
  /\ Starts({restarting})
  /\ pc' = [pc EXCEPT !["ui"] = "idle"] /\ restarting' = "none"
  /\ UNCHANGED <<intact, completed, boot, screen, counts, process>>

\* An image is mounted and its init scripts are read.
UiReloads ==
  /\ Controls
  /\ Reloads
  /\ UNCHANGED <<completed, boot, callers, screen, boots, lives, process>>

\* bootPhaseRunnable: it posts itself again only while it sees a phase between the ends.
UiPolls ==
  /\ pc["ui"] = "idle" /\ polling
  /\ badge' = mPhase
  /\ polling' = (mPhase \notin {"IDLE", "COMPLETED"})
  /\ UNCHANGED <<table, completed, boot, callers, counts, process>>

-----------------------------------------------------------------------------
(* A live boot. *)

LiveCalled ==
  /\ pc["live"] = "idle" /\ lives < MaxLives
  /\ lives' = lives + 1

\* No image, or none that is read.
LiveFails ==
  /\ LiveCalled
  /\ Goto("live", "post")
  /\ UNCHANGED <<table, completed, boot, screen, boots, controls, process>>

\* The property service is started, unless it cannot be, and told that the boot is not
\* completed.  A second set of telephony threads is std::terminate(): only the first live
\* boot of a process whose onCreate() started none gets past it.
LiveBegins ==
  /\ LiveCalled
  /\ completed' = FALSE
  /\ IF bridged
     THEN crashed' = TRUE /\ UNCHANGED <<bridged, announced, callers>>
     ELSE bridged' = TRUE /\ announced' \in {announced, Defaults(announced)}
          /\ Goto("live", "reload") /\ UNCHANGED crashed
  /\ UNCHANGED <<status, intact, boot, screen, boots, controls>>

LiveReloads ==
  /\ pc["live"] = "reload"
  /\ Reloads
  /\ Goto("live", "check")
  /\ UNCHANGED <<completed, boot, screen, counts, process>>

\* It waits for the phase COMPLETED or for three seconds.
LiveWaits ==
  /\ pc["live"] = "wait"
  /\ Goto("live", "announce")
  /\ UNCHANGED <<table, completed, boot, screen, counts, process>>

LiveAnnounces ==
  /\ pc["live"] = "announce"
  /\ completed' = TRUE
  /\ Goto("live", "post")
  /\ UNCHANGED <<table, boot, screen, counts, process>>

\* The UI shows the end of a live boot, of one that failed too.
UiShowsLiveBoot ==
  /\ pc["live"] = "post" /\ pc["ui"] = "idle"
  /\ badge' = "COMPLETED"
  /\ Goto("live", "idle")
  /\ UNCHANGED <<table, completed, boot, polling, counts, process>>

-----------------------------------------------------------------------------

WorkerStep ==
  WorkerEnters \/ WorkerReturns \/ WorkerRuns \/ WorkerCompletes \/ WorkerEnds
StopStep   == StopServices \/ StopPhase
UiStep     == StartStep("ui") \/ StopStep \/ UiRestarts
UiHandles  == UiPolls \/ UiShowsLiveBoot
UiCalls    ==
  \/ UiBoots \/ StopBegins \/ UiReloads
  \/ \E s \in Services : UiStartsService(s) \/ UiStopsService(s)
LiveStep   == StartStep("live") \/ LiveReloads \/ LiveWaits \/ LiveAnnounces

Next ==
  ~crashed /\ (WorkerStep \/ UiStep \/ UiHandles \/ UiCalls \/ LiveFails \/ LiveBegins
              \/ LiveStep)

Spec == Init /\ [][Next]_vars

\* The three threads are scheduled, and the UI handles what is posted to it.
Fairness ==
  /\ WF_vars(~crashed /\ WorkerStep) /\ WF_vars(~crashed /\ LiveStep)
  /\ WF_vars(~crashed /\ UiStep)
  /\ SF_vars(~crashed /\ UiPolls) /\ SF_vars(~crashed /\ UiShowsLiveBoot)

FairSpec == Spec /\ Fairness
-----------------------------------------------------------------------------
(* Properties. *)

\* bootWorker: a boot that nobody disturbs has started every service of its classes when it
\* is completed, whatever was announced or running before.
CompletedHasItsServices ==
  intact /\ worker.at \in {"COMPLETED", "ending", "over"} /\ mPhase = "COMPLETED" =>
    \A s \in (Core \cup Main) \ Disabled : status[s] # "STOPPED"

\* A running service is announced as running in init.svc.*, where guests look for it
\* (startService, executeTriggerActions).
RunningIsAnnounced == \A s \in Services : status[s] = "RUNNING" => announced[s] = "running"

\* mPhase is the phase the worker is in, or IDLE when a stop or a start has reset it: two
\* workers never report at once, and nobody reports a phase for the worker.
PhaseIsTheWorkers ==
  /\ worker.at \in Phases => mPhase \in {"IDLE", worker.at}
  /\ worker.at = "ending" => mPhase \in {"IDLE", "COMPLETED"}

\* A raised mIsBooting has a worker that will lower it, unless a start is about to create
\* one: otherwise startBootSequence() would refuse for good.
FlagHasWorker ==
  mIsBooting /\ (\A t \in Callers : pc[t] \notin {"phase", "create"}) =>
    worker.at \notin {"none", "over"}

\* stopBootSequence() comes back: the worker never waits for the thread that joins it.  A live
\* boot comes to its end, with or without the worker's (live_boot_runner.cpp:187).
CallsReturn ==
  /\ pc["ui"] = "stop join" ~> pc["ui"] = "idle" \/ crashed
  /\ pc["live"] = "wait" ~> pc["live"] = "idle" \/ crashed

\* README.md:168-170 "End-to-end automated live boot orchestrator", "Full synchronization
\* across all 14 Virtual HAL subsystems": a live boot gets past the start of its subsystems,
\* wherever they have been started before.
LiveBootSurvives == [][lives' > lives => ~crashed']_vars

\* MainActivity.kt:94 "Polling Android Boot Phase": the badge comes to show a boot that is
\* completed.
BadgeFollows == mPhase = "COMPLETED" ~> badge = "COMPLETED" \/ mPhase # "COMPLETED" \/ crashed
=============================================================================
