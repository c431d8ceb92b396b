-------------------------- MODULE BootManager_proofs --------------------------
(***************************************************************************)
(* Proofs about the boot manager for every set of services, classes and    *)
(* trigger commands, about the parser for every image, and about a boot of *)
(* what it has made of one.                                                *)
(***************************************************************************)
EXTENDS BootFromScript, SequenceTheorems, WellFoundedInduction, TLAPS

\* No service of class c that may be started is stopped.
Done(c) == \A s \in c \ Disabled : status[s] # "STOPPED"

ClassCommand(c) == [names |-> c, class |-> TRUE]

\* The worker has the command for class c still before it.
Pending(c) == worker.todo # <<>> /\ Head(worker.todo) = ClassCommand(c)

\* In a boot that nobody disturbs, the classes behind the worker are done.
ClassInv ==
  intact =>
    /\ worker.at = "INIT" => Done(Core) \/ Pending(Core)
    /\ worker.at \in {"EARLY_BOOT", "BOOT", "COMPLETED", "ending"} => Done(Core)
    /\ worker.at = "BOOT" => Done(Main) \/ Pending(Main)
    /\ worker.at \in {"COMPLETED", "ending"} => Done(Main)
    /\ worker.at = "over" /\ mPhase = "COMPLETED" => Done(Core) /\ Done(Main)

SafetyInv ==
  TypeOK /\ RunningIsAnnounced /\ PhaseIsTheWorkers /\ FlagHasWorker /\ ClassInv

-----------------------------------------------------------------------------
(* The table and the script of a phase. *)

TableType ==
  /\ status \in [Services -> {"absent", "STOPPED", "RUNNING"}]
  /\ announced \in [Services -> {"unset", "running", "stopped"}]

LEMMA StartsTable ==
  ASSUME TypeOK, RunningIsAnnounced, NEW names \in SUBSET Services, Starts(names)
  PROVE  /\ TableType' /\ RunningIsAnnounced'
         /\ \A s \in Services : status[s] # "STOPPED" => status'[s] # "STOPPED"
         /\ \A s \in names : status'[s] # "STOPPED"
BY DEF TypeOK, TableType, RunningIsAnnounced, Starts

LEMMA StopsTable ==
  ASSUME TypeOK, RunningIsAnnounced, NEW names \in SUBSET Services, Stops(names)
  PROVE  TableType' /\ RunningIsAnnounced'
BY DEF TypeOK, TableType, RunningIsAnnounced, Stops

LEMMA ReloadsTable ==
  ASSUME TypeOK, Reloads PROVE TableType' /\ RunningIsAnnounced' /\ ~intact'
BY DEF TypeOK, TableType, RunningIsAnnounced, Reloads

LEMMA PhaseCommands ==
  ASSUME NEW phase \in Triggers PROVE Commands[phase] \in Seq(Command)
BY BootAssumption DEF BootAssumption

LEMMA ClassFirst ==
  ASSUME NEW c \in SUBSET Services, NEW rest \in Seq(Command)
  PROVE  LET script == <<ClassCommand(c)>> \o rest
         IN  script \in Seq(Command) /\ script # <<>> /\ Head(script) = ClassCommand(c)
<1>1. ClassCommand(c) \in Command BY DEF ClassCommand, Command
<1>2. <<ClassCommand(c)>> \in Seq(Command) BY <1>1
<1>3. /\ <<ClassCommand(c)>> \o rest \in Seq(Command)
      /\ Len(<<ClassCommand(c)>> \o rest) = 1 + Len(rest)
      /\ (<<ClassCommand(c)>> \o rest)[1] = ClassCommand(c)
  BY <1>2
<1>4. Len(rest) \in Nat BY LenProperties
<1> QED BY <1>3, <1>4

LEMMA ScriptType ==
  ASSUME NEW phase \in Phases
  PROVE  /\ Script(phase) \in Seq(Command)
         /\ phase = "INIT" =>
              Script(phase) # <<>> /\ Head(Script(phase)) = ClassCommand(Core)
         /\ phase = "BOOT" =>
              Script(phase) # <<>> /\ Head(Script(phase)) = ClassCommand(Main)
<1>0. Core \in SUBSET Services /\ Main \in SUBSET Services BY BootAssumption DEF BootAssumption
<1>1. CASE phase = "INIT"
  <2>1. Script(phase) = <<ClassCommand(Core)>> \o Commands[phase]
    BY <1>1 DEF Script, ClassCommand
  <2>2. Commands[phase] \in Seq(Command) BY <1>1, PhaseCommands DEF Triggers
  <2> QED BY <1>0, <1>1, <2>1, <2>2, ClassFirst
<1>2. CASE phase = "BOOT"
  <2>1. Script(phase) = <<ClassCommand(Main)>> \o Commands[phase]
    BY <1>2 DEF Script, ClassCommand
  <2>2. Commands[phase] \in Seq(Command) BY <1>2, PhaseCommands DEF Triggers
  <2> QED BY <1>0, <1>2, <2>1, <2>2, ClassFirst
<1>3. CASE phase = "COMPLETED"
  <2>1. Script(phase) = <<>> BY <1>3 DEF Script
  <2>2. <<>> \in Seq(Command) OBVIOUS
  <2> QED BY <1>3, <2>1, <2>2
<1>4. CASE phase \in {"EARLY_INIT", "EARLY_BOOT"}
  <2>1. Script(phase) = Commands[phase] BY <1>4 DEF Script
  <2> QED BY <1>4, <2>1, PhaseCommands DEF Triggers
<1> QED BY <1>1, <1>2, <1>3, <1>4 DEF Phases, Triggers

\* What the commands left do not undo: a class that is done stays done.
LEMMA DoneStays ==
  ASSUME NEW c \in SUBSET Services, Done(c),
         \A s \in Services : status[s] # "STOPPED" => status'[s] # "STOPPED"
  PROVE  Done(c)'
BY DEF Done

-----------------------------------------------------------------------------
(* The boot thread. *)

LEMMA EntersStep ==
  ASSUME SafetyInv, WorkerEnters PROVE SafetyInv'
<1> DEFINE phase == After[worker.at]
<1>1. /\ worker.at \in {"new"} \cup Triggers /\ worker.todo = <<>>
      /\ mPhase' = phase /\ worker' = [at |-> phase, todo |-> Script(phase)]
      /\ UNCHANGED <<table, completed, mIsBooting, callers, screen, counts, process>>
  BY DEF WorkerEnters
<1>2. phase \in Phases BY <1>1 DEF After, Phases, Triggers
<1>3. Script(phase) \in Seq(Command) BY <1>2, ScriptType
<1>4. TypeOK' /\ RunningIsAnnounced'
  BY <1>1, <1>2, <1>3
     DEF SafetyInv, TypeOK, process, RunningIsAnnounced, table, callers, screen, counts
<1>5. PhaseIsTheWorkers' BY <1>1, <1>2 DEF PhaseIsTheWorkers, Phases, Triggers
<1>6. FlagHasWorker' BY <1>1, <1>2 DEF FlagHasWorker, Phases, Triggers
<1>7. ClassInv'
  <2>1. \A c \in {Core, Main} : Pending(c) <=> FALSE BY <1>1 DEF Pending
  <2>2. SUFFICES ASSUME intact PROVE ClassInv' BY <1>1 DEF ClassInv, table
  <2>3. UNCHANGED status BY <1>1 DEF table
  <2>4. phase = "INIT" => Pending(Core)' BY <1>1, <1>2, ScriptType DEF Pending
  <2>5. phase = "BOOT" => Pending(Main)' BY <1>1, <1>2, ScriptType DEF Pending
  <2>6. worker.at \in {"INIT", "EARLY_BOOT", "BOOT"} => Done(Core)'
    BY <2>1, <2>2, <2>3 DEF SafetyInv, ClassInv, Done
  <2>7. worker.at = "BOOT" => Done(Main)'
    BY <2>1, <2>2, <2>3 DEF SafetyInv, ClassInv, Done
  <2>8. worker'.at = phase BY <1>1
  <2>9. /\ worker'.at = "EARLY_BOOT" => worker.at = "INIT"
        /\ worker'.at = "BOOT" => worker.at = "EARLY_BOOT"
        /\ worker'.at = "COMPLETED" => worker.at = "BOOT"
        /\ worker'.at \notin {"ending", "over"}
    BY <1>1, <2>8 DEF After, Triggers
  <2> HIDE DEF phase
  <2> QED BY <2>4, <2>5, <2>6, <2>7, <2>8, <2>9 DEF ClassInv
<1> QED BY <1>4, <1>5, <1>6, <1>7 DEF SafetyInv

LEMMA RunsStep ==
  ASSUME SafetyInv, WorkerRuns PROVE SafetyInv'
<1> DEFINE c == Head(worker.todo)
           names == IF c.class THEN c.names \ Disabled ELSE c.names
<1>1. /\ worker.todo # <<>> /\ Starts(names)
      /\ worker' = [worker EXCEPT !.todo = Tail(@)]
      /\ UNCHANGED <<intact, completed, mPhase, mIsBooting, callers, screen, counts, process>>
  BY DEF WorkerRuns
<1>2. worker.todo \in Seq(Command) /\ worker.at \in {"none", "new", "ending", "over"} \cup Phases
  BY DEF SafetyInv, TypeOK, process
<1>3. c \in Command /\ Tail(worker.todo) \in Seq(Command) BY <1>1, <1>2, HeadTailProperties
<1>4. names \in SUBSET Services BY <1>3 DEF Command
<1>5. worker'.at = worker.at /\ worker'.todo = Tail(worker.todo) BY <1>1 DEF SafetyInv, TypeOK, process
<1>6. worker' \in [at : {"none", "new", "ending", "over"} \cup Phases, todo : Seq(Command)]
  BY <1>1, <1>3 DEF SafetyInv, TypeOK, process
<1>7. /\ TableType' /\ RunningIsAnnounced'
      /\ \A s \in Services : status[s] # "STOPPED" => status'[s] # "STOPPED"
      /\ \A s \in names : status'[s] # "STOPPED"
  <2> HIDE DEF names
  <2> QED BY <1>1, <1>4, StartsTable DEF SafetyInv
<1>8. TypeOK'
  BY <1>1, <1>6, <1>7 DEF SafetyInv, TypeOK, process, TableType, callers, screen, counts
<1>9. PhaseIsTheWorkers' /\ FlagHasWorker'
  BY <1>1, <1>5 DEF SafetyInv, PhaseIsTheWorkers, FlagHasWorker, callers
<1>10. ClassInv'
  <2>1. SUFFICES ASSUME intact PROVE ClassInv' BY <1>1 DEF ClassInv
  <2>2. Core \in SUBSET Services /\ Main \in SUBSET Services
    BY BootAssumption DEF BootAssumption
  <2>3. ASSUME NEW d \in {Core, Main}, Done(d) \/ Pending(d) PROVE Done(d)'
    <3>1. CASE Done(d) BY <1>7, <2>2, <3>1, DoneStays
    <3>2. CASE Pending(d)
      <4>1. names = d \ Disabled BY <3>2 DEF Pending, ClassCommand
      <4> QED BY <1>7, <4>1 DEF Done
    <3> QED BY <2>3, <3>1, <3>2
  <2>4. worker.at = "INIT" => Done(Core)' BY <2>1, <2>3 DEF SafetyInv, ClassInv
  <2>5. worker.at \in {"EARLY_BOOT", "BOOT", "COMPLETED", "ending"} => Done(Core)'
    BY <2>1, <2>3 DEF SafetyInv, ClassInv
  <2>6. worker.at = "BOOT" => Done(Main)' BY <2>1, <2>3 DEF SafetyInv, ClassInv
  <2>7. worker.at \in {"COMPLETED", "ending"} => Done(Main)'
    BY <2>1, <2>3 DEF SafetyInv, ClassInv
  <2>8. worker.at = "over" /\ mPhase = "COMPLETED" => Done(Core)' /\ Done(Main)'
    BY <2>1, <2>3 DEF SafetyInv, ClassInv
  <2> QED BY <1>1, <1>5, <2>4, <2>5, <2>6, <2>7, <2>8 DEF ClassInv
<1> QED BY <1>7, <1>8, <1>9, <1>10 DEF SafetyInv

\* The worker leaves a phase.
LEMMA ReturnsStep ==
  ASSUME SafetyInv, WorkerReturns PROVE SafetyInv'
<1>1. /\ worker.at \in {"EARLY_INIT", "INIT", "BOOT"} /\ ~mIsBooting
      /\ worker' = [worker EXCEPT !.at = "over"]
      /\ UNCHANGED <<table, completed, mPhase, mIsBooting, callers, screen, counts, process>>
  BY DEF WorkerReturns, LooksAtFlag
<1>2. worker'.at = "over" BY <1>1 DEF SafetyInv, TypeOK, process
<1>3. TypeOK' /\ RunningIsAnnounced'
  BY <1>1 DEF SafetyInv, TypeOK, process, RunningIsAnnounced, table, callers, screen, counts
<1>4. PhaseIsTheWorkers' BY <1>2 DEF PhaseIsTheWorkers, Phases, Triggers
<1>5. FlagHasWorker' BY <1>1 DEF FlagHasWorker
<1>6. mPhase # "COMPLETED"
  BY <1>1 DEF SafetyInv, PhaseIsTheWorkers, Phases, Triggers
<1>7. ClassInv' BY <1>1, <1>2, <1>6 DEF ClassInv
<1> QED BY <1>3, <1>4, <1>5, <1>7 DEF SafetyInv

\* Its commands are all run, or the flag is not looked at: the table stays as it is.
LEMMA EndsStep ==
  ASSUME SafetyInv, WorkerCompletes \/ WorkerEnds PROVE SafetyInv'
<1> DEFINE next == IF worker.at = "COMPLETED" THEN "ending" ELSE "over"
<1>1. /\ worker.at \in {"COMPLETED", "ending"}
      /\ worker' = [worker EXCEPT !.at = next]
      /\ UNCHANGED <<table, mPhase, callers, screen, counts, process>>
      /\ completed' \in {TRUE, completed}
      /\ worker.at = "COMPLETED" => mIsBooting' = mIsBooting
      /\ worker.at = "ending" => mIsBooting' = FALSE
  BY DEF WorkerCompletes, WorkerEnds
<1>2. worker'.at = next BY <1>1 DEF SafetyInv, TypeOK, process
<1>3. TypeOK' /\ RunningIsAnnounced'
  <2>1. worker \in [at : {"none", "new", "ending", "over"} \cup Phases, todo : Seq(Command)]
    BY DEF SafetyInv, TypeOK
  <2>2. worker' \in [at : {"none", "new", "ending", "over"} \cup Phases, todo : Seq(Command)]
    BY <1>1, <2>1
  <2>3. completed' \in BOOLEAN /\ mIsBooting' \in BOOLEAN
    BY <1>1 DEF SafetyInv, TypeOK
  <2>4. TypeOK'
    BY <1>1, <2>2, <2>3 DEF SafetyInv, TypeOK, process, table, callers, screen, counts
  <2>5. RunningIsAnnounced'
    BY <1>1 DEF SafetyInv, RunningIsAnnounced, table
  <2> QED BY <2>4, <2>5
<1>4. PhaseIsTheWorkers'
  BY <1>1, <1>2 DEF SafetyInv, PhaseIsTheWorkers, Phases, Triggers
<1>5. FlagHasWorker' BY <1>1, <1>2 DEF FlagHasWorker
<1>6. Done(Core)' = Done(Core) /\ Done(Main)' = Done(Main) BY <1>1 DEF Done, table
<1>7. intact' = intact BY <1>1 DEF table
<1>8. intact => Done(Core) /\ Done(Main) BY <1>1 DEF SafetyInv, ClassInv
<1>9. worker'.at \in {"ending", "over"} BY <1>2
<1>10. ClassInv' BY <1>6, <1>7, <1>8, <1>9 DEF ClassInv
<1> QED BY <1>3, <1>4, <1>5, <1>10 DEF SafetyInv

LEMMA WorkerStepInv ==
  ASSUME SafetyInv, WorkerStep PROVE SafetyInv'
BY EntersStep, ReturnsStep, RunsStep, EndsStep DEF WorkerStep

-----------------------------------------------------------------------------
(* The two callers. *)

CallersType ==
  /\ pc \in [Callers -> UiPcs \cup LivePcs]
  /\ pc["ui"] \in UiPcs /\ pc["live"] \in LivePcs
  /\ restarting \in Services \cup {"none"}
  /\ pc["ui"] = "restart" => restarting \in Services

CreatePcs == {"phase", "create"}

LEMMA GotoType ==
  ASSUME TypeOK, NEW t \in Callers, NEW place, Goto(t, place), place # "restart",
         t = "ui" => place \in UiPcs, t = "live" => place \in LivePcs
  PROVE  /\ CallersType'
         /\ pc'[t] = place
         /\ \A u \in Callers \ {t} : pc'[u] = pc[u]
<1>1. pc' = [pc EXCEPT ![t] = place] /\ restarting' = restarting BY DEF Goto
<1>2. pc \in [Callers -> UiPcs \cup LivePcs] BY DEF TypeOK
<1>3. pc'[t] = place /\ \A u \in Callers \ {t} : pc'[u] = pc[u] BY <1>1, <1>2
<1>4. pc' \in [Callers -> UiPcs \cup LivePcs] BY <1>1, <1>2 DEF Callers
<1>5. pc'["ui"] \in UiPcs /\ pc'["live"] \in LivePcs BY <1>3 DEF TypeOK, Callers
<1>6. pc'["ui"] = "restart" => restarting \in Services BY <1>3 DEF TypeOK, Callers
<1> QED BY <1>1, <1>3, <1>4, <1>5, <1>6 DEF CallersType, TypeOK

\* A step that moves callers, and at most lowers the flag.
LEMMA CallerMoves ==
  ASSUME SafetyInv, TypeOK', UNCHANGED <<table, mPhase, worker>>, mIsBooting' => mIsBooting,
         \A t \in Callers : pc[t] \in CreatePcs => pc'[t] \in CreatePcs
  PROVE  SafetyInv'
<1>1. RunningIsAnnounced' /\ PhaseIsTheWorkers'
  BY DEF SafetyInv, RunningIsAnnounced, PhaseIsTheWorkers, table
<1>2. FlagHasWorker' BY DEF SafetyInv, FlagHasWorker, CreatePcs
<1>3. ClassInv' BY DEF SafetyInv, ClassInv, Done, Pending, table
<1> QED BY <1>1, <1>2, <1>3 DEF SafetyInv

ScreenType == polling \in BOOLEAN /\ badge \in {"IDLE"} \cup Phases

LEMMA StartedType ==
  ASSUME TypeOK, NEW t \in Callers, Started(t)
  PROVE  /\ CallersType' /\ ScreenType'
         /\ pc'[t] \in {"idle", "wait"}
         /\ \A u \in Callers \ {t} : pc'[u] = pc[u]
<1>1. CASE t = "ui"
  <2>1. Goto(t, "idle") /\ polling' = TRUE /\ UNCHANGED badge BY <1>1 DEF Started
  <2>2. ScreenType' BY <2>1 DEF ScreenType, TypeOK
  <2>3. "idle" \in UiPcs BY DEF UiPcs
  <2> QED BY <1>1, <2>1, <2>2, <2>3, GotoType
<1>2. CASE t = "live"
  <2>1. Goto(t, "wait") /\ UNCHANGED screen BY <1>2 DEF Started
  <2>2. ScreenType' BY <2>1 DEF ScreenType, TypeOK, screen
  <2>3. "wait" \in LivePcs BY DEF LivePcs
  <2> QED BY <1>2, <2>1, <2>2, <2>3, GotoType
<1> QED BY <1>1, <1>2 DEF Callers

LEMMA StartPlaces ==
  StartPcs \subseteq UiPcs /\ StartPcs \subseteq LivePcs /\ StopPcs \subseteq UiPcs
BY DEF UiPcs, LivePcs

LEMMA StartChecksStep ==
  ASSUME SafetyInv, NEW t \in Callers, StartChecks(t) PROVE SafetyInv'
<1>1. pc[t] = "check" /\ UNCHANGED <<table, completed, boot, counts, process>>
  BY DEF StartChecks
<1>2. TypeOK BY DEF SafetyInv
<1>3. /\ CallersType' /\ ScreenType'
      /\ \A u \in Callers \ {t} : pc'[u] = pc[u]
  <2>1. CASE mIsBooting BY <1>2, <2>1, StartedType DEF StartChecks
  <2>2. CASE ~mIsBooting
    <3>1. Goto(t, "join") /\ UNCHANGED screen BY <2>2 DEF StartChecks
    <3>2. ScreenType' BY <1>2, <3>1 DEF ScreenType, TypeOK, screen
    <3>3. "join" \in StartPcs BY DEF StartPcs
    <3> QED BY <1>2, <3>1, <3>2, <3>3, GotoType, StartPlaces
  <2> QED BY <2>1, <2>2
<1>4. TypeOK'
  BY <1>1, <1>2, <1>3 DEF TypeOK, CallersType, ScreenType, table, boot, counts, process
<1>5. \A u \in Callers : pc[u] \in CreatePcs => pc'[u] \in CreatePcs
  BY <1>1, <1>3 DEF CreatePcs
<1> QED BY <1>1, <1>4, <1>5, CallerMoves DEF boot

LEMMA LooksStep ==
  ASSUME SafetyInv, NEW t \in Callers, LooksForThread(t) PROVE SafetyInv'
<1> DEFINE place == IF worker.at = "none" THEN AfterJoin(t)
                    ELSE IF pc[t] = "join" THEN "joining" ELSE "stop joining"
<1>1. /\ pc[t] \in {"join", "stop join"}
      /\ UNCHANGED <<table, completed, boot, screen, counts, bridged>>
      /\ Goto(t, place) /\ crashed' \in BOOLEAN
  <2>1. crashed \in BOOLEAN BY DEF SafetyInv, TypeOK, process
  <2>2. CASE worker.at = "none" BY <2>1, <2>2 DEF LooksForThread
  <2>3. CASE worker.at # "none" BY <2>3 DEF LooksForThread
  <2> QED BY <2>2, <2>3
<1>2. /\ pc[t] = "join" => place \in {"raise", "joining"}
      /\ pc[t] = "stop join" => place \in {"stop services", "stop joining"}
  BY DEF AfterJoin
<1>3. t = "live" => pc[t] = "join"
  BY <1>1 DEF SafetyInv, TypeOK, process, LivePcs, StartPcs
<1>4. /\ t = "ui" => place \in UiPcs
      /\ t = "live" => place \in LivePcs
      /\ place # "restart"
  BY <1>1, <1>2, <1>3 DEF UiPcs, LivePcs, StartPcs, StopPcs
<1>5. CallersType' /\ pc'[t] = place /\ \A u \in Callers \ {t} : pc'[u] = pc[u]
  <2> HIDE DEF place
  <2> QED BY <1>1, <1>4, GotoType DEF SafetyInv
<1>6. TypeOK'
  BY <1>1, <1>5 DEF SafetyInv, TypeOK, process, CallersType, table, boot, screen, counts
<1>7. \A u \in Callers : pc[u] \in CreatePcs => pc'[u] \in CreatePcs
  BY <1>1, <1>5 DEF CreatePcs
<1> QED BY <1>1, <1>6, <1>7, CallerMoves DEF boot

LEMMA JoinsStep ==
  ASSUME SafetyInv, NEW t \in Callers, Joins(t) PROVE SafetyInv'
<1>1. /\ pc[t] \in {"joining", "stop joining"} /\ worker.at = "over"
      /\ worker' = [worker EXCEPT !.at = "none"]
      /\ Goto(t, AfterJoin(t))
      /\ UNCHANGED <<table, completed, mPhase, mIsBooting, screen, counts, process>>
  BY DEF Joins, Joining
<1>2. /\ pc[t] = "joining" => AfterJoin(t) = "raise"
      /\ pc[t] = "stop joining" => AfterJoin(t) = "stop services"
  BY DEF AfterJoin
<1>3. t = "live" => pc[t] = "joining"
  BY <1>1 DEF SafetyInv, TypeOK, process, LivePcs, StartPcs
<1>4. /\ t = "ui" => AfterJoin(t) \in UiPcs
      /\ t = "live" => AfterJoin(t) \in LivePcs
      /\ AfterJoin(t) # "restart"
  BY <1>1, <1>2, <1>3 DEF UiPcs, LivePcs, StartPcs, StopPcs
<1>5. CallersType' /\ \A u \in Callers \ {t} : pc'[u] = pc[u]
  BY <1>1, <1>4, GotoType DEF SafetyInv
<1>6. worker'.at = "none" BY <1>1 DEF SafetyInv, TypeOK, process
<1>7. TypeOK'
  BY <1>1, <1>5 DEF SafetyInv, TypeOK, process, CallersType, table, screen, counts
<1>8. RunningIsAnnounced' BY <1>1 DEF SafetyInv, RunningIsAnnounced, table
<1>9. PhaseIsTheWorkers' BY <1>6 DEF PhaseIsTheWorkers, Phases, Triggers
<1>10. FlagHasWorker' BY <1>1, <1>5 DEF SafetyInv, FlagHasWorker
<1>11. ClassInv' BY <1>6 DEF ClassInv
<1> QED BY <1>7, <1>8, <1>9, <1>10, <1>11 DEF SafetyInv

LEMMA RaisesStep ==
  ASSUME SafetyInv, NEW t \in Callers, StartRaises(t) PROVE SafetyInv'
<1>1. /\ pc[t] = "raise" /\ mIsBooting' = TRUE /\ Goto(t, "phase")
      /\ UNCHANGED <<table, completed, mPhase, worker, screen, counts, process>>
  BY DEF StartRaises
<1>2. "phase" \in StartPcs BY DEF StartPcs
<1>3. CallersType' /\ pc'[t] = "phase" BY <1>1, <1>2, GotoType, StartPlaces DEF SafetyInv
<1>4. TypeOK' BY <1>1, <1>3 DEF SafetyInv, TypeOK, process, CallersType, table, screen, counts
<1>5. RunningIsAnnounced' /\ PhaseIsTheWorkers'
  BY <1>1 DEF SafetyInv, RunningIsAnnounced, PhaseIsTheWorkers, table
<1>6. FlagHasWorker' BY <1>3 DEF FlagHasWorker
<1>7. ClassInv' BY <1>1 DEF SafetyInv, ClassInv, Done, Pending, table
<1> QED BY <1>4, <1>5, <1>6, <1>7 DEF SafetyInv

LEMMA ResetsPhaseStep ==
  ASSUME SafetyInv, NEW t \in Callers, StartResetsPhase(t) PROVE SafetyInv'
<1>1. /\ pc[t] = "phase" /\ mPhase' = "IDLE" /\ Goto(t, "create")
      /\ UNCHANGED <<table, completed, mIsBooting, worker, screen, counts, process>>
  BY DEF StartResetsPhase
<1>2. "create" \in StartPcs BY DEF StartPcs
<1>3. CallersType' /\ pc'[t] = "create" BY <1>1, <1>2, GotoType, StartPlaces DEF SafetyInv
<1>4. TypeOK' BY <1>1, <1>3 DEF SafetyInv, TypeOK, process, CallersType, table, screen, counts
<1>5. RunningIsAnnounced' /\ PhaseIsTheWorkers'
  BY <1>1 DEF SafetyInv, RunningIsAnnounced, PhaseIsTheWorkers, table
<1>6. FlagHasWorker' BY <1>3 DEF FlagHasWorker
<1>7. ClassInv' BY <1>1 DEF SafetyInv, ClassInv, Done, Pending, table
<1> QED BY <1>4, <1>5, <1>6, <1>7 DEF SafetyInv

LEMMA CreatesStep ==
  ASSUME SafetyInv, NEW t \in Callers, StartCreates(t) PROVE SafetyInv'
<1>1. /\ pc[t] = "create"
      /\ UNCHANGED <<status, announced, completed, mPhase, mIsBooting, counts, bridged>>
  BY DEF StartCreates
<1>2. CASE worker.at = "none"
  <2>1. /\ worker' = [worker EXCEPT !.at = "new"] /\ intact' = TRUE /\ Started(t)
        /\ UNCHANGED crashed
    BY <1>2 DEF StartCreates
  <2>2. worker'.at = "new" BY <2>1 DEF SafetyInv, TypeOK, process
  <2>3. CallersType' /\ ScreenType' BY <2>1, StartedType DEF SafetyInv
  <2>4. TypeOK'
    BY <1>1, <2>1, <2>3 DEF SafetyInv, TypeOK, process, CallersType, ScreenType, counts
  <2>5. RunningIsAnnounced' BY <1>1 DEF SafetyInv, RunningIsAnnounced
  <2>6. PhaseIsTheWorkers' BY <2>2 DEF PhaseIsTheWorkers, Phases, Triggers
  <2>7. FlagHasWorker' BY <2>2 DEF FlagHasWorker
  <2>8. ClassInv' BY <2>2 DEF ClassInv
  <2> QED BY <2>4, <2>5, <2>6, <2>7, <2>8 DEF SafetyInv
<1>3. CASE worker.at # "none"
  <2>1. crashed' = TRUE /\ UNCHANGED <<worker, intact, callers, screen>>
    BY <1>3 DEF StartCreates
  <2>2. TypeOK' BY <1>1, <2>1 DEF SafetyInv, TypeOK, process, callers, screen, counts
  <2> QED BY <1>1, <2>1, <2>2, CallerMoves DEF table, callers
<1> QED BY <1>2, <1>3

LEMMA StartStepInv ==
  ASSUME SafetyInv, NEW t \in Callers, StartStep(t) PROVE SafetyInv'
BY StartChecksStep, LooksStep, JoinsStep, RaisesStep, ResetsPhaseStep, CreatesStep
   DEF StartStep

-----------------------------------------------------------------------------
(* The calls of the UI, and a live boot. *)

\* A step on the table that leaves the boot and its thread alone: either it stops no service
\* that runs, or it ends the quiet.
LEMMA TableMoves ==
  ASSUME SafetyInv, TypeOK', RunningIsAnnounced', UNCHANGED <<mPhase, mIsBooting, worker>>,
         \A t \in Callers : pc[t] \in CreatePcs => pc'[t] \in CreatePcs,
         \/ ~intact'
         \/ /\ intact' = intact
            /\ \A s \in Services : status[s] # "STOPPED" => status'[s] # "STOPPED"
  PROVE  SafetyInv'
<1>1. PhaseIsTheWorkers' BY DEF SafetyInv, PhaseIsTheWorkers
<1>2. FlagHasWorker' BY DEF SafetyInv, FlagHasWorker, CreatePcs
<1>3. ClassInv'
  <2>1. CASE ~intact' BY <2>1 DEF ClassInv
  <2>2. CASE intact' = intact
             /\ \A s \in Services : status[s] # "STOPPED" => status'[s] # "STOPPED"
    <3>1. Core \in SUBSET Services /\ Main \in SUBSET Services
      BY BootAssumption DEF BootAssumption
    <3>2. (Done(Core) => Done(Core)') /\ (Done(Main) => Done(Main)')
      BY <2>2, <3>1, DoneStays
    <3>3. \A c \in {Core, Main} : Pending(c)' <=> Pending(c) BY DEF Pending
    <3> QED BY <2>2, <3>2, <3>3 DEF SafetyInv, ClassInv
  <2> QED BY <2>1, <2>2
<1> QED BY <1>1, <1>2, <1>3 DEF SafetyInv

LEMMA StopServicesStep ==
  ASSUME SafetyInv, StopServices PROVE SafetyInv'
<1> DEFINE names == {s \in Services : status[s] = "RUNNING"}
<1>1. /\ pc["ui"] = "stop services" /\ Stops(names) /\ intact' = FALSE
      /\ Goto("ui", "stop phase")
      /\ UNCHANGED <<completed, boot, screen, counts, process>>
  BY DEF StopServices
<1>2. TableType' /\ RunningIsAnnounced'
  <2>1. names \in SUBSET Services OBVIOUS
  <2> HIDE DEF names
  <2> QED BY <1>1, <2>1, StopsTable DEF SafetyInv
<1>3. "stop phase" \in StopPcs /\ "ui" \in Callers BY DEF StopPcs, Callers
<1>4. CallersType' /\ \A u \in Callers \ {"ui"} : pc'[u] = pc[u]
  BY <1>1, <1>3, GotoType, StartPlaces DEF SafetyInv
<1>5. TypeOK'
  BY <1>1, <1>2, <1>4 DEF SafetyInv, TypeOK, process, TableType, CallersType, boot, screen, counts
<1>6. \A t \in Callers : pc[t] \in CreatePcs => pc'[t] \in CreatePcs
  BY <1>1, <1>4 DEF CreatePcs
<1> QED BY <1>1, <1>2, <1>5, <1>6, TableMoves DEF boot

LEMMA StopPhaseStep ==
  ASSUME SafetyInv, StopPhase PROVE SafetyInv'
<1>1. /\ pc["ui"] = "stop phase" /\ mPhase' = "IDLE" /\ polling' = FALSE /\ badge' = "IDLE"
      /\ Goto("ui", "idle")
      /\ UNCHANGED <<table, completed, mIsBooting, worker, counts, process>>
  BY DEF StopPhase
<1>2. "idle" \in UiPcs /\ "ui" \in Callers BY DEF UiPcs, Callers
<1>3. CallersType' /\ \A u \in Callers \ {"ui"} : pc'[u] = pc[u]
  BY <1>1, <1>2, GotoType DEF SafetyInv
<1>4. TypeOK' BY <1>1, <1>3 DEF SafetyInv, TypeOK, process, CallersType, table, counts
<1>5. RunningIsAnnounced' /\ PhaseIsTheWorkers'
  BY <1>1 DEF SafetyInv, RunningIsAnnounced, PhaseIsTheWorkers, table
<1>6. FlagHasWorker' BY <1>1, <1>3 DEF SafetyInv, FlagHasWorker
<1>7. ClassInv' BY <1>1 DEF SafetyInv, ClassInv, Done, Pending, table
<1> QED BY <1>4, <1>5, <1>6, <1>7 DEF SafetyInv

\* startService() and the second half of restartService().
LEMMA UiStartsStep ==
  ASSUME SafetyInv, (\E s \in Services : UiStartsService(s)) \/ UiRestarts PROVE SafetyInv'
<1>1. CASE \E s \in Services : UiStartsService(s)
  <2>1. PICK s \in Services : UiStartsService(s) BY <1>1
  <2>2. /\ Starts({s}) /\ controls' = controls + 1
        /\ UNCHANGED <<intact, completed, boot, callers, screen, boots, lives, process>>
    BY <2>1 DEF UiStartsService, Controls
  <2>3. {s} \in SUBSET Services OBVIOUS
  <2>4. /\ TableType' /\ RunningIsAnnounced'
        /\ \A r \in Services : status[r] # "STOPPED" => status'[r] # "STOPPED"
    BY <2>2, <2>3, StartsTable DEF SafetyInv
  <2>5. TypeOK'
    BY <2>2, <2>4 DEF SafetyInv, TypeOK, process, TableType, boot, callers, screen
  <2> QED BY <2>2, <2>4, <2>5, TableMoves DEF boot, callers
<1>2. CASE UiRestarts
  <2>1. /\ pc["ui"] = "restart" /\ Starts({restarting})
        /\ pc' = [pc EXCEPT !["ui"] = "idle"] /\ restarting' = "none"
        /\ UNCHANGED <<intact, completed, boot, screen, counts, process>>
    BY <1>2 DEF UiRestarts
  <2>2. {restarting} \in SUBSET Services BY <2>1 DEF SafetyInv, TypeOK, process
  <2>3. /\ TableType' /\ RunningIsAnnounced'
        /\ \A r \in Services : status[r] # "STOPPED" => status'[r] # "STOPPED"
    BY <2>1, <2>2, StartsTable DEF SafetyInv
  <2>4. pc'["ui"] = "idle" /\ pc'["live"] = pc["live"]
        /\ pc' \in [Callers -> UiPcs \cup LivePcs]
    BY <2>1 DEF SafetyInv, TypeOK, process, Callers, UiPcs
  <2>5. CallersType' BY <2>1, <2>4 DEF SafetyInv, TypeOK, process, CallersType, UiPcs
  <2>6. TypeOK'
    BY <2>1, <2>3, <2>5
       DEF SafetyInv, TypeOK, process, TableType, CallersType, boot, screen, counts
  <2>7. \A t \in Callers : pc[t] \in CreatePcs => pc'[t] \in CreatePcs
    BY <2>1, <2>4 DEF CreatePcs, Callers
  <2> QED BY <2>1, <2>3, <2>6, <2>7, TableMoves DEF boot
<1> QED BY <1>1, <1>2

\* stopService() and the first half of restartService().
LEMMA UiStopsStep ==
  ASSUME SafetyInv, NEW s \in Services, UiStopsService(s) PROVE SafetyInv'
<1>1. /\ pc["ui"] = "idle" /\ controls' = controls + 1
      /\ Stops({s}) /\ intact' = FALSE
      /\ UNCHANGED <<completed, boot, screen, boots, lives, process>>
      /\ UNCHANGED callers \/ (pc' = [pc EXCEPT !["ui"] = "restart"] /\ restarting' = s)
  BY DEF UiStopsService, Controls
<1>2. {s} \in SUBSET Services OBVIOUS
<1>3. TableType' /\ RunningIsAnnounced' BY <1>1, <1>2, StopsTable DEF SafetyInv
<1>4. CallersType' /\ pc'["live"] = pc["live"]
  <2>1. CASE UNCHANGED callers BY <2>1 DEF SafetyInv, TypeOK, process, CallersType, callers
  <2>2. CASE pc' = [pc EXCEPT !["ui"] = "restart"] /\ restarting' = s
    <3>1. pc'["ui"] = "restart" /\ pc'["live"] = pc["live"]
          /\ pc' \in [Callers -> UiPcs \cup LivePcs]
      BY <2>2 DEF SafetyInv, TypeOK, process, Callers, UiPcs
    <3> QED BY <2>2, <3>1 DEF SafetyInv, TypeOK, process, CallersType, UiPcs
  <2> QED BY <1>1, <2>1, <2>2
<1>5. TypeOK'
  <2>1. /\ boots \in Nat /\ lives \in Nat /\ controls \in Nat
        /\ completed \in BOOLEAN /\ bridged \in BOOLEAN /\ crashed \in BOOLEAN
    BY DEF SafetyInv, TypeOK, process
  <2>2. boots' \in Nat /\ lives' \in Nat /\ controls' \in Nat
    <3>1. boots' = boots /\ lives' = lives /\ controls' = controls + 1 BY <1>1
    <3> QED BY <2>1, <3>1
  <2>3. completed' \in BOOLEAN /\ bridged' \in BOOLEAN /\ crashed' \in BOOLEAN
        /\ intact' \in BOOLEAN
    <3>1. completed' = completed /\ bridged' = bridged /\ crashed' = crashed /\ intact' = FALSE
      BY <1>1 DEF process
    <3> QED BY <2>1, <3>1, Zenon
  <2>4. UNCHANGED boot /\ UNCHANGED screen BY <1>1
  <2> QED BY <1>3, <1>4, <2>2, <2>3, <2>4 DEF SafetyInv, TypeOK, process, TableType, CallersType, boot, screen
<1>6. \A t \in Callers : pc[t] \in CreatePcs => pc'[t] \in CreatePcs
  BY <1>1, <1>4 DEF CreatePcs, Callers
<1> QED BY <1>1, <1>3, <1>5, <1>6, TableMoves DEF boot

LEMMA ReloadsStep ==
  ASSUME SafetyInv, UiReloads \/ LiveReloads PROVE SafetyInv'
<1>1. TableType' /\ RunningIsAnnounced' /\ ~intact'
  BY ReloadsTable DEF SafetyInv, UiReloads, LiveReloads
<1>2. UNCHANGED <<completed, boot, screen, process>> BY DEF UiReloads, LiveReloads
<1>3. boots' \in Nat /\ lives' \in Nat /\ controls' \in Nat
  BY DEF SafetyInv, TypeOK, process, UiReloads, LiveReloads, Controls, counts
<1>4. CallersType' /\ \A t \in Callers : pc[t] \in CreatePcs => pc'[t] \in CreatePcs
  <2>1. CASE UiReloads BY <2>1 DEF SafetyInv, TypeOK, process, CallersType, UiReloads, callers
  <2>2. CASE LiveReloads
    <3>1. "check" \in StartPcs /\ "live" \in Callers BY DEF StartPcs, Callers
    <3>2. pc["live"] = "reload" /\ Goto("live", "check") BY <2>2 DEF LiveReloads
    <3> QED BY <3>1, <3>2, GotoType, StartPlaces DEF SafetyInv, CreatePcs
  <2> QED BY <2>1, <2>2
<1>5. intact' \in BOOLEAN BY DEF UiReloads, LiveReloads, Reloads
<1>6. TypeOK'
  BY <1>1, <1>2, <1>3, <1>4, <1>5 DEF SafetyInv, TypeOK, process, TableType, CallersType, boot, screen
<1> QED BY <1>1, <1>2, <1>4, <1>6, TableMoves DEF boot

\* The steps that move a caller or the screen, and leave the table and the boot alone.
LEMMA OtherSteps ==
  ASSUME SafetyInv,
         UiBoots \/ StopBegins \/ UiPolls \/ LiveFails \/ LiveWaits \/ LiveAnnounces
         \/ UiShowsLiveBoot
  PROVE  SafetyInv'
<1> USE DEF SafetyInv
<1>1. /\ "ui" \in Callers /\ "live" \in Callers
      /\ {"idle", "check", "stop join"} \subseteq UiPcs
      /\ {"idle", "reload", "announce", "post"} \subseteq LivePcs
  BY DEF Callers, UiPcs, LivePcs, StartPcs, StopPcs
<1>2. UNCHANGED <<table, mPhase, worker>> /\ (mIsBooting' => mIsBooting)
      /\ mIsBooting' \in BOOLEAN
  <2>1. CASE StopBegins BY <2>1 DEF StopBegins
  <2>2. CASE UiBoots \/ UiPolls \/ UiShowsLiveBoot
    BY <2>2 DEF UiBoots, UiPolls, UiShowsLiveBoot, boot, TypeOK
  <2>3. CASE LiveFails \/ LiveWaits \/ LiveAnnounces
    BY <2>3 DEF LiveFails, LiveWaits, LiveAnnounces, boot, TypeOK
  <2> QED BY <2>1, <2>2, <2>3
<1>3. boots' \in Nat /\ lives' \in Nat /\ controls' \in Nat
  <2>1. boots \in Nat /\ lives \in Nat /\ controls \in Nat BY DEF TypeOK
  <2>2. CASE UiBoots \/ StopBegins
    <3>1. \/ boots' = boots + 1 /\ UNCHANGED <<lives, controls>>
          \/ controls' = controls + 1 /\ UNCHANGED <<lives, boots>>
      BY <2>2 DEF UiBoots, StopBegins, Controls
    <3> QED BY <2>1, <3>1
  <2>3. CASE LiveFails BY <2>1, <2>3 DEF LiveFails, LiveCalled
  <2>4. CASE UiPolls \/ LiveWaits \/ LiveAnnounces \/ UiShowsLiveBoot
    BY <2>1, <2>4 DEF UiPolls, LiveWaits, LiveAnnounces, UiShowsLiveBoot, counts
  <2> QED BY <2>2, <2>3, <2>4
<1>4. ScreenType' /\ completed' \in BOOLEAN /\ UNCHANGED process
  BY DEF TypeOK, UiBoots, StopBegins, UiPolls, LiveFails, LiveWaits, LiveAnnounces,
         UiShowsLiveBoot, screen, ScreenType, Phases
<1>5. CallersType' /\ \A t \in Callers : pc[t] \in CreatePcs => pc'[t] \in CreatePcs
  <2>1. CASE UiBoots \/ StopBegins
    <3>1. /\ pc["ui"] = "idle"
          /\ Goto("ui", "check") \/ Goto("ui", "stop join")
      BY <2>1 DEF UiBoots, StopBegins, Controls
    <3> QED BY <1>1, <3>1, GotoType DEF CreatePcs
  <2>2. CASE UiPolls BY <2>2 DEF UiPolls, callers, CallersType, TypeOK
  <2>3. CASE LiveFails \/ LiveWaits \/ LiveAnnounces \/ UiShowsLiveBoot
    <3>1. /\ pc["live"] \in {"idle", "wait", "announce", "post"}
          /\ \E place \in {"idle", "reload", "announce", "post"} : Goto("live", place)
      BY <2>3 DEF LiveFails, LiveCalled, LiveWaits, LiveAnnounces, UiShowsLiveBoot
    <3>2. PICK place \in {"idle", "reload", "announce", "post"} : Goto("live", place)
      BY <3>1
    <3> QED BY <1>1, <3>1, <3>2, GotoType DEF CreatePcs
  <2> QED BY <2>1, <2>2, <2>3
<1>6. TypeOK'
  BY <1>2, <1>3, <1>4, <1>5 DEF TypeOK, CallersType, ScreenType, table, process
<1> QED BY <1>2, <1>5, <1>6, CallerMoves

\* A live boot that reads its image.
LEMMA LiveBeginsStep ==
  ASSUME SafetyInv, LiveBegins PROVE SafetyInv'
<1>1. /\ pc["live"] = "idle" /\ lives' = lives + 1 /\ completed' = FALSE
      /\ UNCHANGED <<status, intact, boot, screen, boots, controls>>
  BY DEF LiveBegins, LiveCalled
<1>2. /\ announced' \in {announced, Defaults(announced)}
      /\ bridged' \in BOOLEAN /\ crashed' \in BOOLEAN
      /\ UNCHANGED callers \/ Goto("live", "reload")
  <2>1. CASE bridged BY <2>1 DEF LiveBegins, SafetyInv, TypeOK
  <2>2. CASE ~bridged BY <2>2 DEF LiveBegins, SafetyInv, TypeOK
  <2> QED BY <2>1, <2>2
<1>3. TableType' /\ RunningIsAnnounced'
  <2>1. CASE announced' = announced
    BY <1>1, <2>1 DEF SafetyInv, TypeOK, TableType, RunningIsAnnounced
  <2>2. CASE announced' = Defaults(announced)
    BY <1>1, <2>2 DEF SafetyInv, TypeOK, TableType, RunningIsAnnounced, Defaults
  <2> QED BY <1>2, <2>1, <2>2
<1>4. CallersType' /\ \A t \in Callers : pc[t] \in CreatePcs => pc'[t] \in CreatePcs
  <2>1. CASE UNCHANGED callers BY <2>1 DEF SafetyInv, TypeOK, CallersType, callers
  <2>2. CASE Goto("live", "reload")
    <3>1. "reload" \in LivePcs /\ "live" \in Callers BY DEF LivePcs, Callers
    <3> QED BY <1>1, <2>2, <3>1, GotoType DEF SafetyInv, CreatePcs
  <2> QED BY <1>2, <2>1, <2>2
<1>5. boots' \in Nat /\ lives' \in Nat /\ controls' \in Nat
  <2>1. boots \in Nat /\ lives \in Nat /\ controls \in Nat BY DEF SafetyInv, TypeOK
  <2> QED BY <1>1, <2>1
<1>6. intact' \in BOOLEAN /\ completed' \in BOOLEAN
  <2>1. intact \in BOOLEAN BY DEF SafetyInv, TypeOK
  <2> QED BY <1>1, <2>1, Zenon
<1>7. UNCHANGED boot /\ UNCHANGED screen BY <1>1
<1>8. TypeOK'
  BY <1>2, <1>3, <1>4, <1>5, <1>6, <1>7
     DEF SafetyInv, TypeOK, TableType, CallersType, boot, screen
<1>9. UNCHANGED <<mPhase, mIsBooting, worker, status, intact>> BY <1>1 DEF boot
<1> QED BY <1>3, <1>4, <1>8, <1>9, TableMoves

-----------------------------------------------------------------------------
(* The theorems. *)

LEMMA SafetyInit == Init => SafetyInv
<1> SUFFICES ASSUME Init PROVE SafetyInv OBVIOUS
<1>1. <<>> \in Seq(Command) OBVIOUS
<1>2. pc["ui"] = "idle" /\ pc["live"] = "idle" BY DEF Init, Callers
<1>3. announced \in [Services -> {"unset", "running", "stopped"}]
  BY DEF Init, Defaults
<1>4. completed \in BOOLEAN /\ bridged \in BOOLEAN /\ crashed \in BOOLEAN /\ intact \in BOOLEAN
  BY Zenon DEF Init
<1>5. TypeOK BY <1>1, <1>2, <1>3, <1>4 DEF Init, TypeOK, UiPcs, LivePcs
<1>6. RunningIsAnnounced /\ FlagHasWorker /\ ClassInv
  BY DEF Init, RunningIsAnnounced, FlagHasWorker, ClassInv
<1>7. PhaseIsTheWorkers BY DEF Init, PhaseIsTheWorkers
<1> QED BY <1>5, <1>6, <1>7 DEF SafetyInv

LEMMA SafetyStep == SafetyInv /\ [Next]_vars => SafetyInv'
<1> SUFFICES ASSUME SafetyInv, [Next]_vars PROVE SafetyInv' OBVIOUS
<1>1. CASE WorkerStep BY <1>1, WorkerStepInv
<1>2. CASE UiStep
  <2>1. CASE StartStep("ui") BY <2>1, StartStepInv DEF Callers
  <2>2. CASE StopStep BY <2>2, StopServicesStep, StopPhaseStep DEF StopStep
  <2>3. CASE UiRestarts BY <2>3, UiStartsStep
  <2> QED BY <1>2, <2>1, <2>2, <2>3 DEF UiStep
<1>3. CASE UiHandles BY <1>3, OtherSteps DEF UiHandles
<1>4. CASE UiCalls BY <1>4, OtherSteps, ReloadsStep, UiStartsStep, UiStopsStep DEF UiCalls
<1>5. CASE LiveFails \/ LiveBegins BY <1>5, OtherSteps, LiveBeginsStep
<1>6. CASE LiveStep
  <2>1. CASE StartStep("live") BY <2>1, StartStepInv DEF Callers
  <2>2. CASE LiveReloads BY <2>2, ReloadsStep
  <2>3. CASE LiveWaits \/ LiveAnnounces BY <2>3, OtherSteps
  <2> QED BY <1>6, <2>1, <2>2, <2>3 DEF LiveStep
<1>7. CASE UNCHANGED vars
  BY <1>7 DEF vars, table, boot, callers, screen, counts, process, SafetyInv, TypeOK,
     RunningIsAnnounced, PhaseIsTheWorkers, FlagHasWorker, ClassInv, Done, Pending
<1> QED BY <1>1, <1>2, <1>3, <1>4, <1>5, <1>6, <1>7 DEF Next

THEOREM SafetyHolds == Spec => []SafetyInv
BY SafetyInit, SafetyStep, PTL DEF Spec

\* TypeOK holds in every reachable state, for every table of services.
THEOREM TypeCorrect == Spec => []TypeOK
<1>1. SafetyInv => TypeOK BY DEF SafetyInv
<1> QED BY <1>1, SafetyHolds, PTL

\* Whatever starts, stops or reloads services, and from whichever thread, a running service
\* is announced as running.
THEOREM RunningAlwaysAnnounced == Spec => []RunningIsAnnounced
<1>1. SafetyInv => RunningIsAnnounced BY DEF SafetyInv
<1> QED BY <1>1, SafetyHolds, PTL

\* However starts and stops of two threads overlap, mPhase is the running worker's or IDLE.
THEOREM PhaseAlwaysTheWorkers == Spec => []PhaseIsTheWorkers
<1>1. SafetyInv => PhaseIsTheWorkers BY DEF SafetyInv
<1> QED BY <1>1, SafetyHolds, PTL

\* mIsBooting never stays raised without a worker or a start that creates one.
THEOREM FlagAlwaysHasWorker == Spec => []FlagHasWorker
<1>1. SafetyInv => FlagHasWorker BY DEF SafetyInv
<1> QED BY <1>1, SafetyHolds, PTL

\* A boot that is completed and was not disturbed has started every service of its classes
\* that is not disabled, for every table and every list of commands.
THEOREM CompletedAlwaysHasItsServices == Spec => []CompletedHasItsServices
<1>1. SafetyInv => CompletedHasItsServices
  BY DEF SafetyInv, ClassInv, Done, CompletedHasItsServices
<1> QED BY <1>1, SafetyHolds, PTL

-----------------------------------------------------------------------------
(* Recursion: a definition by recursion is one, for there is a function that it defines. *)

LEMMA LeastNumber ==
  ASSUME NEW T, T \subseteq Nat, T # {}
  PROVE  \E x \in T : \A y \in T : x <= y
<1> DEFINE R == OpToRel(<, Nat)
<1>1. IsWellFoundedOn(R, Nat) BY NatLessThanWellFounded
<1>2. \A x, y \in Nat : x < y => <<x, y>> \in R BY DEF OpToRel
<1> HIDE DEF R
<1>3. PICK x \in T : \A y \in T : <<y, x>> \notin R BY <1>1, WFMin
<1>4. \A y \in T : ~(y < x) BY <1>2, <1>3
<1> QED BY <1>3, <1>4

LEMMA Induction ==
  ASSUME NEW T, 0 \in T, \A n \in Nat : n \in T => n + 1 \in T
  PROVE  Nat \subseteq T
<1> SUFFICES ASSUME NEW m \in Nat, m \notin T PROVE FALSE OBVIOUS
<1> DEFINE S == {n \in Nat : n \notin T}
<1>1. S \subseteq Nat /\ S # {} OBVIOUS
<1>2. PICK x \in S : \A y \in S : x <= y BY <1>1, LeastNumber
<1>3. x \in Nat /\ x # 0 /\ x \notin T OBVIOUS
<1>4. x - 1 \in Nat /\ x = (x - 1) + 1 BY <1>3
<1>5. x - 1 \in T
  <2> SUFFICES ASSUME x - 1 \notin T PROVE FALSE OBVIOUS
  <2>1. x - 1 \in S BY <1>4
  <2>2. x <= x - 1 BY <1>2, <2>1
  <2> QED BY <1>3, <2>2
<1> QED BY <1>3, <1>4, <1>5

\* g goes from start on, each time by what next gives.
Recurs(g, N, S, start, next) ==
  /\ g \in [0..N -> S] /\ g[0] = start
  /\ \A k \in 1..N : g[k] = next[<<k, g[k - 1]>>]

LEMMA Recursion ==
  ASSUME NEW N \in Nat, NEW S, NEW start \in S, NEW next \in [(1..N) \X S -> S]
  PROVE  \E g : Recurs(g, N, S, start, next)
<1> DEFINE Follows(g, n) == /\ g \in [0..n -> S] /\ g[0] = start
                            /\ \A k \in 1..n : g[k] = next[<<k, g[k - 1]>>]
           T == {n \in Nat : n <= N => \E g : Follows(g, n)}
<1>1. 0 \in T
  <2> DEFINE g == [k \in 0..0 |-> start]
  <2>1. g \in [0..0 -> S] /\ g[0] = start OBVIOUS
  <2> HIDE DEF g
  <2>2. Follows(g, 0) BY <2>1
  <2> QED BY <2>2
<1>2. ASSUME NEW n \in Nat, n \in T PROVE n + 1 \in T
  <2> SUFFICES ASSUME n + 1 <= N PROVE \E g : Follows(g, n + 1) OBVIOUS
  <2>1. PICK g : Follows(g, n) BY <1>2
  <2> DEFINE x == next[<<n + 1, g[n]>>]
             h == [k \in 0..(n + 1) |-> IF k <= n THEN g[k] ELSE x]
  <2>2. n + 1 \in 1..N /\ g[n] \in S BY <2>1
  <2>3. <<n + 1, g[n]>> \in (1..N) \X S BY <2>2
  <2>4. x \in S BY <2>3
  <2>5. \A k \in 0..n : k \in 0..(n + 1) /\ k <= n /\ g[k] \in S BY <2>1
  <2>6. \A k \in 0..(n + 1) : k \in 0..n \/ k = n + 1 OBVIOUS
  <2>7. n + 1 \in 0..(n + 1) /\ ~(n + 1 <= n) OBVIOUS
  <2> HIDE DEF x
  <2>8. \A k \in 0..n : h[k] = g[k] BY <2>5
  <2>9. h[n + 1] = x BY <2>7
  <2>10. h \in [0..(n + 1) -> S] BY <2>4, <2>5, <2>6
  <2> HIDE DEF h
  <2>11. h[0] = start BY <2>1, <2>8
  <2>12. ASSUME NEW k \in 1..(n + 1) PROVE h[k] = next[<<k, h[k - 1]>>]
    <3>1. CASE k \in 1..n
      <4>1. k \in 0..n /\ k - 1 \in 0..n BY <3>1
      <4> QED BY <2>1, <2>8, <3>1, <4>1
    <3>2. CASE k = n + 1
      <4>1. k - 1 = n /\ n \in 0..n BY <3>2
      <4> QED BY <2>8, <2>9, <3>2, <4>1 DEF x
    <3> QED BY <3>1, <3>2
  <2> QED BY <2>10, <2>11, <2>12
<1>3. N \in T
  <2> HIDE DEF T
  <2> QED BY <1>1, <1>2, Induction
<1>4. PICK g : Follows(g, N) BY <1>3
<1>5. Recurs(g, N, S, start, next) BY <1>4 DEF Recurs
<1> QED BY <1>5

-----------------------------------------------------------------------------
(* Types of the parser. *)

Line    == Seq(Word)
Service == [name : Word, classes : Seq(Word), isDisabled : BOOLEAN]
Action  == [trigger : Word, commands : Seq(Line)]

ParserTable == [actions : Seq(Action), services : Seq(Service)]
Section ==
  {NoSection} \cup [kind : {"action"}, name : Word, commands : Seq(Line)]
  \cup [kind : {"service"}, name : Word, classes : Seq(Word), isDisabled : BOOLEAN]
Parse == [table : ParserTable, section : Section]

LEMMA KindOf ==
  ASSUME NEW section \in Section
  PROVE  /\ section.kind = "none" => section = NoSection
         /\ section.kind = "action" =>
              section \in [kind : {"action"}, name : Word, commands : Seq(Line)]
         /\ section.kind = "service" =>
              section \in [kind : {"service"}, name : Word, classes : Seq(Word),
                           isDisabled : BOOLEAN]
         /\ section.kind \in {"none", "action", "service"}
BY DEF Section, NoSection

\* What the end of a section does to the table.
LEMMA Finishes ==
  ASSUME NEW tab \in ParserTable, NEW section \in Section
  PROVE  LET end == finishCurrentSection(tab, section)
             s   == [name |-> section.name, classes |-> section.classes,
                     isDisabled |-> section.isDisabled]
             a   == [trigger |-> section.name, commands |-> section.commands]
         IN  /\ end \in ParserTable
             /\ section.kind = "action" =>
                  a \in Action /\ end.actions = Append(tab.actions, a) /\ end.services = tab.services
             /\ section.kind = "service" /\ section.name \notin Named(tab) =>
                  s \in Service /\ end.services = Append(tab.services, s) /\ end.actions = tab.actions
             /\ section.kind = "none" \/ (section.kind = "service" /\ section.name \in Named(tab)) =>
                  end = tab
<1> DEFINE end == finishCurrentSection(tab, section)
           s   == [name |-> section.name, classes |-> section.classes,
                   isDisabled |-> section.isDisabled]
           a   == [trigger |-> section.name, commands |-> section.commands]
<1>1. tab.actions \in Seq(Action) /\ tab.services \in Seq(Service) BY DEF ParserTable
<1>2. CASE section.kind = "action"
  <2>1. a \in Action BY <1>2, KindOf DEF Action
  <2>2. end = [tab EXCEPT !.actions = Append(tab.actions, a)]
    BY <1>2 DEF finishCurrentSection
  <2> HIDE DEF a
  <2>3. Append(tab.actions, a) \in Seq(Action) BY <1>1, <2>1
  <2> HIDE DEF end
  <2>4. end \in ParserTable /\ end.actions = Append(tab.actions, a) /\ end.services = tab.services
    BY <1>1, <2>2, <2>3 DEF ParserTable
  <2> QED BY <1>2, <2>1, <2>4 DEF end, a
<1>3. CASE section.kind = "service" /\ section.name \notin Named(tab)
  <2>1. s \in Service BY <1>3, KindOf DEF Service
  <2>2. end = [tab EXCEPT !.services = Append(tab.services, s)]
    BY <1>3 DEF finishCurrentSection, AddsService
  <2> HIDE DEF s
  <2>3. Append(tab.services, s) \in Seq(Service) BY <1>1, <2>1
  <2> HIDE DEF end
  <2>4. end \in ParserTable /\ end.services = Append(tab.services, s) /\ end.actions = tab.actions
    BY <1>1, <2>2, <2>3 DEF ParserTable
  <2> QED BY <1>3, <2>1, <2>4 DEF end, s
<1>4. CASE section.kind = "none" \/ (section.kind = "service" /\ section.name \in Named(tab))
  <2>1. end = tab BY <1>4 DEF finishCurrentSection
  <2> QED BY <1>4, <2>1
<1> QED BY <1>2, <1>3, <1>4, KindOf

LEMMA LineKinds ==
  ASSUME NEW line \in Line
  PROVE  /\ Len(line) \in Nat
         /\ \A i \in 1..Len(line) : line[i] \in Word
         /\ ~ IsBlank(line) => Len(line) >= 1
         /\ IsAction(line) => ~ IsBlank(line) /\ ~ IsService(line) /\ line[2] \in Word
         /\ IsService(line) => ~ IsBlank(line) /\ ~ IsAction(line) /\ line[2] \in Word
         /\ IsHeader(line) <=> IsAction(line) \/ IsService(line)
<1>1. Len(line) \in Nat /\ \A i \in 1..Len(line) : line[i] \in Word BY DEF Line
<1>2. line # <<>> => Len(line) >= 1 BY EmptySeq, <1>1 DEF Line
<1>3. Len(line) >= 2 => line # <<>> /\ line[2] \in Word BY <1>1
<1>4. ~ IsBlank(line) => Len(line) >= 1 BY <1>2 DEF IsBlank
<1>5. IsAction(line) => ~ IsBlank(line) /\ ~ IsService(line) /\ line[2] \in Word
  BY <1>3 DEF IsAction, IsService, IsBlank
<1>6. IsService(line) => ~ IsBlank(line) /\ ~ IsAction(line) /\ line[2] \in Word
  <2>1. IsService(line) => Len(line) >= 2 BY <1>1 DEF IsService
  <2> QED BY <1>3, <2>1 DEF IsAction, IsService, IsBlank
<1>7. IsHeader(line) <=> IsAction(line) \/ IsService(line) BY <1>5, <1>6 DEF IsHeader
<1> QED BY <1>1, <1>4, <1>5, <1>6, <1>7

LEMMA OpensSection ==
  ASSUME NEW line \in Line, IsHeader(line) PROVE Opened(line) \in Section
<1>1. line[2] \in Word /\ (IsAction(line) \/ IsService(line)) BY LineKinds
<1>2. CASE IsAction(line)
  <2>1. <<>> \in Seq(Line) BY EmptySeq
  <2> QED BY <1>1, <1>2, <2>1 DEF Opened, Section
<1>3. CASE ~ IsAction(line)
  <2>1. "main" \in Word BY CoreAssumption DEF CoreAssumption
  <2>2. <<"main">> \in Seq(Word) BY <2>1
  <2> QED BY <1>1, <1>3, <2>2 DEF Opened, Section
<1> QED BY <1>2, <1>3

\* What a line does to the section that is open.
LEMMA Directs ==
  ASSUME NEW section \in Section, NEW line \in Line, ~ IsBlank(line)
  PROVE  LET new == Directive(section, line)
         IN  /\ new \in Section
             /\ section.kind = "none" => new = section
             /\ section.kind = "action" =>
                  /\ new.kind = "action" /\ new.name = section.name
                  /\ new.commands = Append(section.commands, line)
             /\ section.kind = "service" =>
                  /\ new.kind = "service" /\ new.name = section.name
                  /\ new.classes = (IF line[1] = "class" /\ Len(line) >= 2 THEN Tail(line)
                                    ELSE section.classes)
                  /\ new.isDisabled = (section.isDisabled \/ line[1] = "disabled")
<1> DEFINE new == Directive(section, line)
<1>1. CASE section.kind = "none"
  <2>1. new = section BY <1>1 DEF Directive
  <2> QED BY <1>1, <2>1
<1>2. CASE section.kind = "action"
  <2>1. section \in [kind : {"action"}, name : Word, commands : Seq(Line)] BY <1>2, KindOf
  <2>2. Append(section.commands, line) \in Seq(Line) BY <2>1
  <2>3. new = [section EXCEPT !.commands = Append(section.commands, line)]
    BY <1>2 DEF Directive
  <2>4. new \in [kind : {"action"}, name : Word, commands : Seq(Line)]
    BY <2>1, <2>2, <2>3
  <2>5. /\ new.kind = "action" /\ new.name = section.name
        /\ new.commands = Append(section.commands, line)
    BY <2>1, <2>3
  <2>6. new \in Section BY <2>4 DEF Section
  <2> QED BY <1>2, <2>5, <2>6
<1>3. CASE section.kind = "service"
  <2> DEFINE Services3 == [kind : {"service"}, name : Word, classes : Seq(Word), isDisabled : BOOLEAN]
  <2>1. section \in Services3 BY <1>3, KindOf
  <2>2. CASE line[1] = "class" /\ Len(line) >= 2
    <3>1. Tail(line) \in Seq(Word)
      <4>1. line # <<>> BY <2>2, EmptySeq
      <4> QED BY <4>1, HeadTailProperties DEF Line
    <3>2. new = [section EXCEPT !.classes = Tail(line)] BY <1>3, <2>2 DEF Directive
    <3>3. new \in Services3 BY <2>1, <3>1, <3>2
    <3>4. /\ new.kind = "service" /\ new.name = section.name /\ new.classes = Tail(line)
          /\ new.isDisabled = section.isDisabled
      BY <2>1, <3>2
    <3>5. line[1] # "disabled" BY <2>2
    <3>6. new \in Section BY <3>3 DEF Section
    <3>7. new.isDisabled = (section.isDisabled \/ line[1] = "disabled") BY <2>1, <3>4, <3>5
    <3> QED BY <1>3, <2>2, <3>4, <3>6, <3>7
  <2>3. CASE ~ (line[1] = "class" /\ Len(line) >= 2) /\ line[1] = "disabled"
    <3>1. new = [section EXCEPT !.isDisabled = TRUE] BY <1>3, <2>3 DEF Directive
    <3>2. new \in Services3 BY <2>1, <3>1
    <3>3. /\ new.kind = "service" /\ new.name = section.name /\ new.classes = section.classes
          /\ new.isDisabled = TRUE
      BY <2>1, <3>1
    <3>4. new \in Section BY <3>2 DEF Section
    <3>5. new.isDisabled = (section.isDisabled \/ line[1] = "disabled") BY <2>1, <2>3, <3>3
    <3> QED BY <1>3, <2>3, <3>3, <3>4, <3>5
  <2>4. CASE ~ (line[1] = "class" /\ Len(line) >= 2) /\ line[1] # "disabled"
    <3>1. new = section BY <1>3, <2>4 DEF Directive
    <3>2. new.isDisabled = (section.isDisabled \/ line[1] = "disabled") BY <2>1, <2>4, <3>1
    <3> QED BY <1>3, <2>4, <3>1, <3>2
  <2> QED BY <2>2, <2>3, <2>4
<1> QED BY <1>1, <1>2, <1>3, KindOf

\* The three kinds of line.
LEMMA Reads ==
  ASSUME NEW parse \in Parse, NEW line \in Line
  PROVE  LET new == ReadsLine(parse, line)
         IN  /\ new \in Parse
             /\ IsBlank(line) => new = parse
             /\ IsHeader(line) =>
                  /\ new.table = finishCurrentSection(parse.table, parse.section)
                  /\ new.section = Opened(line)
             /\ ~ IsBlank(line) /\ ~ IsHeader(line) =>
                  new.table = parse.table /\ new.section = Directive(parse.section, line)
<1> DEFINE new == ReadsLine(parse, line)
<1>0. parse.table \in ParserTable /\ parse.section \in Section /\ DOMAIN parse = {"table", "section"}
  BY DEF Parse
<1>1. CASE IsBlank(line)
  <2>1. new = parse BY <1>1 DEF ReadsLine
  <2>2. ~ IsHeader(line) BY <1>1 DEF IsHeader
  <2> QED BY <1>1, <2>1, <2>2
<1>2. CASE IsHeader(line)
  <2>1. ~ IsBlank(line) /\ (IsAction(line) \/ IsService(line)) BY <1>2 DEF IsHeader
  <2>2. new = [table |-> finishCurrentSection(parse.table, parse.section),
               section |-> Opened(line)]
    BY <2>1 DEF ReadsLine
  <2>3. finishCurrentSection(parse.table, parse.section) \in ParserTable BY <1>0, Finishes
  <2>4. Opened(line) \in Section BY <1>2, OpensSection
  <2> QED BY <2>1, <2>2, <2>3, <2>4, <1>2 DEF Parse
<1>3. CASE ~ IsBlank(line) /\ ~ IsHeader(line)
  <2>1. ~ (IsAction(line) \/ IsService(line)) BY <1>3 DEF IsHeader
  <2>2. new = [parse EXCEPT !.section = Directive(parse.section, line)]
    BY <1>3, <2>1 DEF ReadsLine
  <2>3. Directive(parse.section, line) \in Section BY <1>0, <1>3, Directs
  <2>4. new.table = parse.table /\ new.section = Directive(parse.section, line) /\ new \in Parse
    BY <1>0, <2>2, <2>3 DEF Parse
  <2> QED BY <1>3, <2>4
<1> QED BY <1>1, <1>2, <1>3

\* The recursion of parseScriptContent.
LEMMA ParsesSteps ==
  ASSUME NEW tab \in ParserTable, NEW lines \in Seq(Line)
  PROVE  LET after == Parses(tab, lines)
         IN  /\ Len(lines) \in Nat
             /\ after[0] = [table |-> tab, section |-> NoSection]
             /\ \A n \in 0..Len(lines) : after[n] \in Parse
             /\ \A n \in 1..Len(lines) : lines[n] \in Line /\ after[n] = ReadsLine(after[n - 1], lines[n])
<1> DEFINE N == Len(lines)
           start == [table |-> tab, section |-> NoSection]
           next == [x \in (1..N) \X Parse |-> ReadsLine(x[2], lines[x[1]])]
           At(f) == [n \in 0..N |-> IF n = 0 THEN start ELSE ReadsLine(f[n - 1], lines[n])]
           after == Parses(tab, lines)
<1>1. N \in Nat /\ \A n \in 1..N : lines[n] \in Line BY LenProperties, ElementOfSeq
<1>2. start \in Parse BY DEF Parse, Section
<1>3. after = CHOOSE f : f = At(f) BY DEF Parses
<1> HIDE DEF N, after, start
<1>4. \A n \in 1..N, x \in Parse : ReadsLine(x, lines[n]) \in Parse BY <1>1, Reads
<1>5. next \in [(1..N) \X Parse -> Parse] BY <1>4
<1>6. \A n \in 1..N, x \in Parse : next[<<n, x>>] = ReadsLine(x, lines[n]) OBVIOUS
<1> HIDE DEF next
<1>7. PICK g \in [0..N -> Parse] : g[0] = start /\ \A n \in 1..N : g[n] = next[<<n, g[n - 1]>>]
  <2>1. \E g : Recurs(g, N, Parse, start, next) BY <1>1, <1>2, <1>5, Recursion
  <2> QED BY <2>1 DEF Recurs
<1>8. \A n \in 1..N : n - 1 \in 0..N /\ n \in 0..N /\ n # 0 BY <1>1
<1>9. \A n \in 1..N : g[n] = ReadsLine(g[n - 1], lines[n]) BY <1>6, <1>7, <1>8
<1>10. \A n \in 0..N : n = 0 \/ n \in 1..N BY <1>1
<1>11. \A n \in 0..N : g[n] = IF n = 0 THEN start ELSE ReadsLine(g[n - 1], lines[n])
  BY <1>7, <1>8, <1>9, <1>10
<1>12. g = At(g) BY <1>7, <1>11
<1> HIDE DEF At
<1>13. after = At(after) BY <1>3, <1>12
<1>14. after = [n \in 0..N |-> IF n = 0 THEN start ELSE ReadsLine(after[n - 1], lines[n])]
  BY <1>13 DEF At
<1>15. 0 \in 0..N BY <1>1
<1>16. after[0] = start BY <1>14, <1>15
<1>17. \A n \in 1..N : after[n] = ReadsLine(after[n - 1], lines[n]) BY <1>8, <1>14
<1> DEFINE T == {n \in Nat : n <= N => after[n] \in Parse}
<1>18. 0 \in T BY <1>2, <1>16
<1>19. ASSUME NEW n \in Nat, n \in T PROVE n + 1 \in T
  <2> SUFFICES ASSUME n + 1 <= N PROVE after[n + 1] \in Parse OBVIOUS
  <2>1. n <= N /\ n + 1 \in 1..N /\ (n + 1) - 1 = n BY <1>1
  <2>2. after[n] \in Parse BY <1>19, <2>1
  <2>3. after[n + 1] = ReadsLine(after[n], lines[n + 1]) BY <1>17, <2>1
  <2> QED BY <1>4, <2>1, <2>2, <2>3
<1>20. \A n \in 0..N : n \in T
  <2> HIDE DEF T
  <2> QED BY <1>1, <1>18, <1>19, Induction
<1>21. \A n \in 0..N : after[n] \in Parse BY <1>1, <1>20
<1> QED BY <1>1, <1>16, <1>17, <1>21 DEF N, after, start

-----------------------------------------------------------------------------
(* What a section has to say, once the lines B below its header have been read. *)

LinesIn(lines, B)    == {lines[i] : i \in B}
ClassLines(lines, B) == {i \in B : lines[i][1] = "class" /\ Len(lines[i]) >= 2}
ClassesIn(lines, B)  ==
  IF ClassLines(lines, B) = {} THEN {"main"} ELSE ToSet(Tail(lines[Max(ClassLines(lines, B))]))
DisabledIn(lines, B) == \E i \in B : lines[i][1] = "disabled"

Describes(section, lines, h, B) ==
  /\ section.name = lines[h][2]
  /\ IsAction(lines[h]) =>
       section.kind = "action" /\ ToSet(section.commands) = LinesIn(lines, B)
  /\ IsService(lines[h]) =>
       /\ section.kind = "service" /\ ToSet(section.classes) = ClassesIn(lines, B)
       /\ section.isDisabled = DisabledIn(lines, B)

LEMMA AppendIs ==
  ASSUME NEW S, NEW s \in Seq(S), NEW x \in S
  PROVE  /\ Len(s) \in Nat /\ DOMAIN s = 1..Len(s)
         /\ Append(s, x) \in Seq(S)
         /\ DOMAIN Append(s, x) = DOMAIN s \cup {Len(s) + 1}
         /\ \A i \in DOMAIN s : Append(s, x)[i] = s[i]
         /\ Append(s, x)[Len(s) + 1] = x
         /\ ToSet(Append(s, x)) = ToSet(s) \cup {x}
<1> DEFINE n == Len(s)
           t == Append(s, x)
<1>1. n \in Nat /\ DOMAIN s = 1..n BY LenProperties
<1>2. /\ t \in Seq(S) /\ Len(t) = n + 1 /\ t[n + 1] = x
      /\ \A i \in 1..n : t[i] = s[i]
  BY AppendProperties
<1>3. DOMAIN t = 1..(n + 1) BY <1>2, LenProperties
<1> HIDE DEF n, t
<1>4. 1..(n + 1) = 1..n \cup {n + 1} BY <1>1
<1>5. DOMAIN t = DOMAIN s \cup {n + 1} BY <1>1, <1>3, <1>4
<1>6. ToSet(t) = ToSet(s) \cup {x}
  <2>1. \A i \in DOMAIN t : (i \in DOMAIN s /\ t[i] = s[i]) \/ t[i] = x BY <1>1, <1>2, <1>5
  <2>2. \A i \in DOMAIN s : i \in DOMAIN t /\ t[i] = s[i] BY <1>1, <1>2, <1>5
  <2>3. n + 1 \in DOMAIN t /\ t[n + 1] = x BY <1>2, <1>5
  <2>4. ASSUME NEW y \in ToSet(t) PROVE y \in ToSet(s) \cup {x} BY <2>1 DEF ToSet
  <2>5. ASSUME NEW y \in ToSet(s) \cup {x} PROVE y \in ToSet(t) BY <2>2, <2>3 DEF ToSet
  <2> QED BY <2>4, <2>5
<1> QED BY <1>1, <1>2, <1>5, <1>6 DEF n, t

LEMMA GreatestIs ==
  ASSUME NEW S, S \subseteq Nat, NEW x \in S, \A y \in S : y <= x
  PROVE  Max(S) = x
<1>1. \A z \in S : (\A y \in S : z >= y) => z = x BY SMT
<1>2. \A y \in S : x >= y BY SMT
<1> QED BY <1>1, <1>2 DEF Max

\* Below a header nothing has been said.
LEMMA OpensOn ==
  ASSUME NEW lines \in Seq(Line), NEW h \in 1..Len(lines), IsHeader(lines[h])
  PROVE  Opened(lines[h]) \in Section /\ Describes(Opened(lines[h]), lines, h, {})
<1>1. lines[h] \in Line BY ElementOfSeq
<1>2. Opened(lines[h]) \in Section BY <1>1, OpensSection
<1>3. IsAction(lines[h]) => ~ IsService(lines[h]) BY <1>1, LineKinds
<1>4. IsAction(lines[h]) \/ IsService(lines[h]) BY <1>1, LineKinds
<1>5. ToSet(<<>>) = {} /\ LinesIn(lines, {}) = {} BY DEF ToSet, LinesIn
<1>6. ToSet(<<"main">>) = {"main"} BY DEF ToSet
<1>7. ClassesIn(lines, {}) = {"main"} BY DEF ClassesIn, ClassLines
<1>8. DisabledIn(lines, {}) = FALSE BY DEF DisabledIn
<1>9. CASE IsAction(lines[h])
  <2>1. Opened(lines[h]) = [kind |-> "action", name |-> lines[h][2], commands |-> <<>>]
    BY <1>9 DEF Opened
  <2>2. PICK new : new = Opened(lines[h]) OBVIOUS
  <2>3. new.kind = "action" /\ new.name = lines[h][2] /\ new.commands = <<>> BY <2>1, <2>2
  <2>4. ToSet(new.commands) = LinesIn(lines, {}) BY <1>5, <2>3
  <2>5. Describes(new, lines, h, {}) BY <1>3, <1>9, <2>3, <2>4 DEF Describes
  <2> QED BY <1>2, <2>2, <2>5
<1>10. CASE IsService(lines[h])
  <2>1. Opened(lines[h]) = [kind |-> "service", name |-> lines[h][2], classes |-> <<"main">>,
                            isDisabled |-> FALSE]
    BY <1>3, <1>10 DEF Opened
  <2>2. PICK new : new = Opened(lines[h]) OBVIOUS
  <2>3. /\ new.kind = "service" /\ new.name = lines[h][2] /\ new.classes = <<"main">>
        /\ new.isDisabled = FALSE
    BY <2>1, <2>2
  <2>4. ToSet(new.classes) = ClassesIn(lines, {}) BY <1>6, <1>7, <2>3
  <2>5. new.isDisabled = DisabledIn(lines, {}) BY <1>8, <2>3
  <2>6. Describes(new, lines, h, {}) BY <1>3, <1>10, <2>3, <2>4, <2>5 DEF Describes
  <2> QED BY <1>2, <2>2, <2>6
<1> QED BY <1>4, <1>9, <1>10

\* One more line that opens no section has been read.
LEMMA DirectsOn ==
  ASSUME NEW lines \in Seq(Line), NEW h \in 1..Len(lines), IsHeader(lines[h]),
         NEW n \in 0..Len(lines) - 1, NEW B, B \subseteq 1..n,
         NEW section \in Section, Describes(section, lines, h, B),
         ~ IsBlank(lines[n + 1])
  PROVE  /\ Directive(section, lines[n + 1]) \in Section
         /\ Describes(Directive(section, lines[n + 1]), lines, h, B \cup {n + 1})
<1> DEFINE m == n + 1
           C == B \cup {m}
           line == lines[m]
           new == Directive(section, line)
<1>1. n \in Nat /\ m \in Nat /\ m \in 1..Len(lines) /\ \A i \in B : i \in Nat /\ i < m
  <2>1. Len(lines) \in Nat BY LenProperties
  <2> QED BY <2>1
<1>2. line \in Line /\ lines[h] \in Line BY <1>1, ElementOfSeq
<1>3. IsAction(lines[h]) => ~ IsService(lines[h]) BY <1>2, LineKinds
<1>4. IsAction(lines[h]) \/ IsService(lines[h]) BY <1>2, LineKinds
<1>5. ~ IsBlank(line) OBVIOUS
<1> HIDE DEF m, line
<1>6. CASE IsAction(lines[h])
  <2>1. section.kind = "action" /\ section.name = lines[h][2]
        /\ ToSet(section.commands) = LinesIn(lines, B)
    BY <1>6 DEF Describes
  <2>2. /\ new \in Section /\ new.kind = "action" /\ new.name = section.name
        /\ new.commands = Append(section.commands, line)
    BY <1>2, <1>5, <2>1, Directs
  <2> HIDE DEF new
  <2>3. section.commands \in Seq(Line) BY <2>1, KindOf
  <2>4. ToSet(new.commands) = ToSet(section.commands) \cup {line} BY <1>2, <2>2, <2>3, AppendIs
  <2>5. LinesIn(lines, C) = LinesIn(lines, B) \cup {line} BY DEF LinesIn, line
  <2>6. Describes(new, lines, h, C) BY <1>3, <1>6, <2>1, <2>2, <2>4, <2>5 DEF Describes
  <2> QED BY <2>2, <2>6 DEF new, line, m
<1>7. CASE IsService(lines[h])
  <2>1. /\ section.kind = "service" /\ section.name = lines[h][2]
        /\ ToSet(section.classes) = ClassesIn(lines, B)
        /\ section.isDisabled = DisabledIn(lines, B)
    BY <1>7 DEF Describes
  <2>2. /\ new \in Section /\ new.kind = "service" /\ new.name = section.name
        /\ new.classes = (IF line[1] = "class" /\ Len(line) >= 2 THEN Tail(line)
                          ELSE section.classes)
        /\ new.isDisabled = (section.isDisabled \/ line[1] = "disabled")
    BY <1>2, <1>5, <2>1, Directs
  <2> HIDE DEF new
  <2>3. DisabledIn(lines, C) = (DisabledIn(lines, B) \/ line[1] = "disabled")
    BY DEF DisabledIn, line
  <2>4. new.isDisabled = DisabledIn(lines, C) BY <2>1, <2>2, <2>3
  <2>5. ToSet(new.classes) = ClassesIn(lines, C)
    <3>1. CASE line[1] = "class" /\ Len(line) >= 2
      <4>1. ClassLines(lines, C) = ClassLines(lines, B) \cup {m} BY <3>1 DEF ClassLines, line
      <4>2. ClassLines(lines, B) \subseteq B BY DEF ClassLines
      <4>3. Max(ClassLines(lines, C)) = m
        <5>1. ClassLines(lines, C) \subseteq Nat BY <1>1, <4>1, <4>2
        <5>2. ASSUME NEW y \in ClassLines(lines, C) PROVE y <= m
          <6>1. y = m \/ y \in B BY <4>1, <4>2
          <6>2. y = m => y <= m BY <1>1
          <6>3. y \in B => y <= m BY <1>1
          <6> QED BY <6>1, <6>2, <6>3
        <5>3. m \in ClassLines(lines, C) BY <4>1
        <5> QED BY <5>1, <5>2, <5>3, GreatestIs
      <4>4. ClassLines(lines, C) # {} BY <4>1
      <4>5. ClassesIn(lines, C) = ToSet(Tail(line)) BY <4>3, <4>4 DEF ClassesIn, line
      <4> QED BY <2>2, <3>1, <4>5
    <3>2. CASE ~ (line[1] = "class" /\ Len(line) >= 2)
      <4>1. ClassLines(lines, C) = ClassLines(lines, B) BY <3>2 DEF ClassLines, line
      <4>2. ClassesIn(lines, C) = ClassesIn(lines, B) BY <4>1 DEF ClassesIn
      <4> QED BY <2>1, <2>2, <3>2, <4>2
    <3> QED BY <3>1, <3>2
  <2>6. Describes(new, lines, h, C) BY <1>3, <1>7, <2>1, <2>2, <2>4, <2>5 DEF Describes
  <2> QED BY <2>2, <2>6 DEF new, line, m
<1> QED BY <1>4, <1>6, <1>7

-----------------------------------------------------------------------------
(* A table that holds what stands before the place p of the scripts, and no more. *)

NameAt(scripts, a)    == LineAt(scripts, a)[2]
ClassesAt(scripts, a) == ClassesIn(scripts[a[1]], Body(scripts[a[1]], a[2]))
DisabledAt(scripts, a) == DisabledIn(scripts[a[1]], Body(scripts[a[1]], a[2]))

ServicesBefore(scripts, p) ==
  {a \in Spots(scripts) : Before(a, p) /\ IsService(LineAt(scripts, a))}
ActionsBefore(scripts, p) ==
  {a \in Spots(scripts) : Before(a, p) /\ IsAction(LineAt(scripts, a))}

\* The definition of a service that counts.
Counts(scripts, a, p) ==
  /\ a \in ServicesBefore(scripts, p)
  /\ \A b \in ServicesBefore(scripts, p) :
       NameAt(scripts, b) = NameAt(scripts, a) /\ b # a => Before(a, b)

AsDefined(scripts, s, a) ==
  /\ s.name = NameAt(scripts, a) /\ ToSet(s.classes) = ClassesAt(scripts, a)
  /\ s.isDisabled = DisabledAt(scripts, a)

Distinct(tab) ==
  \A i, j \in DOMAIN tab.services : tab.services[i].name = tab.services[j].name => i = j
ActionPairs(tab) ==
  {<<tab.actions[i].trigger, ToSet(tab.actions[i].commands)>> : i \in DOMAIN tab.actions}

Holds(tab, scripts, p) ==
  /\ tab \in ParserTable /\ Distinct(tab)
  /\ Named(tab) = {NameAt(scripts, a) : a \in ServicesBefore(scripts, p)}
  /\ \A i \in DOMAIN tab.services :
       \E a : Counts(scripts, a, p) /\ AsDefined(scripts, tab.services[i], a)
  /\ ActionPairs(tab) =
       {<<NameAt(scripts, a), BodyAt(scripts, a)>> : a \in ActionsBefore(scripts, p)}

\* Of the headers before the place q the one at c is the last.
NextPlace(scripts, c, q) ==
  /\ c \in Spots(scripts) /\ IsHeader(LineAt(scripts, c))
  /\ \A a \in Spots(scripts) : IsHeader(LineAt(scripts, a)) => (Before(a, q) <=> Before(a, c) \/ a = c)

\* The section whose header is at c has been read to its end.
Complete(section, scripts, c) ==
  /\ section \in Section
  /\ Describes(section, scripts[c[1]], c[2], Body(scripts[c[1]], c[2]))

LEMMA SpotIs ==
  ASSUME NEW scripts \in Seq(Seq(Line)), NEW a \in Spots(scripts)
  PROVE  /\ a = <<a[1], a[2]>> /\ a[1] \in DOMAIN scripts /\ a[2] \in DOMAIN scripts[a[1]]
         /\ a[1] \in Nat /\ a[2] \in Nat /\ scripts[a[1]] \in Seq(Line)
         /\ LineAt(scripts, a) \in Line
<1>1. \E k \in DOMAIN scripts : a \in {k} \X DOMAIN scripts[k] BY DEF Spots
<1>2. a = <<a[1], a[2]>> /\ a[1] \in DOMAIN scripts /\ a[2] \in DOMAIN scripts[a[1]] BY <1>1
<1>3. a[1] \in Nat /\ scripts[a[1]] \in Seq(Line) BY <1>2, LenProperties, ElementOfSeq
<1>4. a[2] \in Nat /\ LineAt(scripts, a) \in Line
  <2>1. PICK lines \in Seq(Line) : lines = scripts[a[1]] BY <1>3
  <2>2. a[2] \in 1..Len(lines) /\ Len(lines) \in Nat BY <1>2, <2>1, LenProperties
  <2>3. lines[a[2]] \in Line BY <2>2, ElementOfSeq
  <2> QED BY <2>1, <2>2, <2>3 DEF LineAt
<1> QED BY <1>2, <1>3, <1>4

LEMMA NotBeforeItself ==
  ASSUME NEW scripts \in Seq(Seq(Line)), NEW a \in Spots(scripts), NEW b \in Spots(scripts)
  PROVE  ~ (Before(a, b) /\ Before(b, a)) /\ ~ Before(a, a)
<1>1. a[1] \in Nat /\ a[2] \in Nat /\ b[1] \in Nat /\ b[2] \in Nat BY SpotIs
<1> QED BY <1>1 DEF Before

\* What a place further on adds.
LEMMA PlaceGoesOn ==
  ASSUME NEW scripts \in Seq(Seq(Line)), NEW c, NEW q, NextPlace(scripts, c, q)
  PROVE  /\ c \in Spots(scripts) /\ LineAt(scripts, c) \in Line
         /\ IsAction(LineAt(scripts, c)) =>
              /\ ServicesBefore(scripts, q) = ServicesBefore(scripts, c)
              /\ ActionsBefore(scripts, q) = ActionsBefore(scripts, c) \cup {c}
         /\ IsService(LineAt(scripts, c)) =>
              /\ ServicesBefore(scripts, q) = ServicesBefore(scripts, c) \cup {c}
              /\ ActionsBefore(scripts, q) = ActionsBefore(scripts, c)
<1>1. c \in Spots(scripts) /\ LineAt(scripts, c) \in Line BY SpotIs DEF NextPlace
<1>2. IsAction(LineAt(scripts, c)) => ~ IsService(LineAt(scripts, c)) BY <1>1, LineKinds
<1>3. ASSUME NEW a \in Spots(scripts), IsAction(LineAt(scripts, a)) \/ IsService(LineAt(scripts, a))
      PROVE  Before(a, q) <=> Before(a, c) \/ a = c
  <2>1. LineAt(scripts, a) \in Line BY SpotIs
  <2>2. IsHeader(LineAt(scripts, a)) BY <1>3, <2>1, LineKinds
  <2> QED BY <2>2 DEF NextPlace
<1>4. \A a : a \in ServicesBefore(scripts, q) <=>
               a \in ServicesBefore(scripts, c) \/ (a = c /\ IsService(LineAt(scripts, c)))
  BY <1>1, <1>3 DEF ServicesBefore
<1>5. \A a : a \in ActionsBefore(scripts, q) <=>
               a \in ActionsBefore(scripts, c) \/ (a = c /\ IsAction(LineAt(scripts, c)))
  BY <1>1, <1>3 DEF ActionsBefore
<1> QED BY <1>1, <1>2, <1>4, <1>5

\* An action ends.
LEMMA ActionEnds ==
  ASSUME NEW scripts \in Seq(Seq(Line)), NEW c, NEW q, NextPlace(scripts, c, q),
         IsAction(LineAt(scripts, c)), NEW tab, Holds(tab, scripts, c),
         NEW section, Complete(section, scripts, c)
  PROVE  Holds(finishCurrentSection(tab, section), scripts, q)
<1> DEFINE end == finishCurrentSection(tab, section)
           a == [trigger |-> section.name, commands |-> section.commands]
<1>1. /\ c \in Spots(scripts)
      /\ ServicesBefore(scripts, q) = ServicesBefore(scripts, c)
      /\ ActionsBefore(scripts, q) = ActionsBefore(scripts, c) \cup {c}
  BY PlaceGoesOn
<1>2. tab \in ParserTable /\ tab.actions \in Seq(Action) BY DEF Holds, ParserTable
<1>3. /\ section.kind = "action" /\ section.name = NameAt(scripts, c)
      /\ ToSet(section.commands) = BodyAt(scripts, c)
  BY DEF Complete, Describes, LineAt, NameAt, BodyAt, LinesIn
<1>4. /\ end \in ParserTable /\ a \in Action
      /\ end.actions = Append(tab.actions, a) /\ end.services = tab.services
  BY <1>2, <1>3, Finishes DEF Complete
<1>5. a.trigger = NameAt(scripts, c) /\ ToSet(a.commands) = BodyAt(scripts, c) BY <1>3
<1> HIDE DEF end, a
<1>6. Distinct(end) /\ Named(end) = Named(tab) BY <1>4 DEF Holds, Distinct, Named
<1>7. Named(end) = {NameAt(scripts, b) : b \in ServicesBefore(scripts, q)}
  BY <1>1, <1>6 DEF Holds
<1>8. ASSUME NEW i \in DOMAIN end.services
      PROVE  \E b : Counts(scripts, b, q) /\ AsDefined(scripts, end.services[i], b)
  <2>1. PICK b : Counts(scripts, b, c) /\ AsDefined(scripts, tab.services[i], b)
    BY <1>4, <1>8 DEF Holds
  <2>2. Counts(scripts, b, q) BY <1>1, <2>1 DEF Counts
  <2> QED BY <1>4, <2>1, <2>2
<1>9. ActionPairs(end) = ActionPairs(tab) \cup {<<NameAt(scripts, c), BodyAt(scripts, c)>>}
  <2> DEFINE s == tab.actions
             t == end.actions
  <2>1. /\ DOMAIN t = DOMAIN s \cup {Len(s) + 1} /\ t[Len(s) + 1] = a
        /\ \A i \in DOMAIN s : t[i] = s[i]
    BY <1>2, <1>4, AppendIs
  <2>2. ActionPairs(end) = {<<t[i].trigger, ToSet(t[i].commands)>> : i \in DOMAIN t}
    BY DEF ActionPairs
  <2>3. ActionPairs(tab) = {<<s[i].trigger, ToSet(s[i].commands)>> : i \in DOMAIN s}
    BY DEF ActionPairs
  <2> HIDE DEF s, t
  <2>4. <<t[Len(s) + 1].trigger, ToSet(t[Len(s) + 1].commands)>>
          = <<NameAt(scripts, c), BodyAt(scripts, c)>>
    BY <1>5, <2>1
  <2> QED BY <2>1, <2>2, <2>3, <2>4
<1>10. ActionPairs(end) =
         {<<NameAt(scripts, b), BodyAt(scripts, b)>> : b \in ActionsBefore(scripts, q)}
  <2>1. ActionPairs(tab) =
          {<<NameAt(scripts, b), BodyAt(scripts, b)>> : b \in ActionsBefore(scripts, c)}
    BY DEF Holds
  <2> QED BY <1>1, <1>9, <2>1
<1> QED BY <1>4, <1>6, <1>7, <1>8, <1>10 DEF Holds, end

\* A service's section ends: its definition counts if it is the first one.
LEMMA ServiceEnds ==
  ASSUME NEW scripts \in Seq(Seq(Line)), NEW c, NEW q, NextPlace(scripts, c, q),
         IsService(LineAt(scripts, c)), NEW tab, Holds(tab, scripts, c),
         NEW section, Complete(section, scripts, c)
  PROVE  Holds(finishCurrentSection(tab, section), scripts, q)
<1> DEFINE end == finishCurrentSection(tab, section)
           new == [name |-> section.name, classes |-> section.classes,
                   isDisabled |-> section.isDisabled]
<1>1. /\ c \in Spots(scripts)
      /\ ServicesBefore(scripts, q) = ServicesBefore(scripts, c) \cup {c}
      /\ ActionsBefore(scripts, q) = ActionsBefore(scripts, c)
  BY PlaceGoesOn
<1>2. tab \in ParserTable /\ tab.services \in Seq(Service) BY DEF Holds, ParserTable
<1>3. /\ section.kind = "service" /\ section.name = NameAt(scripts, c)
      /\ ToSet(section.classes) = ClassesAt(scripts, c)
      /\ section.isDisabled = DisabledAt(scripts, c)
  BY DEF Complete, Describes, LineAt, NameAt, ClassesAt, DisabledAt
<1>4. Named(tab) = {NameAt(scripts, b) : b \in ServicesBefore(scripts, c)} BY DEF Holds
<1>5. ASSUME NEW b, Counts(scripts, b, c) PROVE Counts(scripts, b, q)
  <2>1. Before(b, c) BY <1>5 DEF Counts, ServicesBefore
  <2> QED BY <1>1, <1>5, <2>1 DEF Counts
<1>6. ASSUME NEW i \in DOMAIN tab.services
      PROVE  \E b : Counts(scripts, b, q) /\ AsDefined(scripts, tab.services[i], b)
  <2>1. PICK b : Counts(scripts, b, c) /\ AsDefined(scripts, tab.services[i], b)
    BY <1>6 DEF Holds
  <2> QED BY <1>5, <2>1
<1>7. Complete(section, scripts, c) => section \in Section BY DEF Complete
<1>8. {NameAt(scripts, b) : b \in ServicesBefore(scripts, q)} = Named(tab) \cup {section.name}
  BY <1>1, <1>3, <1>4
<1>9. CASE section.name \in Named(tab)
  <2>1. end = tab BY <1>2, <1>3, <1>7, <1>9, Finishes
  <2>2. Named(tab) = {NameAt(scripts, b) : b \in ServicesBefore(scripts, q)} BY <1>8, <1>9
  <2>3. ActionPairs(tab) =
          {<<NameAt(scripts, b), BodyAt(scripts, b)>> : b \in ActionsBefore(scripts, q)}
    BY <1>1 DEF Holds
  <2>4. Distinct(tab) BY DEF Holds
  <2>5. Holds(tab, scripts, q) BY <1>2, <1>6, <2>2, <2>3, <2>4 DEF Holds
  <2> QED BY <2>1, <2>5
<1>10. CASE section.name \notin Named(tab)
  <2>1. /\ end \in ParserTable /\ new \in Service
        /\ end.services = Append(tab.services, new) /\ end.actions = tab.actions
    BY <1>2, <1>3, <1>7, <1>10, Finishes
  <2>2. new.name = NameAt(scripts, c) /\ AsDefined(scripts, new, c) BY <1>3 DEF AsDefined
  <2> HIDE DEF end, new
  <2> DEFINE s == tab.services
             t == end.services
             n == Len(s) + 1
  <2>3. DOMAIN t = DOMAIN s \cup {n} /\ t[n] = new /\ \A i \in DOMAIN s : t[i] = s[i]
    BY <1>2, <2>1, AppendIs
  <2>4. Named(end) = {t[i].name : i \in DOMAIN t} /\ Named(tab) = {s[i].name : i \in DOMAIN s}
    BY DEF Named
  <2>5. \A i, j \in DOMAIN s : s[i].name = s[j].name => i = j BY DEF Holds, Distinct
  <2> HIDE DEF s, t, n
  <2>6. \A i \in DOMAIN s : t[i].name # new.name
    <3>1. \A i \in DOMAIN s : s[i].name \in Named(tab) BY <2>4
    <3>2. new.name \notin Named(tab) BY <1>3, <1>10, <2>2
    <3> QED BY <2>3, <3>1, <3>2
  <2>7. \A i, j \in DOMAIN t : t[i].name = t[j].name => i = j
    <3> SUFFICES ASSUME NEW i \in DOMAIN t, NEW j \in DOMAIN t, t[i].name = t[j].name PROVE i = j
      OBVIOUS
    <3>1. CASE i \in DOMAIN s /\ j \in DOMAIN s
      <4>1. s[i].name = s[j].name BY <2>3, <3>1
      <4> QED BY <2>5, <3>1, <4>1
    <3>2. CASE ~ (i \in DOMAIN s /\ j \in DOMAIN s) BY <2>3, <2>6, <3>2
    <3> QED BY <3>1, <3>2
  <2>8. Distinct(end) BY <2>7 DEF Distinct, t
  <2>9. Named(end) = {NameAt(scripts, b) : b \in ServicesBefore(scripts, q)}
    <3>1. Named(end) = Named(tab) \cup {new.name} BY <2>3, <2>4
    <3> QED BY <1>3, <1>8, <2>2, <3>1
  <2>10. Counts(scripts, c, q)
    <3>1. ASSUME NEW b \in ServicesBefore(scripts, q), NameAt(scripts, b) = NameAt(scripts, c), b # c
          PROVE  FALSE
      <4>1. b \in ServicesBefore(scripts, c) BY <1>1, <3>1
      <4>2. NameAt(scripts, c) \in Named(tab) BY <1>4, <3>1, <4>1
      <4> QED BY <1>3, <1>10, <4>2
    <3> QED BY <1>1, <3>1 DEF Counts
  <2>11. ASSUME NEW i \in DOMAIN t
         PROVE  \E b : Counts(scripts, b, q) /\ AsDefined(scripts, t[i], b)
    <3>1. CASE i \in DOMAIN s
      <4>1. t[i] = s[i] BY <2>3, <3>1
      <4> QED BY <1>6, <3>1, <4>1 DEF s
    <3>2. CASE i \notin DOMAIN s
      <4>1. t[i] = new BY <2>3, <3>2
      <4> QED BY <2>2, <2>10, <4>1
    <3> QED BY <3>1, <3>2
  <2>12. ActionPairs(end) =
           {<<NameAt(scripts, b), BodyAt(scripts, b)>> : b \in ActionsBefore(scripts, q)}
    BY <1>1, <2>1 DEF Holds, ActionPairs
  <2> QED BY <2>1, <2>8, <2>9, <2>11, <2>12 DEF Holds, end, t
<1> QED BY <1>9, <1>10

LEMMA SectionEnds ==
  ASSUME NEW scripts \in Seq(Seq(Line)), NEW c, NEW q, NextPlace(scripts, c, q),
         NEW tab, Holds(tab, scripts, c), NEW section, Complete(section, scripts, c)
  PROVE  Holds(finishCurrentSection(tab, section), scripts, q)
<1>1. LineAt(scripts, c) \in Line BY SpotIs DEF NextPlace
<1>2. IsAction(LineAt(scripts, c)) \/ IsService(LineAt(scripts, c)) BY <1>1, LineKinds DEF NextPlace
<1> QED BY <1>2, ActionEnds, ServiceEnds

-----------------------------------------------------------------------------
(* parseScriptContent: what the table and the section hold after n lines of the k-th script. *)

Below(lines, h, n) == {i \in h + 1 .. n : ~ IsBlank(lines[i])}

ReadTo(parse, scripts, k, n, h) ==
  /\ h \in 0..n /\ \A j \in h + 1 .. n : ~ IsHeader(scripts[k][j])
  /\ Holds(parse.table, scripts, <<k, h>>)
  /\ h = 0 => parse.section = NoSection
  /\ h # 0 => /\ IsHeader(scripts[k][h])
              /\ Describes(parse.section, scripts[k], h, Below(scripts[k], h, n))

\* The place q is behind the first n lines of the k-th script and before the next header.
Behind(scripts, k, n, q) ==
  \A a \in Spots(scripts) :
    IsHeader(LineAt(scripts, a)) => (Before(a, q) <=> a[1] < k \/ (a[1] = k /\ a[2] <= n))

\* With the n-th line a section ends.
LastLine(lines, n) == n = Len(lines) \/ (n < Len(lines) /\ IsHeader(lines[n + 1]))

LEMMA SamePlace ==
  ASSUME NEW scripts \in Seq(Seq(Line)), NEW tab, NEW p, NEW q, Holds(tab, scripts, p),
         \A a \in Spots(scripts) : IsHeader(LineAt(scripts, a)) => (Before(a, q) <=> Before(a, p))
  PROVE  Holds(tab, scripts, q)
<1>1. ASSUME NEW a \in Spots(scripts), IsAction(LineAt(scripts, a)) \/ IsService(LineAt(scripts, a))
      PROVE  Before(a, q) <=> Before(a, p)
  <2>1. LineAt(scripts, a) \in Line BY SpotIs
  <2>2. IsHeader(LineAt(scripts, a)) BY <1>1, <2>1, LineKinds
  <2> QED BY <2>2
<1>2. ServicesBefore(scripts, q) = ServicesBefore(scripts, p) BY <1>1 DEF ServicesBefore
<1>3. ActionsBefore(scripts, q) = ActionsBefore(scripts, p) BY <1>1 DEF ActionsBefore
<1>4. \A a : Counts(scripts, a, q) <=> Counts(scripts, a, p) BY <1>2 DEF Counts
<1> QED BY <1>2, <1>3, <1>4 DEF Holds

LEMMA BodyIs ==
  ASSUME NEW lines \in Seq(Line), NEW n \in 0..Len(lines), NEW h \in 0..n,
         \A j \in h + 1 .. n : ~ IsHeader(lines[j]), LastLine(lines, n)
  PROVE  Body(lines, h) = Below(lines, h, n)
<1> DEFINE N == Len(lines)
<1>1. N \in Nat /\ n \in Nat /\ h \in Nat /\ n <= N BY LenProperties
<1>2. n = N \/ (n < N /\ IsHeader(lines[n + 1])) BY DEF LastLine
<1>3. Body(lines, h) =
        {i \in h + 1 .. N : ~ IsBlank(lines[i]) /\ \A j \in h + 1 .. i : ~ IsHeader(lines[j])}
  BY DEF Body
<1> HIDE DEF N
<1>4. ASSUME NEW i \in Body(lines, h) PROVE i \in Below(lines, h, n)
  <2>1. /\ i \in h + 1 .. N /\ ~ IsBlank(lines[i])
        /\ \A j \in h + 1 .. i : ~ IsHeader(lines[j])
    BY <1>3
  <2>2. i <= n
    <3> SUFFICES ASSUME ~ (i <= n) PROVE FALSE OBVIOUS
    <3>1. n < N /\ IsHeader(lines[n + 1]) BY <1>1, <1>2, <2>1
    <3>2. n + 1 \in h + 1 .. i BY <1>1, <2>1
    <3> QED BY <2>1, <3>1, <3>2
  <2>3. i \in h + 1 .. n BY <1>1, <2>1, <2>2
  <2> QED BY <2>1, <2>3 DEF Below
<1>5. ASSUME NEW i \in Below(lines, h, n) PROVE i \in Body(lines, h)
  <2>1. i \in h + 1 .. n /\ ~ IsBlank(lines[i]) BY DEF Below
  <2>2. i \in h + 1 .. N /\ \A j \in h + 1 .. i : j \in h + 1 .. n BY <1>1, <2>1
  <2>3. \A j \in h + 1 .. i : ~ IsHeader(lines[j]) BY <2>2
  <2> QED BY <1>3, <2>1, <2>2, <2>3
<1> QED BY <1>4, <1>5

\* The section that is open ends, at the next header or at the end of the script.
LEMMA OpenEnds ==
  ASSUME NEW scripts \in Seq(Seq(Line)), NEW k \in DOMAIN scripts,
         NEW n \in 0..Len(scripts[k]), LastLine(scripts[k], n),
         NEW parse \in Parse, NEW h, ReadTo(parse, scripts, k, n, h),
         NEW q, Behind(scripts, k, n, q)
  PROVE  Holds(finishCurrentSection(parse.table, parse.section), scripts, q)
<1>1. PICK lines \in Seq(Line) : lines = scripts[k] BY LenProperties, ElementOfSeq
<1>2. k \in Nat /\ Len(lines) \in Nat /\ n \in 0..Len(lines) /\ DOMAIN lines = 1..Len(lines)
  BY <1>1, LenProperties
<1>3. /\ h \in 0..n /\ \A j \in h + 1 .. n : ~ IsHeader(lines[j])
      /\ Holds(parse.table, scripts, <<k, h>>)
      /\ h = 0 => parse.section = NoSection
      /\ h # 0 => IsHeader(lines[h]) /\ Describes(parse.section, lines, h, Below(lines, h, n))
  BY <1>1 DEF ReadTo
<1> DEFINE p == <<k, h>>
<1>4. parse.table \in ParserTable /\ parse.section \in Section BY DEF Parse
<1>5. ASSUME NEW a \in Spots(scripts), IsHeader(LineAt(scripts, a)), a[1] = k, a[2] <= n
      PROVE  a[2] <= h
  <2>1. a[2] \in 1..Len(lines) /\ a[2] \in Nat BY <1>1, <1>2, <1>5, SpotIs
  <2>2. IsHeader(lines[a[2]]) BY <1>1, <1>5 DEF LineAt
  <2>3. ~ (a[2] \in h + 1 .. n) BY <1>3, <2>2
  <2> QED BY <1>2, <1>3, <1>5, <2>1, <2>3
<1>6. \A a \in Spots(scripts) : a[1] \in Nat /\ a[2] \in Nat /\ a[2] >= 1 /\ a = <<a[1], a[2]>>
  <2> SUFFICES ASSUME NEW a \in Spots(scripts)
               PROVE  a[1] \in Nat /\ a[2] \in Nat /\ a[2] >= 1 /\ a = <<a[1], a[2]>>
    OBVIOUS
  <2>1. a[1] \in Nat /\ a[2] \in Nat /\ a = <<a[1], a[2]>> /\ scripts[a[1]] \in Seq(Line)
        /\ a[2] \in DOMAIN scripts[a[1]]
    BY SpotIs
  <2>2. a[2] \in 1..Len(scripts[a[1]]) BY <2>1, LenProperties
  <2> QED BY <2>1, <2>2
<1>7. p[1] = k /\ p[2] = h OBVIOUS
<1>8. CASE h = 0
  <2>1. parse.section = NoSection BY <1>3, <1>8
  <2>2. finishCurrentSection(parse.table, parse.section) = parse.table
    BY <2>1 DEF finishCurrentSection, NoSection
  <2>3. ASSUME NEW a \in Spots(scripts), IsHeader(LineAt(scripts, a))
        PROVE  Before(a, q) <=> Before(a, p)
    <3>1. Before(a, q) <=> a[1] < k \/ (a[1] = k /\ a[2] <= n) BY <2>3 DEF Behind
    <3>2. Before(a, p) <=> a[1] < k \/ (a[1] = k /\ a[2] < 0) BY <1>7, <1>8 DEF Before
    <3>3. a[1] = k /\ a[2] <= n => a[2] <= 0 BY <1>5, <1>8, <2>3
    <3> QED BY <1>6, <3>1, <3>2, <3>3
  <2> HIDE DEF p
  <2>4. Holds(parse.table, scripts, p) BY <1>3 DEF p
  <2> QED BY <2>2, <2>3, <2>4, SamePlace
<1>9. CASE h # 0
  <2>1. h \in 1..Len(lines) BY <1>2, <1>3, <1>9
  <2>2. p \in Spots(scripts) BY <1>1, <1>2, <2>1 DEF Spots
  <2>3. IsHeader(LineAt(scripts, p)) BY <1>1, <1>3, <1>9 DEF LineAt
  <2>4. ASSUME NEW a \in Spots(scripts), IsHeader(LineAt(scripts, a))
        PROVE  Before(a, q) <=> Before(a, p) \/ a = p
    <3>1. Before(a, q) <=> a[1] < k \/ (a[1] = k /\ a[2] <= n) BY <2>4 DEF Behind
    <3>2. Before(a, p) <=> a[1] < k \/ (a[1] = k /\ a[2] < h) BY <1>7 DEF Before
    <3>3. a[1] = k /\ a[2] <= n => a[2] <= h BY <1>5, <2>4
    <3>4. a = p <=> a[1] = k /\ a[2] = h BY <1>6
    <3>5. a[1] \in Nat /\ a[2] \in Nat /\ h \in Nat /\ n \in Nat /\ h <= n BY <1>2, <1>3, <1>6
    <3> HIDE DEF p
    <3> QED BY <3>1, <3>2, <3>3, <3>4, <3>5
  <2>5. NextPlace(scripts, p, q) BY <2>2, <2>3, <2>4 DEF NextPlace
  <2>6. LastLine(lines, n) BY <1>1
  <2>7. Body(lines, h) = Below(lines, h, n) BY <1>2, <1>3, <2>6, BodyIs
  <2>8. Complete(parse.section, scripts, p) BY <1>1, <1>3, <1>4, <1>7, <1>9, <2>7 DEF Complete
  <2>9. Holds(parse.table, scripts, p) BY <1>3
  <2> HIDE DEF p
  <2> QED BY <2>5, <2>8, <2>9, SectionEnds
<1> QED BY <1>8, <1>9

LEMMA LineReads ==
  ASSUME NEW scripts \in Seq(Seq(Line)), NEW k \in DOMAIN scripts,
         NEW n \in Nat, n < Len(scripts[k]),
         NEW parse \in Parse, NEW h, ReadTo(parse, scripts, k, n, h)
  PROVE  \E g : ReadTo(ReadsLine(parse, scripts[k][n + 1]), scripts, k, n + 1, g)
<1>1. PICK lines \in Seq(Line) : lines = scripts[k] BY LenProperties, ElementOfSeq
<1>2. k \in Nat /\ Len(lines) \in Nat /\ n < Len(lines) BY <1>1, LenProperties
<1>3. n + 1 \in 1..Len(lines) BY <1>2
<1>4. PICK line \in Line : line = lines[n + 1] BY <1>3, ElementOfSeq
<1>5. PICK new : new = ReadsLine(parse, line) OBVIOUS
<1>6. /\ new \in Parse
      /\ IsBlank(line) => new = parse
      /\ IsHeader(line) => new.table = finishCurrentSection(parse.table, parse.section)
                           /\ new.section = Opened(line)
      /\ ~ IsBlank(line) /\ ~ IsHeader(line) =>
           new.table = parse.table /\ new.section = Directive(parse.section, line)
  BY <1>5, Reads
<1>7. /\ h \in 0..n /\ \A j \in h + 1 .. n : ~ IsHeader(lines[j])
      /\ Holds(parse.table, scripts, <<k, h>>)
      /\ h = 0 => parse.section = NoSection
      /\ h # 0 => IsHeader(lines[h]) /\ Describes(parse.section, lines, h, Below(lines, h, n))
  BY <1>1 DEF ReadTo
<1>8. h \in 0..(n + 1) /\ \A j \in h + 1 .. n + 1 : j \in h + 1 .. n \/ j = n + 1
  BY <1>2, <1>7
<1>9. CASE IsHeader(line)
  <2> DEFINE q == <<k, n + 1>>
  <2>1. LastLine(lines, n) BY <1>2, <1>4, <1>9 DEF LastLine
  <2>2. Behind(scripts, k, n, q)
    <3> SUFFICES ASSUME NEW a \in Spots(scripts)
                 PROVE  Before(a, q) <=> a[1] < k \/ (a[1] = k /\ a[2] <= n)
      BY DEF Behind
    <3>1. a[2] \in Nat BY SpotIs
    <3>2. Before(a, q) <=> a[1] < k \/ (a[1] = k /\ a[2] < n + 1) BY DEF Before
    <3>3. a[2] < n + 1 <=> a[2] <= n BY <3>1
    <3> QED BY <3>2, <3>3
  <2> HIDE DEF q
  <2>3. n \in 0..Len(scripts[k]) /\ LastLine(scripts[k], n) BY <1>1, <1>2, <2>1
  <2>4. Holds(finishCurrentSection(parse.table, parse.section), scripts, q)
    BY <2>2, <2>3, OpenEnds
  <2>5. Opened(line) \in Section /\ Describes(Opened(line), lines, n + 1, {})
    BY <1>3, <1>4, <1>9, OpensOn
  <2>6. Below(lines, n + 1, n + 1) = {} /\ n + 1 # 0 BY <1>2 DEF Below
  <2>7. Describes(new.section, lines, n + 1, Below(lines, n + 1, n + 1))
    BY <1>6, <1>9, <2>5, <2>6
  <2>8. n + 1 \in 0..(n + 1) /\ \A j \in (n + 1) + 1 .. n + 1 : FALSE BY <1>2
  <2>9. Holds(new.table, scripts, q) BY <1>6, <1>9, <2>4
  <2>10. ReadTo(new, scripts, k, n + 1, n + 1)
    BY <1>1, <1>4, <1>9, <2>6, <2>7, <2>8, <2>9 DEF ReadTo, q
  <2> QED BY <1>1, <1>4, <1>5, <2>10
<1>10. CASE ~ IsHeader(line)
  <2>1. \A j \in h + 1 .. n + 1 : ~ IsHeader(lines[j]) BY <1>4, <1>7, <1>8, <1>10
  <2>2. new.table = parse.table BY <1>6, <1>10
  <2>3. h = 0 => new.section = NoSection
    <3> SUFFICES ASSUME h = 0 PROVE new.section = NoSection OBVIOUS
    <3>1. parse.section = NoSection BY <1>7
    <3>2. Directive(NoSection, line) = NoSection BY DEF Directive, NoSection
    <3> QED BY <1>6, <1>10, <3>1, <3>2
  <2>4. h # 0 => IsHeader(lines[h]) /\ Describes(new.section, lines, h, Below(lines, h, n + 1))
    <3> SUFFICES ASSUME h # 0
                 PROVE  IsHeader(lines[h]) /\ Describes(new.section, lines, h, Below(lines, h, n + 1))
      OBVIOUS
    <3>1. IsHeader(lines[h]) /\ Describes(parse.section, lines, h, Below(lines, h, n)) BY <1>7
    <3>2. CASE IsBlank(line)
      <4>1. Below(lines, h, n + 1) = Below(lines, h, n)
        <5>1. \A j \in h + 1 .. n : j \in h + 1 .. n + 1 BY <1>2, <1>7
        <5> QED BY <1>4, <1>8, <3>2, <5>1 DEF Below
      <4> QED BY <1>6, <3>1, <3>2, <4>1
    <3>3. CASE ~ IsBlank(line)
      <4>1. Below(lines, h, n + 1) = Below(lines, h, n) \cup {n + 1}
        <5>1. (\A j \in h + 1 .. n : j \in h + 1 .. n + 1) /\ n + 1 \in h + 1 .. n + 1
          BY <1>2, <1>7
        <5> QED BY <1>4, <1>8, <3>3, <5>1 DEF Below
      <4>2. Below(lines, h, n) \subseteq 1..n
        <5>1. \A j \in h + 1 .. n : j \in 1..n BY <1>2, <1>7
        <5> QED BY <5>1 DEF Below
      <4>3. h \in 1..Len(lines) /\ n \in 0..Len(lines) - 1 BY <1>2, <1>7
      <4>4. parse.section \in Section BY DEF Parse
      <4>5. ~ IsBlank(lines[n + 1]) BY <1>4, <3>3
      <4>6. Describes(Directive(parse.section, lines[n + 1]), lines, h,
                      Below(lines, h, n) \cup {n + 1})
        <5>1. PICK B : B = Below(lines, h, n) OBVIOUS
        <5>2. B \subseteq 1..n /\ Describes(parse.section, lines, h, B) BY <3>1, <4>2, <5>1
        <5>3. Describes(Directive(parse.section, lines[n + 1]), lines, h, B \cup {n + 1})
          BY <3>1, <4>3, <4>4, <4>5, <5>2, DirectsOn
        <5> QED BY <5>1, <5>3
      <4> QED BY <1>4, <1>6, <1>10, <3>1, <3>3, <4>1, <4>6
    <3> QED BY <3>2, <3>3
  <2>5. Holds(new.table, scripts, <<k, h>>) BY <1>7, <2>2
  <2>6. ReadTo(new, scripts, k, n + 1, h) BY <1>1, <1>8, <2>1, <2>3, <2>4, <2>5 DEF ReadTo
  <2> QED BY <1>1, <1>4, <1>5, <2>6
<1> QED BY <1>9, <1>10

\* A script has been read.
LEMMA ScriptReads ==
  ASSUME NEW scripts \in Seq(Seq(Line)), NEW k \in DOMAIN scripts,
         NEW tab, Holds(tab, scripts, <<k, 0>>)
  PROVE  Holds(parseScriptContent(tab, scripts[k]), scripts, <<k + 1, 0>>)
<1>1. PICK lines \in Seq(Line) : lines = scripts[k] BY LenProperties, ElementOfSeq
<1>2. PICK N \in Nat : N = Len(lines) BY LenProperties
<1>3. k \in Nat /\ tab \in ParserTable BY LenProperties DEF Holds
<1>4. PICK after : after = Parses(tab, lines) OBVIOUS
<1>5. /\ after[0] = [table |-> tab, section |-> NoSection]
      /\ \A n \in 0..N : after[n] \in Parse
      /\ \A n \in 1..N : after[n] = ReadsLine(after[n - 1], lines[n])
  BY <1>2, <1>3, <1>4, ParsesSteps
<1> DEFINE T == {n \in Nat : n <= N => \E h : ReadTo(after[n], scripts, k, n, h)}
<1>6. 0 \in T
  <2>1. 0 \in 0..0 /\ \A j \in 0 + 1 .. 0 : FALSE OBVIOUS
  <2>2. after[0].table = tab /\ after[0].section = NoSection BY <1>5
  <2>3. ReadTo(after[0], scripts, k, 0, 0) BY <2>1, <2>2 DEF ReadTo
  <2> QED BY <2>3
<1>7. ASSUME NEW n \in Nat, n \in T PROVE n + 1 \in T
  <2> SUFFICES ASSUME n + 1 <= N PROVE \E h : ReadTo(after[n + 1], scripts, k, n + 1, h)
    OBVIOUS
  <2>1. n <= N /\ n < N /\ n \in 0..N /\ n + 1 \in 1..N /\ (n + 1) - 1 = n BY <1>2
  <2>2. PICK h : ReadTo(after[n], scripts, k, n, h) BY <1>7, <2>1
  <2>3. PICK parse \in Parse : parse = after[n] BY <1>5, <2>1
  <2>4. n < Len(scripts[k]) BY <1>1, <1>2, <2>1
  <2>5. \E g : ReadTo(ReadsLine(parse, scripts[k][n + 1]), scripts, k, n + 1, g)
    BY <2>2, <2>3, <2>4, LineReads
  <2>6. after[n + 1] = ReadsLine(parse, scripts[k][n + 1]) BY <1>1, <1>5, <2>1, <2>3
  <2> QED BY <2>5, <2>6
<1>8. N \in T
  <2> HIDE DEF T
  <2> QED BY <1>6, <1>7, Induction
<1>9. PICK h : ReadTo(after[N], scripts, k, N, h) BY <1>8
<1>10. PICK q : q = <<k + 1, 0>> OBVIOUS
<1>11. Behind(scripts, k, N, q)
  <2> SUFFICES ASSUME NEW a \in Spots(scripts)
               PROVE  Before(a, q) <=> a[1] < k \/ (a[1] = k /\ a[2] <= N)
    BY DEF Behind
  <2>1. a[1] \in Nat /\ a[2] \in Nat /\ a[2] \in DOMAIN scripts[a[1]] BY SpotIs
  <2>2. a[1] = k => a[2] <= N
    <3> SUFFICES ASSUME a[1] = k PROVE a[2] <= N OBVIOUS
    <3>1. a[2] \in 1..N BY <1>1, <1>2, <2>1, LenProperties
    <3> QED BY <1>2, <3>1
  <2>3. Before(a, q) <=> a[1] < k + 1 \/ (a[1] = k + 1 /\ a[2] < 0) BY <1>10 DEF Before
  <2> QED BY <1>3, <2>1, <2>2, <2>3
<1>12. PICK parse \in Parse : parse = after[N]
  <2>1. N \in 0..N BY <1>2
  <2> QED BY <1>5, <2>1
<1>13. N \in 0..Len(scripts[k]) /\ LastLine(scripts[k], N) BY <1>1, <1>2 DEF LastLine
<1>14. Holds(finishCurrentSection(parse.table, parse.section), scripts, q)
  BY <1>9, <1>11, <1>12, <1>13, OpenEnds
<1>15. parseScriptContent(tab, scripts[k]) = finishCurrentSection(parse.table, parse.section)
  BY <1>1, <1>2, <1>4, <1>12 DEF parseScriptContent
<1> QED BY <1>10, <1>14, <1>15

-----------------------------------------------------------------------------
(* loadFromVfs: the scripts one after the other, then the vital services. *)

LEMMA ParseType ==
  ASSUME NEW tab \in ParserTable, NEW lines \in Seq(Line)
  PROVE  parseScriptContent(tab, lines) \in ParserTable
<1>1. PICK N \in Nat : N = Len(lines) BY LenProperties
<1>2. N \in 0..N BY <1>1
<1>3. PICK parse \in Parse : parse = Parses(tab, lines)[N] BY <1>1, <1>2, ParsesSteps
<1>4. parse.table \in ParserTable /\ parse.section \in Section BY DEF Parse
<1>5. finishCurrentSection(parse.table, parse.section) \in ParserTable BY <1>4, Finishes
<1> QED BY <1>1, <1>3, <1>5 DEF parseScriptContent

LEMMA ScriptTablesSteps ==
  ASSUME NEW scripts \in Seq(Seq(Line))
  PROVE  LET after == ScriptTables(scripts)
         IN  /\ Len(scripts) \in Nat /\ DOMAIN scripts = 1..Len(scripts)
             /\ after[0] = Cleared
             /\ \A k \in 1..Len(scripts) : after[k] = parseScriptContent(after[k - 1], scripts[k])
<1> DEFINE N == Len(scripts)
           next == [x \in (1..N) \X ParserTable |-> parseScriptContent(x[2], scripts[x[1]])]
           At(f) == [k \in 0..N |->
                       IF k = 0 THEN Cleared ELSE parseScriptContent(f[k - 1], scripts[k])]
           after == ScriptTables(scripts)
<1>1. N \in Nat /\ DOMAIN scripts = 1..N /\ \A k \in 1..N : scripts[k] \in Seq(Line)
  BY LenProperties, ElementOfSeq
<1>2. Cleared \in ParserTable
  <2>1. <<>> \in Seq(Action) /\ <<>> \in Seq(Service) BY EmptySeq
  <2> QED BY <2>1 DEF Cleared, ParserTable
<1>3. after = CHOOSE f : f = At(f) BY DEF ScriptTables
<1> HIDE DEF N, after
<1>4. \A k \in 1..N, x \in ParserTable : parseScriptContent(x, scripts[k]) \in ParserTable
  BY <1>1, ParseType
<1>5. next \in [(1..N) \X ParserTable -> ParserTable] BY <1>4
<1>6. \A k \in 1..N, x \in ParserTable : next[<<k, x>>] = parseScriptContent(x, scripts[k])
  OBVIOUS
<1> HIDE DEF next
<1>7. PICK g : Recurs(g, N, ParserTable, Cleared, next) BY <1>1, <1>2, <1>5, Recursion
<1>8. /\ g \in [0..N -> ParserTable] /\ g[0] = Cleared
      /\ \A k \in 1..N : g[k] = next[<<k, g[k - 1]>>]
  BY <1>7 DEF Recurs
<1>9. \A k \in 1..N : k - 1 \in 0..N /\ k \in 0..N /\ k # 0 BY <1>1
<1>10. \A k \in 1..N : g[k] = parseScriptContent(g[k - 1], scripts[k]) BY <1>6, <1>8, <1>9
<1>11. \A k \in 0..N : k = 0 \/ k \in 1..N BY <1>1
<1>12. \A k \in 0..N : g[k] = IF k = 0 THEN Cleared ELSE parseScriptContent(g[k - 1], scripts[k])
  BY <1>8, <1>9, <1>10, <1>11
<1>13. g = At(g) BY <1>8, <1>12
<1> HIDE DEF At
<1>14. after = At(after) BY <1>3, <1>13
<1>15. 0 \in 0..N BY <1>1
<1>16. after[0] = Cleared BY <1>14, <1>15 DEF At
<1>17. \A k \in 1..N : after[k] = parseScriptContent(after[k - 1], scripts[k])
  BY <1>9, <1>14 DEF At
<1> QED BY <1>1, <1>16, <1>17 DEF N, after

\* All scripts have been read.
LEMMA ScriptsRead ==
  ASSUME NEW scripts \in Seq(Seq(Line))
  PROVE  Holds(ScriptTables(scripts)[Len(scripts)], scripts, <<Len(scripts) + 1, 0>>)
<1>1. PICK N \in Nat : N = Len(scripts) BY LenProperties
<1>2. PICK after : after = ScriptTables(scripts) OBVIOUS
<1>3. /\ after[0] = Cleared
      /\ \A k \in 1..N : after[k] = parseScriptContent(after[k - 1], scripts[k])
      /\ DOMAIN scripts = 1..N
  BY <1>1, <1>2, ScriptTablesSteps
<1> DEFINE T == {k \in Nat : k <= N => Holds(after[k], scripts, <<k + 1, 0>>)}
<1>4. 0 \in T
  <2>1. PICK p : p = <<0 + 1, 0>> OBVIOUS
  <2>2. ASSUME NEW a \in Spots(scripts) PROVE ~ Before(a, p)
    <3>1. a[1] \in 1..N /\ a[2] \in Nat BY <1>3, SpotIs
    <3>2. Before(a, p) <=> a[1] < 1 \/ (a[1] = 1 /\ a[2] < 0) BY <2>1 DEF Before
    <3> QED BY <3>1, <3>2
  <2>3. ServicesBefore(scripts, p) = {} /\ ActionsBefore(scripts, p) = {}
    BY <2>2 DEF ServicesBefore, ActionsBefore
  <2>4. Cleared.services = <<>> /\ Cleared.actions = <<>> BY DEF Cleared
  <2>5. Cleared \in ParserTable
    <3>1. <<>> \in Seq(Action) /\ <<>> \in Seq(Service) BY EmptySeq
    <3> QED BY <3>1 DEF Cleared, ParserTable
  <2>6. \A i : i \notin DOMAIN <<>> OBVIOUS
  <2>7. Distinct(Cleared) /\ Named(Cleared) = {} /\ ActionPairs(Cleared) = {}
    BY <2>4, <2>6 DEF Distinct, Named, ActionPairs
  <2>8. Holds(Cleared, scripts, p) BY <2>3, <2>4, <2>5, <2>6, <2>7 DEF Holds
  <2> QED BY <1>3, <2>1, <2>8
<1>5. ASSUME NEW k \in Nat, k \in T PROVE k + 1 \in T
  <2> SUFFICES ASSUME k + 1 <= N PROVE Holds(after[k + 1], scripts, <<(k + 1) + 1, 0>>)
    OBVIOUS
  <2>1. k <= N /\ k + 1 \in 1..N /\ (k + 1) - 1 = k BY <1>1
  <2>2. Holds(after[k], scripts, <<k + 1, 0>>) BY <1>5, <2>1
  <2>3. after[k + 1] = parseScriptContent(after[k], scripts[k + 1]) BY <1>3, <2>1
  <2>4. PICK m \in DOMAIN scripts : m = k + 1 BY <1>3, <2>1
  <2>5. Holds(after[k], scripts, <<m, 0>>) BY <2>2, <2>4
  <2>6. Holds(parseScriptContent(after[k], scripts[m]), scripts, <<m + 1, 0>>)
    BY <2>5, ScriptReads
  <2> QED BY <2>3, <2>4, <2>6
<1>6. N \in T
  <2> HIDE DEF T
  <2> QED BY <1>4, <1>5, Induction
<1> QED BY <1>1, <1>2, <1>6

Vital(i) ==
  [name |-> CoreServices[i].name, classes |-> <<CoreServices[i].class>>, isDisabled |-> FALSE]
Missing(tab, k) == {j \in 1..k : CoreServices[j].name \notin Named(tab)}

\* The table with the first k vital services, where it had none of their names.
Filled(full, tab, k) ==
  /\ full \in ParserTable /\ Distinct(full) /\ full.actions = tab.actions
  /\ ToSet(full.services) = ToSet(tab.services) \cup {Vital(i) : i \in Missing(tab, k)}

LEMMA NamedIs ==
  ASSUME NEW tab PROVE Named(tab) = {s.name : s \in ToSet(tab.services)}
BY DEF Named, ToSet

LEMMA VitalIs ==
  ASSUME NEW k \in 1..Len(CoreServices)
  PROVE  Vital(k) \in Service /\ CoreServices[k] \in [name : Word, class : Word]
<1>1. CoreServices[k] \in [name : Word, class : Word]
  BY CoreAssumption, ElementOfSeq DEF CoreAssumption
<1>2. PICK c \in Word : c = CoreServices[k].class BY <1>1
<1>3. <<c>> \in Seq(Word) OBVIOUS
<1> QED BY <1>1, <1>2, <1>3 DEF Vital, Service

LEMMA Ensures ==
  ASSUME NEW tab \in ParserTable, NEW k \in 1..Len(CoreServices)
  PROVE  LET new == ensureCoreService(tab, CoreServices[k])
         IN  /\ new \in ParserTable
             /\ CoreServices[k].name \in Named(tab) => new = tab
             /\ CoreServices[k].name \notin Named(tab) =>
                  /\ new.actions = tab.actions
                  /\ new.services = Append(tab.services, Vital(k))
<1> DEFINE new == ensureCoreService(tab, CoreServices[k])
<1>1. CASE CoreServices[k].name \in Named(tab)
  <2>1. new = tab BY <1>1 DEF ensureCoreService
  <2> QED BY <1>1, <2>1
<1>2. CASE CoreServices[k].name \notin Named(tab)
  <2>1. new = [tab EXCEPT !.services = Append(tab.services, Vital(k))]
    BY <1>2 DEF ensureCoreService, AddsService, Vital
  <2>2. tab.services \in Seq(Service) /\ tab.actions \in Seq(Action) BY DEF ParserTable
  <2>3. PICK v \in Service : v = Vital(k) BY VitalIs
  <2>4. Append(tab.services, v) \in Seq(Service) BY <2>2
  <2>5. /\ new \in ParserTable /\ new.actions = tab.actions
        /\ new.services = Append(tab.services, Vital(k))
    BY <2>1, <2>2, <2>3, <2>4 DEF ParserTable
  <2> QED BY <1>2, <2>5
<1> QED BY <1>1, <1>2

LEMMA Fills ==
  ASSUME NEW tab \in ParserTable, NEW full, NEW k \in Nat, k < Len(CoreServices),
         Filled(full, tab, k)
  PROVE  Filled(ensureCoreService(full, CoreServices[k + 1]), tab, k + 1)
<1>1. Len(CoreServices) \in Nat BY CoreAssumption, LenProperties DEF CoreAssumption
<1>2. PICK m \in 1..Len(CoreServices) : m = k + 1 BY <1>1
<1>3. PICK new : new = ensureCoreService(full, CoreServices[m]) OBVIOUS
<1>4. PICK v \in Service : v = Vital(m) BY VitalIs
<1>5. v.name = CoreServices[m].name BY <1>4 DEF Vital
<1>6. /\ full \in ParserTable /\ Distinct(full) /\ full.actions = tab.actions
      /\ ToSet(full.services) = ToSet(tab.services) \cup {Vital(i) : i \in Missing(tab, k)}
      /\ full.services \in Seq(Service)
  BY DEF Filled, ParserTable
<1>7. /\ new \in ParserTable
      /\ v.name \in Named(full) => new = full
      /\ v.name \notin Named(full) =>
           new.actions = full.actions /\ new.services = Append(full.services, v)
  BY <1>3, <1>4, <1>5, <1>6, Ensures
<1>8. Named(full) = Named(tab) \cup {Vital(i).name : i \in Missing(tab, k)} BY <1>6, NamedIs
<1>9. \A j \in 1..(k + 1) : j \in 1..k \/ j = m BY <1>2
<1>10. (\A j \in 1..k : j \in 1..(k + 1)) /\ m \in 1..(k + 1) BY <1>2
<1>11. CASE v.name \in Named(full)
  <2>1. v.name \in Named(tab)
    <3> SUFFICES ASSUME NEW i \in Missing(tab, k), v.name = Vital(i).name PROVE FALSE
      BY <1>8, <1>11
    <3>1. i \in 1..k /\ i # m BY <1>2 DEF Missing
    <3>2. CoreServices[i].name = CoreServices[m].name BY <1>5 DEF Vital
    <3>3. i \in DOMAIN CoreServices /\ m \in DOMAIN CoreServices
      <4>1. DOMAIN CoreServices = 1..Len(CoreServices)
        BY CoreAssumption, LenProperties DEF CoreAssumption
      <4>2. i \in 1..Len(CoreServices) BY <1>1, <3>1
      <4> QED BY <4>1, <4>2
    <3> QED BY <3>1, <3>2, <3>3, CoreAssumption DEF CoreAssumption
  <2>2. Missing(tab, k + 1) = Missing(tab, k) BY <1>5, <1>9, <1>10, <2>1 DEF Missing
  <2>3. Filled(full, tab, k + 1) BY <2>2 DEF Filled
  <2> QED BY <1>2, <1>3, <1>7, <1>11, <2>3
<1>12. CASE v.name \notin Named(full)
  <2>1. v.name \notin Named(tab) BY <1>8, <1>12
  <2>2. Missing(tab, k + 1) = Missing(tab, k) \cup {m} BY <1>5, <1>9, <1>10, <2>1 DEF Missing
  <2> DEFINE s == full.services
             t == new.services
             n == Len(s) + 1
  <2>3. /\ DOMAIN t = DOMAIN s \cup {n} /\ t[n] = v /\ \A i \in DOMAIN s : t[i] = s[i]
        /\ ToSet(t) = ToSet(s) \cup {v}
    <3>1. t = Append(s, v) /\ s \in Seq(Service) BY <1>6, <1>7, <1>12
    <3> HIDE DEF s, t
    <3> QED BY <3>1, AppendIs
  <2>4. \A i, j \in DOMAIN s : s[i].name = s[j].name => i = j BY <1>6 DEF Distinct
  <2>5. \A i \in DOMAIN s : s[i].name # v.name BY <1>12 DEF Named
  <2>6. ToSet(t) = ToSet(tab.services) \cup {Vital(i) : i \in Missing(tab, k + 1)}
    <3>1. {Vital(i) : i \in Missing(tab, k + 1)} = {Vital(i) : i \in Missing(tab, k)} \cup {v}
      BY <1>4, <2>2
    <3>2. ToSet(s) = ToSet(tab.services) \cup {Vital(i) : i \in Missing(tab, k)} BY <1>6
    <3> QED BY <2>3, <3>1, <3>2
  <2>7. Distinct(new)
    <3> HIDE DEF s, n
    <3> SUFFICES ASSUME NEW i \in DOMAIN t, NEW j \in DOMAIN t, t[i].name = t[j].name PROVE i = j
      BY DEF Distinct
    <3> HIDE DEF t
    <3>1. CASE i \in DOMAIN s /\ j \in DOMAIN s
      <4>1. s[i].name = s[j].name BY <2>3, <3>1
      <4> QED BY <2>4, <3>1, <4>1
    <3>2. CASE ~ (i \in DOMAIN s /\ j \in DOMAIN s) BY <2>3, <2>5, <3>2
    <3> QED BY <3>1, <3>2
  <2>8. new.actions = tab.actions BY <1>6, <1>7, <1>12
  <2>9. Filled(new, tab, k + 1) BY <1>7, <2>6, <2>7, <2>8 DEF Filled
  <2> QED BY <1>2, <1>3, <2>9
<1> QED BY <1>11, <1>12

LEMMA CoreTablesSteps ==
  ASSUME NEW tab \in ParserTable
  PROVE  LET after == CoreTables(tab)
         IN  /\ Len(CoreServices) \in Nat
             /\ after[0] = tab
             /\ \A k \in 1..Len(CoreServices) :
                  after[k] = ensureCoreService(after[k - 1], CoreServices[k])
<1> DEFINE N == Len(CoreServices)
           next == [x \in (1..N) \X ParserTable |-> ensureCoreService(x[2], CoreServices[x[1]])]
           At(f) == [k \in 0..N |->
                       IF k = 0 THEN tab ELSE ensureCoreService(f[k - 1], CoreServices[k])]
           after == CoreTables(tab)
<1>1. N \in Nat BY CoreAssumption, LenProperties DEF CoreAssumption
<1>2. after = CHOOSE f : f = At(f) BY DEF CoreTables
<1>3. \A k \in 1..N, x \in ParserTable : ensureCoreService(x, CoreServices[k]) \in ParserTable
  BY Ensures
<1> HIDE DEF N, after
<1>4. next \in [(1..N) \X ParserTable -> ParserTable] BY <1>3
<1>5. \A k \in 1..N, x \in ParserTable : next[<<k, x>>] = ensureCoreService(x, CoreServices[k])
  OBVIOUS
<1> HIDE DEF next
<1>6. PICK g : Recurs(g, N, ParserTable, tab, next) BY <1>1, <1>4, Recursion
<1>7. /\ g \in [0..N -> ParserTable] /\ g[0] = tab
      /\ \A k \in 1..N : g[k] = next[<<k, g[k - 1]>>]
  BY <1>6 DEF Recurs
<1>8. \A k \in 1..N : k - 1 \in 0..N /\ k \in 0..N /\ k # 0 BY <1>1
<1>9. \A k \in 1..N : g[k] = ensureCoreService(g[k - 1], CoreServices[k]) BY <1>5, <1>7, <1>8
<1>10. \A k \in 0..N : k = 0 \/ k \in 1..N BY <1>1
<1>11. \A k \in 0..N : g[k] = IF k = 0 THEN tab ELSE ensureCoreService(g[k - 1], CoreServices[k])
  BY <1>7, <1>8, <1>9, <1>10
<1>12. g = At(g) BY <1>7, <1>11
<1> HIDE DEF At
<1>13. after = At(after) BY <1>2, <1>12
<1>14. 0 \in 0..N BY <1>1
<1>15. after[0] = tab BY <1>13, <1>14 DEF At
<1>16. \A k \in 1..N : after[k] = ensureCoreService(after[k - 1], CoreServices[k])
  BY <1>8, <1>13 DEF At
<1> QED BY <1>1, <1>15, <1>16 DEF N, after

LEMMA VitalsThere ==
  ASSUME NEW tab \in ParserTable, Distinct(tab)
  PROVE  Filled(CoreTables(tab)[Len(CoreServices)], tab, Len(CoreServices))
<1>1. PICK N : N = Len(CoreServices) OBVIOUS
<1>2. PICK after : after = CoreTables(tab) OBVIOUS
<1>3. /\ N \in Nat /\ after[0] = tab
      /\ \A k \in 1..N : after[k] = ensureCoreService(after[k - 1], CoreServices[k])
  BY <1>1, <1>2, CoreTablesSteps
<1> DEFINE T == {k \in Nat : k <= N => Filled(after[k], tab, k)}
<1>4. 0 \in T
  <2>1. \A i : i \notin Missing(tab, 0) BY DEF Missing
  <2>2. Filled(tab, tab, 0) BY <2>1 DEF Filled
  <2> QED BY <1>3, <2>2
<1>5. ASSUME NEW k \in Nat, k \in T PROVE k + 1 \in T
  <2> SUFFICES ASSUME k + 1 <= N PROVE Filled(after[k + 1], tab, k + 1) OBVIOUS
  <2>1. k <= N /\ k < Len(CoreServices) /\ k + 1 \in 1..N /\ (k + 1) - 1 = k BY <1>1, <1>3
  <2>2. Filled(after[k], tab, k) BY <1>5, <2>1
  <2>3. after[k + 1] = ensureCoreService(after[k], CoreServices[k + 1]) BY <1>3, <2>1
  <2> QED BY <2>1, <2>2, <2>3, Fills
<1>6. N \in T
  <2> HIDE DEF T
  <2> QED BY <1>3, <1>4, <1>5, Induction
<1> QED BY <1>1, <1>2, <1>3, <1>6

-----------------------------------------------------------------------------
(* What has been read is what the scripts say. *)

LEMMA ScriptsType ==
  ASSUME NEW image \in Seq(File) PROVE Scripts(image) \in Seq(Seq(Line))
<1> DEFINE n == Len(image)
           read(k) == image[k].kind \in {"root", "rc"} /\ image[k].readable
<1>1. n \in Nat /\ DOMAIN image = 1..n /\ \A k \in 1..n : image[k] \in File
  BY LenProperties, ElementOfSeq
<1> HIDE DEF n
<1>2. \A k \in 1..n : image[k].lines \in Seq(Line) BY <1>1 DEF File, Line
<1>3. <<>> \in Seq(Line) BY EmptySeq
<1>4. Scripts(image) = [k \in 1..n |-> IF read(k) THEN image[k].lines ELSE <<>>]
  BY <1>1 DEF Scripts
<1> HIDE DEF read
<1>5. [k \in 1..n |-> IF read(k) THEN image[k].lines ELSE <<>>] \in [1..n -> Seq(Line)]
  BY <1>2, <1>3
<1> QED BY <1>1, <1>4, <1>5, SeqDef

\* Behind the last script all has been said.
LEMMA AtTheEnd ==
  ASSUME NEW scripts \in Seq(Seq(Line)), NEW p, p = <<Len(scripts) + 1, 0>>
  PROVE  /\ ServicesBefore(scripts, p) = {a \in Spots(scripts) : IsService(LineAt(scripts, a))}
         /\ ActionsBefore(scripts, p) = {a \in Spots(scripts) : IsAction(LineAt(scripts, a))}
         /\ \A s : Definitions(scripts, s) =
                     {a \in ServicesBefore(scripts, p) : NameAt(scripts, a) = s}
<1>1. ASSUME NEW a \in Spots(scripts) PROVE Before(a, p)
  <2>1. a[1] \in 1..Len(scripts) /\ Len(scripts) \in Nat BY SpotIs, LenProperties
  <2>2. p[1] = Len(scripts) + 1 OBVIOUS
  <2>3. a[1] < p[1] BY <2>1, <2>2
  <2> QED BY <2>3 DEF Before
<1>2. ServicesBefore(scripts, p) = {a \in Spots(scripts) : IsService(LineAt(scripts, a))}
  BY <1>1 DEF ServicesBefore
<1>3. ActionsBefore(scripts, p) = {a \in Spots(scripts) : IsAction(LineAt(scripts, a))}
  BY <1>1 DEF ActionsBefore
<1>4. \A s : Definitions(scripts, s) = {a \in ServicesBefore(scripts, p) : NameAt(scripts, a) = s}
  BY <1>2 DEF Definitions, NameAt
<1> QED BY <1>2, <1>3, <1>4

\* The definition that counts is the one the scripts say.
LEMMA CountsAsSaid ==
  ASSUME NEW scripts \in Seq(Seq(Line)), NEW p, p = <<Len(scripts) + 1, 0>>,
         NEW a, Counts(scripts, a, p), NEW s, AsDefined(scripts, s, a)
  PROVE  /\ Definitions(scripts, s.name) # {}
         /\ ToSet(s.classes) = ClassesSaid(scripts, s.name)
         /\ s.isDisabled = DisabledSaid(scripts, s.name)
<1> DEFINE D == Definitions(scripts, s.name)
<1>1. a \in ServicesBefore(scripts, p) /\ NameAt(scripts, a) = s.name BY DEF Counts, AsDefined
<1>2. D = {b \in ServicesBefore(scripts, p) : NameAt(scripts, b) = NameAt(scripts, a)}
  BY <1>1, AtTheEnd
<1>3. ServicesBefore(scripts, p) \subseteq Spots(scripts) BY DEF ServicesBefore
<1>4. a \in D /\ \A b \in D \ {a} : Before(a, b) BY <1>1, <1>2 DEF Counts
<1>5. CountingOne(scripts, s.name) = CHOOSE x \in D : \A b \in D \ {x} : Before(x, b)
  BY DEF CountingOne
<1>6. D \subseteq Spots(scripts) BY <1>2, <1>3
<1> HIDE DEF D
<1>7. ASSUME NEW x \in D, \A b \in D \ {x} : Before(x, b) PROVE x = a
  <2> SUFFICES ASSUME x # a PROVE FALSE OBVIOUS
  <2>1. Before(x, a) /\ Before(a, x) BY <1>4, <1>7
  <2>2. x \in Spots(scripts) /\ a \in Spots(scripts) BY <1>4, <1>6
  <2> QED BY <2>1, <2>2, NotBeforeItself
<1>8. CountingOne(scripts, s.name) = a BY <1>4, <1>5, <1>7
<1>9. ClassesSaid(scripts, s.name) = ClassesAt(scripts, a)
  BY <1>8 DEF ClassesSaid, ClassesAt, ClassesIn, ClassLines
<1>10. DisabledSaid(scripts, s.name) = DisabledAt(scripts, a)
  <2>1. DisabledSaid(scripts, s.name) <=> \E l \in BodyAt(scripts, a) : l[1] = "disabled"
    BY <1>8 DEF DisabledSaid
  <2> QED BY <2>1 DEF BodyAt, DisabledAt, DisabledIn, DisabledSaid
<1> QED BY <1>4, <1>9, <1>10 DEF AsDefined, D

\* The table of an image, piece by piece.
AsSaid(full, scripts) ==
  /\ full \in ParserTable /\ Distinct(full)
  /\ \A s \in ToSet(full.services) :
       \/ /\ Definitions(scripts, s.name) # {}
          /\ ToSet(s.classes) = ClassesSaid(scripts, s.name)
          /\ s.isDisabled = DisabledSaid(scripts, s.name)
       \/ \E i \in 1..Len(CoreServices) :
            s = Vital(i) /\ Definitions(scripts, s.name) = {}
  /\ \A x : Definitions(scripts, x) # {} => x \in Named(full)
  /\ \A i \in 1..Len(CoreServices) :
       Definitions(scripts, CoreServices[i].name) = {} => Vital(i) \in ToSet(full.services)
  /\ ActionPairs(full) =
       {<<NameAt(scripts, a), BodyAt(scripts, a)>> :
           a \in {b \in Spots(scripts) : IsAction(LineAt(scripts, b))}}

LEMMA Loads ==
  ASSUME NEW image \in Seq(File) PROVE AsSaid(loadFromVfs(image), Scripts(image))
<1> DEFINE scripts == Scripts(image)
           full == loadFromVfs(image)
<1>1. scripts \in Seq(Seq(Line)) BY ScriptsType
<1> HIDE DEF scripts
<1>2. PICK p : p = <<Len(scripts) + 1, 0>> OBVIOUS
<1>3. PICK tab : tab = ScriptTables(scripts)[Len(scripts)] OBVIOUS
<1>4. Holds(tab, scripts, p) BY <1>1, <1>2, <1>3, ScriptsRead
<1>5. PICK m : m = Len(CoreServices) OBVIOUS
<1>6. full = CoreTables(tab)[m] BY <1>3, <1>5 DEF loadFromVfs, scripts
<1> HIDE DEF full
<1>7. tab \in ParserTable /\ Distinct(tab) BY <1>4 DEF Holds
<1>8. Filled(full, tab, m) BY <1>5, <1>6, <1>7, VitalsThere
<1>9. /\ full \in ParserTable /\ Distinct(full) /\ full.actions = tab.actions
      /\ ToSet(full.services) = ToSet(tab.services) \cup {Vital(i) : i \in Missing(tab, m)}
  BY <1>8 DEF Filled
<1>10. \A x : Definitions(scripts, x) = {} <=> x \notin Named(tab)
  <2>1. Named(tab) = {NameAt(scripts, a) : a \in ServicesBefore(scripts, p)} BY <1>4 DEF Holds
  <2>2. \A x : Definitions(scripts, x) = {a \in ServicesBefore(scripts, p) : NameAt(scripts, a) = x}
    BY <1>1, <1>2, AtTheEnd
  <2> QED BY <2>1, <2>2
<1>11. ASSUME NEW s \in ToSet(full.services)
       PROVE  \/ /\ Definitions(scripts, s.name) # {}
                 /\ ToSet(s.classes) = ClassesSaid(scripts, s.name)
                 /\ s.isDisabled = DisabledSaid(scripts, s.name)
              \/ \E i \in 1..Len(CoreServices) :
                   s = Vital(i) /\ Definitions(scripts, s.name) = {}
  <2>1. CASE s \in ToSet(tab.services)
    <3>1. PICK i \in DOMAIN tab.services : s = tab.services[i] BY <2>1 DEF ToSet
    <3>2. PICK a : Counts(scripts, a, p) /\ AsDefined(scripts, s, a) BY <1>4, <3>1 DEF Holds
    <3> QED BY <1>1, <1>2, <3>2, CountsAsSaid
  <2>2. CASE s \notin ToSet(tab.services)
    <3>1. PICK i \in Missing(tab, m) : s = Vital(i) BY <1>9, <2>2
    <3>2. i \in 1..Len(CoreServices) /\ s.name \notin Named(tab)
      BY <1>5, <3>1 DEF Missing, Vital
    <3> QED BY <1>10, <3>1, <3>2
  <2> QED BY <2>1, <2>2
<1>12. ASSUME NEW x, Definitions(scripts, x) # {} PROVE x \in Named(full)
  <2>1. x \in Named(tab) BY <1>10, <1>12
  <2> QED BY <1>9, <2>1, NamedIs
<1>13. ASSUME NEW i \in 1..Len(CoreServices), Definitions(scripts, CoreServices[i].name) = {}
       PROVE  Vital(i) \in ToSet(full.services)
  <2>1. i \in Missing(tab, m) BY <1>5, <1>10, <1>13 DEF Missing
  <2> QED BY <1>9, <2>1
<1>14. ActionPairs(full) = {<<NameAt(scripts, a), BodyAt(scripts, a)>> :
                              a \in {b \in Spots(scripts) : IsAction(LineAt(scripts, b))}}
  <2>1. ActionPairs(full) = ActionPairs(tab) BY <1>9 DEF ActionPairs
  <2>2. ActionPairs(tab) =
          {<<NameAt(scripts, a), BodyAt(scripts, a)>> : a \in ActionsBefore(scripts, p)}
    BY <1>4 DEF Holds
  <2>3. ActionsBefore(scripts, p) = {b \in Spots(scripts) : IsAction(LineAt(scripts, b))}
    BY <1>1, <1>2, AtTheEnd
  <2> QED BY <2>1, <2>2, <2>3
<1>15. AsSaid(full, scripts) BY <1>9, <1>11, <1>12, <1>13, <1>14 DEF AsSaid
<1> QED BY <1>15 DEF full, scripts

\* The parser keeps what the scripts of an image say, in whichever files, order and number
\* services and actions stand there (parseScriptContent, loadFromVfs).
THEOREM ParserKeepsWhatIsSaid == \A image \in Seq(File) : ParsedAsSaid(image)
<1> SUFFICES ASSUME NEW image \in Seq(File) PROVE ParsedAsSaid(image) OBVIOUS
<1> DEFINE scripts == Scripts(image)
           full == loadFromVfs(image)
<1>1. AsSaid(full, scripts) BY Loads
<1> HIDE DEF scripts, full
<1>3. /\ full \in ParserTable /\ Distinct(full)
      /\ \A s \in ToSet(full.services) :
           \/ /\ Definitions(scripts, s.name) # {}
              /\ ToSet(s.classes) = ClassesSaid(scripts, s.name)
              /\ s.isDisabled = DisabledSaid(scripts, s.name)
           \/ \E i \in 1..Len(CoreServices) : s = Vital(i) /\ Definitions(scripts, s.name) = {}
      /\ \A x : Definitions(scripts, x) # {} => x \in Named(full)
      /\ \A i \in 1..Len(CoreServices) :
           Definitions(scripts, CoreServices[i].name) = {} => Vital(i) \in ToSet(full.services)
      /\ ActionPairs(full) = {<<NameAt(scripts, a), BodyAt(scripts, a)>> :
                                a \in {b \in Spots(scripts) : IsAction(LineAt(scripts, b))}}
  BY <1>1 DEF AsSaid
<1>4. DOMAIN CoreServices = 1..Len(CoreServices) BY CoreAssumption, LenProperties DEF CoreAssumption
<1> DEFINE core == {i \in DOMAIN CoreServices : Definitions(scripts, CoreServices[i].name) = {}}
           said == {s[2] : s \in {LineAt(scripts, a) : a \in
                                   {b \in Spots(scripts) : IsService(LineAt(scripts, b))}}}
<1>5. \A x : x \in said <=> Definitions(scripts, x) # {}
  <2>1. said = {LineAt(scripts, a)[2] : a \in {b \in Spots(scripts) : IsService(LineAt(scripts, b))}}
    OBVIOUS
  <2> QED BY <2>1 DEF Definitions
<1> HIDE DEF said
<1>6. Named(full) = said \cup {CoreServices[i].name : i \in core}
  <2>1. ASSUME NEW x \in Named(full) PROVE x \in said \cup {CoreServices[i].name : i \in core}
    <3>1. PICK s \in ToSet(full.services) : x = s.name BY <2>1, NamedIs
    <3>2. CASE Definitions(scripts, s.name) # {} BY <1>5, <3>1, <3>2
    <3>3. CASE Definitions(scripts, s.name) = {}
      <4>1. PICK i \in 1..Len(CoreServices) : s = Vital(i) BY <1>3, <3>3
      <4>2. s.name = CoreServices[i].name BY <4>1 DEF Vital
      <4>3. i \in core BY <1>4, <3>3, <4>2
      <4> QED BY <3>1, <4>2, <4>3
    <3> QED BY <3>2, <3>3
  <2>2. ASSUME NEW x \in said PROVE x \in Named(full) BY <1>3, <1>5
  <2>3. ASSUME NEW i \in core PROVE CoreServices[i].name \in Named(full)
    <3>1. Vital(i) \in ToSet(full.services) BY <1>3, <1>4
    <3>2. Vital(i).name = CoreServices[i].name BY DEF Vital
    <3> QED BY <3>1, <3>2, NamedIs
  <2> HIDE DEF core
  <2> QED BY <2>1, <2>2, <2>3
<1>7. ASSUME NEW i \in DOMAIN full.services,
             Definitions(scripts, full.services[i].name) # {}
      PROVE  /\ ToSet(full.services[i].classes) = ClassesSaid(scripts, full.services[i].name)
             /\ full.services[i].isDisabled = DisabledSaid(scripts, full.services[i].name)
  <2>1. full.services[i] \in ToSet(full.services) BY DEF ToSet
  <2> QED BY <1>3, <1>7, <2>1
<1>8. ASSUME NEW x
      PROVE  CommandsSaid(scripts, x) =
               UNION {ToSet(full.actions[i].commands) : i \in
                       {j \in DOMAIN full.actions : full.actions[j].trigger = x}}
  <2> DEFINE A == {b \in Spots(scripts) : IsAction(LineAt(scripts, b))}
             kept == {i \in DOMAIN full.actions : full.actions[i].trigger = x}
  <2>1. ActionPairs(full) = {<<NameAt(scripts, a), BodyAt(scripts, a)>> : a \in A} BY <1>3
  <2>2. CommandsSaid(scripts, x) =
          UNION {BodyAt(scripts, a) : a \in {b \in A : NameAt(scripts, b) = x}}
    BY DEF CommandsSaid, NameAt
  <2> HIDE DEF A
  <2>3. ASSUME NEW a \in A, NameAt(scripts, a) = x
        PROVE  \E i \in kept : BodyAt(scripts, a) = ToSet(full.actions[i].commands)
    <3>1. <<NameAt(scripts, a), BodyAt(scripts, a)>> \in ActionPairs(full) BY <2>1
    <3>2. PICK i \in DOMAIN full.actions :
            <<NameAt(scripts, a), BodyAt(scripts, a)>>
              = <<full.actions[i].trigger, ToSet(full.actions[i].commands)>>
      BY <3>1 DEF ActionPairs
    <3> QED BY <2>3, <3>2
  <2>4. ASSUME NEW i \in kept
        PROVE  \E a \in A : NameAt(scripts, a) = x
                            /\ BodyAt(scripts, a) = ToSet(full.actions[i].commands)
    <3>1. <<full.actions[i].trigger, ToSet(full.actions[i].commands)>> \in ActionPairs(full)
      BY DEF ActionPairs
    <3>2. PICK a \in A : <<full.actions[i].trigger, ToSet(full.actions[i].commands)>>
                           = <<NameAt(scripts, a), BodyAt(scripts, a)>>
      BY <2>1, <3>1
    <3> QED BY <3>2
  <2>5. CommandsSaid(scripts, x) = UNION {ToSet(full.actions[i].commands) : i \in kept}
    <3> HIDE DEF kept
    <3>1. ASSUME NEW l \in CommandsSaid(scripts, x)
          PROVE  l \in UNION {ToSet(full.actions[i].commands) : i \in kept}
      BY <2>2, <2>3
    <3>2. ASSUME NEW i \in kept, NEW l \in ToSet(full.actions[i].commands)
          PROVE  l \in CommandsSaid(scripts, x)
      BY <2>2, <2>4
    <3> QED BY <3>1, <3>2
  <2> QED BY <2>5
<1>9. /\ \A i, j \in DOMAIN full.services :
           full.services[i].name = full.services[j].name => i = j
      /\ Named(full) = said \cup {CoreServices[i].name : i \in core}
      /\ \A i \in DOMAIN full.services :
           Definitions(scripts, full.services[i].name) # {} =>
             /\ ToSet(full.services[i].classes) = ClassesSaid(scripts, full.services[i].name)
             /\ full.services[i].isDisabled = DisabledSaid(scripts, full.services[i].name)
      /\ \A a \in Spots(scripts) : IsAction(LineAt(scripts, a)) =>
           CommandsSaid(scripts, LineAt(scripts, a)[2]) =
             UNION {ToSet(full.actions[i].commands) : i \in
                     {j \in DOMAIN full.actions :
                        full.actions[j].trigger = LineAt(scripts, a)[2]}}
  <2>1. Distinct(full) BY <1>3
  <2>2. \A i, j \in DOMAIN full.services :
           full.services[i].name = full.services[j].name => i = j
    BY <2>1 DEF Distinct
  <2> QED BY <1>6, <1>7, <1>8, <2>2
<1> HIDE DEF core
<1>10. ParsedAsSaid(image)
  <2> USE DEF said, core, scripts, full
  <2> QED BY <1>9 DEF ParsedAsSaid
<1> QED BY <1>10

-----------------------------------------------------------------------------
(* executeTriggerActions: the commands of a trigger, collected from its actions. *)

LEMMA ConcatIs ==
  ASSUME NEW S, NEW s \in Seq(S), NEW t \in Seq(S)
  PROVE  s \o t \in Seq(S) /\ ToSet(s) \subseteq ToSet(s \o t) /\ ToSet(t) \subseteq ToSet(s \o t)
<1> DEFINE u == s \o t
           m == Len(s)
           n == Len(t)
<1>1. m \in Nat /\ n \in Nat /\ DOMAIN s = 1..m /\ DOMAIN t = 1..n BY LenProperties
<1>2. /\ u \in Seq(S) /\ Len(u) = m + n
      /\ \A i \in 1..(m + n) : u[i] = IF i <= m THEN s[i] ELSE t[i - m]
  BY ConcatProperties
<1>3. DOMAIN u = 1..(m + n) BY <1>2, LenProperties
<1> HIDE DEF u, m, n
<1>4. ASSUME NEW i \in DOMAIN s PROVE i \in DOMAIN u /\ u[i] = s[i]
  <2>1. i \in 1..(m + n) /\ i <= m BY <1>1
  <2> QED BY <1>2, <1>3, <2>1
<1>5. ASSUME NEW i \in DOMAIN t PROVE m + i \in DOMAIN u /\ u[m + i] = t[i]
  <2>1. m + i \in 1..(m + n) /\ ~ (m + i <= m) /\ (m + i) - m = i BY <1>1
  <2> QED BY <1>2, <1>3, <2>1
<1>6. ToSet(s) \subseteq ToSet(u) BY <1>4 DEF ToSet
<1>7. ToSet(t) \subseteq ToSet(u) BY <1>5 DEF ToSet
<1> QED BY <1>2, <1>6, <1>7 DEF u

\* The commands of n actions.
LEMMA CollectedSteps ==
  ASSUME Table.actions \in Seq(Action), NEW x
  PROVE  LET after == Collected(x)
             N     == Len(Table.actions)
         IN  /\ N \in Nat
             /\ \A n \in 0..N : after[n] \in Seq(Line)
             /\ \A n \in 1..N :
                  after[n] = IF Table.actions[n].trigger = x
                             THEN after[n - 1] \o Table.actions[n].commands ELSE after[n - 1]
<1>1. PICK acts \in Seq(Action) : acts = Table.actions OBVIOUS
<1> DEFINE N == Len(acts)
           Add(n, y) == IF acts[n].trigger = x THEN y \o acts[n].commands ELSE y
           next == [z \in (1..N) \X Seq(Line) |-> Add(z[1], z[2])]
           At(f) == [n \in 0..N |-> IF n = 0 THEN <<>> ELSE Add(n, f[n - 1])]
           after == Collected(x)
<1>2. N \in Nat /\ \A n \in 1..N : acts[n] \in Action BY LenProperties, ElementOfSeq
<1>3. after = CHOOSE f : f = At(f)
  <2>1. after = CHOOSE f : f = [n \in 0..N |->
                  IF n = 0 THEN <<>>
                  ELSE IF acts[n].trigger = x THEN f[n - 1] \o acts[n].commands ELSE f[n - 1]]
    BY <1>1 DEF Collected
  <2> QED BY <2>1
<1>4. \A n \in 1..N, y \in Seq(Line) : Add(n, y) \in Seq(Line)
  <2> SUFFICES ASSUME NEW n \in 1..N, NEW y \in Seq(Line) PROVE Add(n, y) \in Seq(Line) OBVIOUS
  <2>1. acts[n].commands \in Seq(Line) BY <1>2 DEF Action
  <2> QED BY <2>1, ConcatIs
<1> HIDE DEF N, after, Add
<1>5. next \in [(1..N) \X Seq(Line) -> Seq(Line)] BY <1>4
<1>6. \A n \in 1..N, y \in Seq(Line) : next[<<n, y>>] = Add(n, y) OBVIOUS
<1> HIDE DEF next
<1>7. <<>> \in Seq(Line) BY EmptySeq
<1>8. PICK g : Recurs(g, N, Seq(Line), <<>>, next)
  <2>1. PICK S : S = Seq(Line) OBVIOUS
  <2>2. PICK e : e = <<>> OBVIOUS
  <2>3. e \in S /\ next \in [(1..N) \X S -> S] BY <1>5, <1>7, <2>1, <2>2
  <2>4. \E g : Recurs(g, N, S, e, next) BY <1>2, <2>3, Recursion
  <2> QED BY <2>1, <2>2, <2>4
<1>9. /\ g \in [0..N -> Seq(Line)] /\ g[0] = <<>>
      /\ \A n \in 1..N : g[n] = next[<<n, g[n - 1]>>]
  BY <1>8 DEF Recurs
<1>10. \A n \in 1..N : n - 1 \in 0..N /\ n \in 0..N /\ n # 0 BY <1>2
<1>11. \A n \in 1..N : g[n] = Add(n, g[n - 1]) BY <1>6, <1>9, <1>10
<1>12. \A n \in 0..N : n = 0 \/ n \in 1..N BY <1>2
<1>13. \A n \in 0..N : g[n] = IF n = 0 THEN <<>> ELSE Add(n, g[n - 1])
  BY <1>9, <1>10, <1>11, <1>12
<1>14. g = At(g) BY <1>9, <1>13
<1> HIDE DEF At
<1>15. after = At(after) BY <1>3, <1>14
<1>16. 0 \in 0..N BY <1>2
<1>17. after[0] = <<>> BY <1>15, <1>16 DEF At
<1>18. \A n \in 1..N : after[n] = Add(n, after[n - 1]) BY <1>10, <1>15 DEF At
<1> DEFINE T == {n \in Nat : n <= N => after[n] \in Seq(Line)}
<1>19. 0 \in T BY <1>7, <1>17
<1>20. ASSUME NEW n \in Nat, n \in T PROVE n + 1 \in T
  <2> SUFFICES ASSUME n + 1 <= N PROVE after[n + 1] \in Seq(Line) OBVIOUS
  <2>1. n <= N /\ n + 1 \in 1..N /\ (n + 1) - 1 = n BY <1>2
  <2>2. after[n] \in Seq(Line) BY <1>20, <2>1
  <2>3. after[n + 1] = Add(n + 1, after[n]) BY <1>18, <2>1
  <2> QED BY <1>4, <2>1, <2>2, <2>3
<1>21. \A n \in 0..N : n \in T
  <2> HIDE DEF T
  <2> QED BY <1>2, <1>19, <1>20, Induction
<1>22. \A n \in 0..N : after[n] \in Seq(Line) BY <1>2, <1>21
<1>23. \A n \in 1..N : after[n] = IF acts[n].trigger = x THEN after[n - 1] \o acts[n].commands
                                  ELSE after[n - 1]
  BY <1>18 DEF Add
<1> QED BY <1>1, <1>2, <1>22, <1>23 DEF N, after

\* No command of a trigger's actions is lost.
LEMMA AllCollected ==
  ASSUME Table.actions \in Seq(Action), NEW i \in DOMAIN Table.actions
  PROVE  ToSet(Table.actions[i].commands) \subseteq ToSet(CommandsOf(Table.actions[i].trigger))
<1>1. PICK acts \in Seq(Action) : acts = Table.actions OBVIOUS
<1>2. PICK x : x = acts[i].trigger OBVIOUS
<1>3. PICK after : after = Collected(x) OBVIOUS
<1>4. PICK N : N = Len(acts) OBVIOUS
<1>5. /\ N \in Nat /\ \A n \in 0..N : after[n] \in Seq(Line)
      /\ \A n \in 1..N : after[n] = IF acts[n].trigger = x
                                    THEN after[n - 1] \o acts[n].commands ELSE after[n - 1]
  BY <1>1, <1>3, <1>4, CollectedSteps
<1>6. i \in 1..N /\ \A n \in 1..N : acts[n].commands \in Seq(Line)
  <2>1. DOMAIN acts = 1..N BY <1>4, LenProperties
  <2>2. \A n \in 1..N : acts[n] \in Action BY <1>4, ElementOfSeq
  <2> QED BY <1>1, <2>1, <2>2 DEF Action
<1>7. \A n \in 1..N : n - 1 \in 0..N /\ n \in 0..N BY <1>5
<1>8. ASSUME NEW n \in 1..N PROVE ToSet(after[n - 1]) \subseteq ToSet(after[n])
  <2>1. PICK s \in Seq(Line) : s = after[n - 1] BY <1>5, <1>7
  <2>2. PICK t \in Seq(Line) : t = acts[n].commands BY <1>6
  <2>3. ToSet(s) \subseteq ToSet(s \o t) BY ConcatIs
  <2>4. after[n] = s \o t \/ after[n] = s BY <1>5, <2>1, <2>2
  <2> QED BY <2>1, <2>3, <2>4
<1> DEFINE T == {k \in Nat : i + k <= N => ToSet(acts[i].commands) \subseteq ToSet(after[i + k])}
<1>9. 0 \in T
  <2>1. PICK s \in Seq(Line) : s = after[i - 1] BY <1>5, <1>6, <1>7
  <2>2. PICK t \in Seq(Line) : t = acts[i].commands BY <1>6
  <2>3. after[i] = s \o t BY <1>2, <1>5, <1>6, <2>1, <2>2
  <2>4. ToSet(t) \subseteq ToSet(after[i]) BY <2>3, ConcatIs
  <2>5. i + 0 = i BY <1>6
  <2> QED BY <2>2, <2>4, <2>5
<1>10. ASSUME NEW k \in Nat, k \in T PROVE k + 1 \in T
  <2> SUFFICES ASSUME i + (k + 1) <= N
               PROVE  ToSet(acts[i].commands) \subseteq ToSet(after[i + (k + 1)])
    OBVIOUS
  <2>1. i + k <= N /\ i + (k + 1) \in 1..N /\ (i + (k + 1)) - 1 = i + k BY <1>5, <1>6
  <2>2. ToSet(acts[i].commands) \subseteq ToSet(after[i + k]) BY <1>10, <2>1
  <2>3. ToSet(after[i + k]) \subseteq ToSet(after[i + (k + 1)]) BY <1>8, <2>1
  <2> QED BY <2>2, <2>3
<1>11. N - i \in T
  <2>1. N - i \in Nat BY <1>5, <1>6
  <2> HIDE DEF T
  <2> QED BY <1>9, <1>10, <2>1, Induction
<1>12. i + (N - i) = N BY <1>5, <1>6
<1>13. ToSet(acts[i].commands) \subseteq ToSet(after[N]) BY <1>5, <1>11, <1>12
<1> QED BY <1>1, <1>2, <1>3, <1>4, <1>13 DEF CommandsOf

-----------------------------------------------------------------------------
(* The commands behind the worker have been served. *)

Served(c) == \A s \in (IF c.class THEN c.names \ Disabled ELSE c.names) : status[s] # "STOPPED"

\* The phases the worker has left behind.
Passed(at) ==
  CASE at \in {"COMPLETED", "ending", "over"} -> Triggers
    [] at = "BOOT"       -> {"EARLY_INIT", "INIT", "EARLY_BOOT"}
    [] at = "EARLY_BOOT" -> {"EARLY_INIT", "INIT"}
    [] at = "INIT"       -> {"EARLY_INIT"}
    [] OTHER             -> {}

\* In a boot that nobody disturbs, and that nobody has told to end early.
CommandsInv ==
  intact /\ (worker.at = "over" => mPhase = "COMPLETED") =>
    /\ \A p \in Passed(worker.at) : \A i \in DOMAIN Commands[p] : Served(Commands[p][i])
    /\ worker.at \in Triggers =>
         \A i \in DOMAIN Commands[worker.at] :
           Served(Commands[worker.at][i]) \/ Commands[worker.at][i] \in ToSet(worker.todo)

BootInv == SafetyInv /\ CommandsInv

LEMMA PassedTriggers == ASSUME NEW at PROVE Passed(at) \subseteq Triggers
BY DEF Passed, Triggers

LEMMA CommandIs ==
  ASSUME NEW p \in Triggers, NEW i \in DOMAIN Commands[p]
  PROVE  Commands[p][i] \in Command
<1>1. PICK s \in Seq(Command) : s = Commands[p] BY PhaseCommands
<1>2. i \in 1..Len(s) BY <1>1, LenProperties
<1> QED BY <1>1, <1>2, ElementOfSeq

LEMMA ServedStays ==
  ASSUME NEW c \in Command, Served(c),
         \A s \in Services : status[s] # "STOPPED" => status'[s] # "STOPPED"
  PROVE  Served(c)'
<1>1. c.names \subseteq Services BY DEF Command
<1> QED BY <1>1 DEF Served

\* Nothing that is not the worker's own step takes a command back.
LEMMA CommandsStay ==
  ASSUME CommandsInv, worker' = worker, intact' => intact, mPhase' \in {mPhase, "IDLE"},
         \A s \in Services : status[s] # "STOPPED" => status'[s] # "STOPPED"
  PROVE  CommandsInv'
<1> SUFFICES ASSUME intact', worker'.at = "over" => mPhase' = "COMPLETED" PROVE CommandsInv'
  BY DEF CommandsInv
<1>1. intact /\ (worker.at = "over" => mPhase = "COMPLETED") OBVIOUS
<1>2. \A p \in Passed(worker.at) : \A i \in DOMAIN Commands[p] : Served(Commands[p][i])
  BY <1>1 DEF CommandsInv
<1>3. worker.at \in Triggers =>
        \A i \in DOMAIN Commands[worker.at] :
          Served(Commands[worker.at][i]) \/ Commands[worker.at][i] \in ToSet(worker.todo)
  BY <1>1 DEF CommandsInv
<1>4. \A p \in Passed(worker.at) : \A i \in DOMAIN Commands[p] : Served(Commands[p][i])'
  BY <1>2, PassedTriggers, CommandIs, ServedStays
<1>5. worker.at \in Triggers =>
        \A i \in DOMAIN Commands[worker.at] :
          Served(Commands[worker.at][i])' \/ Commands[worker.at][i] \in ToSet(worker.todo)
  BY <1>3, CommandIs, ServedStays
<1> QED BY <1>4, <1>5 DEF CommandsInv

LEMMA StartsMore ==
  ASSUME NEW names, Starts(names)
  PROVE  \A s \in Services : status[s] # "STOPPED" => status'[s] # "STOPPED"
BY DEF Starts

LEMMA InScript ==
  ASSUME NEW p \in Triggers, NEW i \in DOMAIN Commands[p]
  PROVE  Commands[p][i] \in ToSet(Script(p))
<1>1. PICK s \in Seq(Command) : s = Commands[p] BY PhaseCommands
<1>2. s[i] \in ToSet(s) BY <1>1 DEF ToSet
<1>3. ASSUME NEW c \in SUBSET Services PROVE s[i] \in ToSet(<<[names |-> c, class |-> TRUE]>> \o s)
  <2>1. PICK x \in Command : x = [names |-> c, class |-> TRUE] BY DEF Command
  <2>2. <<x>> \in Seq(Command) OBVIOUS
  <2>3. ToSet(s) \subseteq ToSet(<<x>> \o s) BY <2>2, ConcatIs
  <2> QED BY <1>2, <2>1, <2>3
<1>4. Core \in SUBSET Services /\ Main \in SUBSET Services BY BootAssumption DEF BootAssumption
<1>5. CASE p = "INIT"
  <2>1. Script(p) = <<[names |-> Core, class |-> TRUE]>> \o s BY <1>1, <1>5 DEF Script
  <2> QED BY <1>1, <1>3, <1>4, <2>1
<1>6. CASE p = "BOOT"
  <2>1. Script(p) = <<[names |-> Main, class |-> TRUE]>> \o s BY <1>1, <1>6 DEF Script
  <2> QED BY <1>1, <1>3, <1>4, <2>1
<1>7. CASE p \in {"EARLY_INIT", "EARLY_BOOT"}
  <2>1. Script(p) = s BY <1>1, <1>7 DEF Script
  <2> QED BY <1>1, <1>2, <2>1
<1> QED BY <1>5, <1>6, <1>7 DEF Triggers

LEMMA EntersCommands ==
  ASSUME BootInv, WorkerEnters PROVE CommandsInv'
<1> DEFINE phase == After[worker.at]
<1>1. /\ worker.at \in {"new"} \cup Triggers /\ worker.todo = <<>>
      /\ worker' = [at |-> phase, todo |-> Script(phase)]
      /\ UNCHANGED <<status, intact>>
  BY DEF WorkerEnters, table
<1>2. phase \in Phases BY <1>1 DEF After, Phases, Triggers
<1>3. worker'.at = phase /\ worker'.todo = Script(phase) BY <1>1
<1> SUFFICES ASSUME intact PROVE CommandsInv' BY <1>1 DEF CommandsInv
<1>4. worker.at # "over" BY <1>1 DEF Triggers
<1>5. \A p \in Passed(worker.at) : \A i \in DOMAIN Commands[p] : Served(Commands[p][i])
  BY <1>4 DEF BootInv, CommandsInv
<1>6. worker.at \in Triggers =>
        \A i \in DOMAIN Commands[worker.at] : Served(Commands[worker.at][i])
  <2>1. ToSet(worker.todo) = {} BY <1>1 DEF ToSet
  <2> QED BY <1>4, <2>1 DEF BootInv, CommandsInv
<1>7. Passed(phase) \subseteq Passed(worker.at) \cup ({worker.at} \cap Triggers)
  <2>1. CASE worker.at = "new" BY <2>1 DEF Passed, Triggers, After
  <2>2. CASE worker.at = "EARLY_INIT" BY <2>2 DEF Passed, Triggers, After
  <2>3. CASE worker.at = "INIT" BY <2>3 DEF Passed, Triggers, After
  <2>4. CASE worker.at = "EARLY_BOOT" BY <2>4 DEF Passed, Triggers, After
  <2>5. CASE worker.at = "BOOT" BY <2>5 DEF Passed, Triggers, After
  <2> QED BY <1>1, <2>1, <2>2, <2>3, <2>4, <2>5 DEF Triggers
<1>8. \A p \in Passed(phase) : \A i \in DOMAIN Commands[p] : Served(Commands[p][i])
  BY <1>5, <1>6, <1>7
<1>9. \A c : Served(c)' <=> Served(c) BY <1>1 DEF Served
<1>10. phase \in Triggers => \A i \in DOMAIN Commands[phase] : Commands[phase][i] \in ToSet(Script(phase))
  BY InScript
<1> HIDE DEF phase
<1> QED BY <1>3, <1>8, <1>9, <1>10 DEF CommandsInv

LEMMA RunsCommands ==
  ASSUME BootInv, WorkerRuns PROVE CommandsInv'
<1>1. worker \in [at : {"none", "new", "ending", "over"} \cup Phases, todo : Seq(Command)]
  BY DEF BootInv, SafetyInv, TypeOK
<1>2. PICK todo \in Seq(Command) : todo = worker.todo BY <1>1
<1>3. PICK at : at = worker.at OBVIOUS
<1>4. worker'.at = at /\ worker'.todo = Tail(todo) /\ UNCHANGED <<intact, mPhase>>
  BY <1>1, <1>2, <1>3 DEF WorkerRuns
<1>5. Len(todo) \in Nat /\ DOMAIN todo = 1..Len(todo) /\ todo # <<>>
  BY <1>2, LenProperties DEF WorkerRuns
<1>6. PICK c \in Command : c = Head(todo) /\ c = todo[1]
  <2>1. 1 \in 1..Len(todo) BY <1>5, EmptySeq
  <2> QED BY <1>5, <2>1, HeadTailProperties, ElementOfSeq
<1>7. \A d \in ToSet(todo) : d = c \/ d \in ToSet(Tail(todo))
  <2>1. /\ Tail(todo) \in Seq(Command) /\ Len(Tail(todo)) = Len(todo) - 1
        /\ \A i \in 1..Len(Tail(todo)) : Tail(todo)[i] = todo[i + 1]
    BY <1>5, HeadTailProperties
  <2>2. DOMAIN Tail(todo) = 1..(Len(todo) - 1) BY <2>1, LenProperties
  <2>3. ASSUME NEW i \in DOMAIN todo PROVE todo[i] = c \/ todo[i] \in ToSet(Tail(todo))
    <3>1. CASE i = 1 BY <1>6, <3>1
    <3>2. CASE i # 1
      <4>1. i - 1 \in 1..(Len(todo) - 1) /\ (i - 1) + 1 = i BY <1>5, <3>2
      <4>2. Tail(todo)[i - 1] = todo[i] BY <2>1, <4>1
      <4> QED BY <2>2, <4>1, <4>2 DEF ToSet
    <3> QED BY <3>1, <3>2
  <2> QED BY <2>3 DEF ToSet
<1>8. PICK named : named = (IF c.class THEN c.names \ Disabled ELSE c.names) OBVIOUS
<1>9. Starts(named) BY <1>2, <1>6, <1>8 DEF WorkerRuns
<1>10. \A s \in Services : status[s] # "STOPPED" => status'[s] # "STOPPED" BY <1>9, StartsMore
<1>11. Served(c)'
  <2>1. named \subseteq Services BY <1>8 DEF Command
  <2>2. \A s \in named : status'[s] # "STOPPED" BY <1>9, <2>1 DEF Starts
  <2> QED BY <1>8, <2>2 DEF Served
<1> SUFFICES ASSUME intact, at = "over" => mPhase = "COMPLETED" PROVE CommandsInv'
  BY <1>4 DEF CommandsInv
<1>12. \A p \in Passed(at) : \A i \in DOMAIN Commands[p] : Served(Commands[p][i])'
  <2>1. \A p \in Passed(at) : \A i \in DOMAIN Commands[p] : Served(Commands[p][i])
    BY <1>3 DEF BootInv, CommandsInv
  <2> QED BY <1>10, <2>1, PassedTriggers, CommandIs, ServedStays
<1>13. at \in Triggers =>
         \A i \in DOMAIN Commands[at] :
           Served(Commands[at][i])' \/ Commands[at][i] \in ToSet(Tail(todo))
  <2> SUFFICES ASSUME at \in Triggers, NEW i \in DOMAIN Commands[at]
               PROVE  Served(Commands[at][i])' \/ Commands[at][i] \in ToSet(Tail(todo))
    OBVIOUS
  <2>1. PICK d \in Command : d = Commands[at][i] BY CommandIs
  <2>2. Served(d) \/ d \in ToSet(todo) BY <1>2, <1>3, <2>1 DEF BootInv, CommandsInv
  <2>3. CASE Served(d) BY <1>10, <2>1, <2>3, ServedStays
  <2>4. CASE d \in ToSet(todo) BY <1>7, <1>11, <2>1, <2>4
  <2> QED BY <2>2, <2>3, <2>4
<1> QED BY <1>4, <1>12, <1>13 DEF CommandsInv

LEMMA EndsCommands ==
  ASSUME BootInv, WorkerReturns \/ WorkerCompletes \/ WorkerEnds PROVE CommandsInv'
<1>1. worker \in [at : {"none", "new", "ending", "over"} \cup Phases, todo : Seq(Command)]
  BY DEF BootInv, SafetyInv, TypeOK
<1>2. UNCHANGED <<status, intact, mPhase>>
  BY DEF WorkerReturns, WorkerCompletes, WorkerEnds, table
<1>3. \A c : Served(c)' <=> Served(c) BY <1>2 DEF Served
<1>4. CASE WorkerReturns
  <2>1. worker'.at = "over" /\ worker.at \in {"EARLY_INIT", "INIT", "BOOT"}
    BY <1>1, <1>4 DEF WorkerReturns, LooksAtFlag
  <2>2. mPhase \in {"IDLE", worker.at}
    BY <2>1 DEF BootInv, SafetyInv, PhaseIsTheWorkers, Phases, Triggers
  <2>3. mPhase' # "COMPLETED" BY <1>2, <2>1, <2>2
  <2> QED BY <2>1, <2>3 DEF CommandsInv
<1>5. CASE WorkerCompletes \/ WorkerEnds
  <2>1. /\ worker.at \in {"COMPLETED", "ending"} /\ worker'.at \in {"ending", "over"}
    BY <1>1, <1>5 DEF WorkerCompletes, WorkerEnds
  <2>2. Passed(worker.at) = Triggers /\ Passed(worker'.at) = Triggers
        /\ worker.at # "over" /\ worker'.at \notin Triggers
    BY <2>1 DEF Passed, Triggers
  <2> QED BY <1>2, <1>3, <2>2 DEF BootInv, CommandsInv
<1> QED BY <1>4, <1>5

LEMMA StartCommands ==
  ASSUME BootInv, NEW t \in Callers, StartStep(t) PROVE CommandsInv'
<1>1. worker \in [at : {"none", "new", "ending", "over"} \cup Phases, todo : Seq(Command)]
  BY DEF BootInv, SafetyInv, TypeOK
<1>2. CommandsInv BY DEF BootInv
<1>3. CASE StartChecks(t) \/ LooksForThread(t) \/ StartRaises(t) \/ StartResetsPhase(t)
  <2>1. UNCHANGED <<status, intact, worker>> /\ mPhase' \in {mPhase, "IDLE"}
    BY <1>3 DEF StartChecks, LooksForThread, StartRaises, StartResetsPhase, table, boot
  <2> QED BY <1>2, <2>1, CommandsStay
<1>4. CASE Joins(t)
  <2>1. worker'.at = "none" BY <1>1, <1>4 DEF Joins
  <2> QED BY <2>1 DEF CommandsInv, Passed, Triggers
<1>5. CASE StartCreates(t)
  <2>1. CASE worker.at = "none"
    <3>1. worker'.at = "new" BY <1>1, <1>5, <2>1 DEF StartCreates
    <3> QED BY <3>1 DEF CommandsInv, Passed, Triggers
  <2>2. CASE worker.at # "none"
    <3>1. UNCHANGED <<status, intact, worker, mPhase>> BY <1>5, <2>2 DEF StartCreates
    <3> QED BY <1>2, <3>1, CommandsStay
  <2> QED BY <2>1, <2>2
<1> QED BY <1>3, <1>4, <1>5 DEF StartStep

LEMMA OtherCommands ==
  ASSUME BootInv,
         \/ StopStep \/ UiRestarts \/ UiHandles \/ UiCalls \/ LiveFails \/ LiveBegins
         \/ LiveReloads \/ LiveWaits \/ LiveAnnounces \/ UNCHANGED vars
  PROVE  CommandsInv'
<1>1. CommandsInv BY DEF BootInv
<1>2. CASE StopServices \/ UiReloads \/ LiveReloads \/ (\E s \in Services : UiStopsService(s))
  <2>1. ~ intact' BY <1>2 DEF StopServices, UiReloads, LiveReloads, UiStopsService, Reloads
  <2> QED BY <2>1 DEF CommandsInv
<1>3. CASE UiRestarts \/ (\E s \in Services : UiStartsService(s))
  <2>1. \E names : Starts(names) BY <1>3 DEF UiRestarts, UiStartsService
  <2>2. UNCHANGED <<intact, worker, mPhase>> BY <1>3 DEF UiRestarts, UiStartsService, boot
  <2> QED BY <1>1, <2>1, <2>2, StartsMore, CommandsStay
<1>4. CASE StopPhase \/ UiHandles \/ UiBoots \/ StopBegins \/ LiveFails \/ LiveBegins
           \/ LiveWaits \/ LiveAnnounces \/ UNCHANGED vars
  <2>1. UNCHANGED <<status, intact, worker>> /\ mPhase' \in {mPhase, "IDLE"}
    BY <1>4 DEF StopPhase, UiHandles, UiPolls, UiShowsLiveBoot, UiBoots, StopBegins, LiveFails,
       LiveBegins, LiveWaits, LiveAnnounces, vars, table, boot
  <2> QED BY <1>1, <2>1, CommandsStay
<1> QED BY <1>2, <1>3, <1>4 DEF StopStep, UiCalls

LEMMA BootStep == BootInv /\ [Next]_vars => BootInv'
<1> SUFFICES ASSUME BootInv, [Next]_vars PROVE BootInv' OBVIOUS
<1>1. SafetyInv' BY SafetyStep DEF BootInv
<1>2. CASE WorkerStep
  <2>1. CommandsInv' BY <1>2, EntersCommands, RunsCommands, EndsCommands DEF WorkerStep
  <2> QED BY <1>1, <2>1 DEF BootInv
<1>3. CASE StartStep("ui") \/ StartStep("live")
  <2>1. "ui" \in Callers /\ "live" \in Callers BY DEF Callers
  <2> QED BY <1>1, <1>3, <2>1, StartCommands DEF BootInv
<1>4. CASE \/ StopStep \/ UiRestarts \/ UiHandles \/ UiCalls \/ LiveFails \/ LiveBegins
           \/ LiveReloads \/ LiveWaits \/ LiveAnnounces \/ UNCHANGED vars
  BY <1>1, <1>4, OtherCommands DEF BootInv
<1> QED BY <1>2, <1>3, <1>4 DEF Next, UiStep, LiveStep

LEMMA BootInit == Init => BootInv
<1> SUFFICES ASSUME Init PROVE CommandsInv BY SafetyInit DEF BootInv
<1> QED BY DEF Init, CommandsInv

THEOREM BootHolds == Spec => []BootInv
BY BootInit, BootStep, PTL DEF Spec

-----------------------------------------------------------------------------
(* What the scripts ask for is what the phases' commands start. *)

LEMMA TableSaid == AsSaid(Table, Scripts(Image)) /\ Table.actions \in Seq(Action)
<1>1. AsSaid(Table, Scripts(Image)) BY ImageAssumption, Loads DEF ImageAssumption, Table
<1> QED BY <1>1 DEF AsSaid, ParserTable

LEMMA TriggerCommands ==
  ASSUME NEW p \in Triggers, NEW line \in CommandsSaid(Scripts(Image), TriggerOf[p])
  PROVE  \E i \in DOMAIN Commands[p] : Commands[p][i] = CommandOf(line)
<1>1. PICK x : x = TriggerOf[p] OBVIOUS
<1>2. PICK scripts : scripts = Scripts(Image) OBVIOUS
<1>3. PICK a \in Spots(scripts) :
        IsAction(LineAt(scripts, a)) /\ NameAt(scripts, a) = x /\ line \in BodyAt(scripts, a)
  BY <1>1, <1>2 DEF CommandsSaid, NameAt
<1>4. <<x, BodyAt(scripts, a)>> \in ActionPairs(Table)
  BY <1>2, <1>3, TableSaid DEF AsSaid
<1>5. PICK i \in DOMAIN Table.actions :
        x = Table.actions[i].trigger /\ BodyAt(scripts, a) = ToSet(Table.actions[i].commands)
  BY <1>4 DEF ActionPairs
<1>6. ToSet(Table.actions[i].commands) \subseteq ToSet(CommandsOf(x))
  BY <1>5, TableSaid, AllCollected
<1>7. PICK all : all = CommandsOf(x) OBVIOUS
<1>8. line \in ToSet(all) BY <1>3, <1>5, <1>6, <1>7
<1>9. PICK j \in DOMAIN all : line = all[j] BY <1>8 DEF ToSet
<1>10. Commands[p] = [k \in DOMAIN all |-> CommandOf(all[k])]
  BY <1>1, <1>7, TableAssumption DEF TableAssumption, TableCommands
<1> QED BY <1>9, <1>10

\* The state of an undisturbed boot that is over.
AllServed ==
  /\ \A p \in Triggers : \A i \in DOMAIN Commands[p] : Served(Commands[p][i])
  /\ \A s \in (Core \cup Main) \ Disabled : status[s] # "STOPPED"

LEMMA LineServed ==
  ASSUME AllServed, NEW p \in Triggers,
         NEW line \in CommandsSaid(Scripts(Image), TriggerOf[p])
  PROVE  Served(CommandOf(line))
BY TriggerCommands DEF AllServed

LEMMA NamedServiceRuns ==
  ASSUME AllServed, NEW s \in Services, NEW p \in Triggers,
         <<"start", s>> \in CommandsSaid(Scripts(Image), TriggerOf[p])
  PROVE  status[s] # "STOPPED"
<1>1. PICK line : line = <<"start", s>> OBVIOUS
<1>2. Len(line) = 2 /\ line[1] = "start" /\ line[2] = s BY <1>1
<1>3. StartsServices(line) BY <1>2 DEF StartsServices
<1>4. s \in TableServices BY TableAssumption DEF TableAssumption
<1>5. CommandOf(line) = [names |-> {s}, class |-> FALSE]
  BY <1>2, <1>3, <1>4 DEF CommandOf
<1>6. Served(CommandOf(line)) BY <1>1, LineServed
<1> QED BY <1>5, <1>6 DEF Served

\* A service of the table whose class is one of the boot's or one that a trigger starts.
LEMMA ClassServiceRuns ==
  ASSUME AllServed, NEW t \in ToSet(Table.services), t.name \notin Disabled,
         NEW c \in ToSet(t.classes),
         \/ c \in {"core", "main", "animation"}
         \/ \E p \in Triggers : \E line \in CommandsSaid(Scripts(Image), TriggerOf[p]) :
              Len(line) = 2 /\ line[1] = "class_start" /\ line[2] = c
  PROVE  status[t.name] # "STOPPED"
<1>1. \A classes : c \in classes => t.name \in InClass(classes) BY DEF InClass
<1>2. CASE c \in {"core", "main", "animation"}
  <2>1. t.name \in Core \cup Main
    BY <1>1, <1>2, TableAssumption DEF TableAssumption, TableCore, TableMain
  <2> QED BY <2>1 DEF AllServed
<1>3. ASSUME NEW p \in Triggers,
             NEW line \in CommandsSaid(Scripts(Image), TriggerOf[p]),
             Len(line) = 2, line[1] = "class_start", line[2] = c
      PROVE  status[t.name] # "STOPPED"
  <2>1. StartsServices(line) BY <1>3 DEF StartsServices
  <2>2. PICK named : named = InClass({c}) OBVIOUS
  <2>3. CommandOf(line) = [names |-> named, class |-> TRUE]
    BY <1>3, <2>1, <2>2 DEF CommandOf
  <2>4. Served(CommandOf(line)) BY LineServed
  <2>5. t.name \in named \ Disabled BY <1>1, <2>2
  <2> QED BY <2>3, <2>4, <2>5 DEF Served
<1> QED BY <1>2, <1>3

\* A service of the table is disabled if its definition says so; a vital one never is.
LEMMA DisabledIs ==
  ASSUME NEW s, s \in Disabled
  PROVE  Definitions(Scripts(Image), s) # {} /\ DisabledSaid(Scripts(Image), s)
<1>1. PICK u \in ToSet(Table.services) : u.name = s /\ u.isDisabled
  BY TableAssumption DEF TableAssumption, TableDisabled
<1>2. \/ /\ Definitions(Scripts(Image), u.name) # {}
         /\ u.isDisabled = DisabledSaid(Scripts(Image), u.name)
      \/ \E i \in 1..Len(CoreServices) : u = Vital(i)
  BY TableSaid DEF AsSaid
<1>3. \A i : ~ Vital(i).isDisabled BY DEF Vital
<1> QED BY <1>1, <1>2, <1>3

LEMMA AskedForRuns ==
  ASSUME AllServed, NEW s \in Services, AskedFor(s) PROVE status[s] # "STOPPED"
<1> DEFINE scripts  == Scripts(Image)
           commands == UNION {CommandsSaid(scripts, TriggerOf[p]) : p \in Triggers}
           classes  == {"core", "main", "animation"}
                       \cup {c[2] : c \in {d \in commands : Len(d) = 2 /\ d[1] = "class_start"}}
<1>1. \A c \in classes :
        \/ c \in {"core", "main", "animation"}
        \/ \E p \in Triggers : \E line \in CommandsSaid(scripts, TriggerOf[p]) :
             Len(line) = 2 /\ line[1] = "class_start" /\ line[2] = c
  OBVIOUS
<1>2. \/ <<"start", s>> \in commands
      \/ /\ Definitions(scripts, s) # {}
         /\ ClassesSaid(scripts, s) \cap classes # {}
         /\ ~ DisabledSaid(scripts, s)
      \/ /\ Definitions(scripts, s) = {}
         /\ \E i \in DOMAIN CoreServices :
              CoreServices[i].name = s /\ CoreServices[i].class \in classes
  BY DEF AskedFor
<1>3. CASE <<"start", s>> \in commands BY <1>3, NamedServiceRuns
<1> HIDE DEF commands, classes
<1>4. ASSUME Definitions(scripts, s) # {}, ~ DisabledSaid(scripts, s),
             NEW c \in ClassesSaid(scripts, s), c \in classes
      PROVE  status[s] # "STOPPED"
  <2>1. s \in Named(Table) BY <1>4, TableSaid DEF AsSaid
  <2>2. PICK t \in ToSet(Table.services) : t.name = s BY <2>1, NamedIs
  <2>3. ToSet(t.classes) = ClassesSaid(scripts, s)
    <3>1. \/ ToSet(t.classes) = ClassesSaid(scripts, t.name)
          \/ Definitions(scripts, t.name) = {}
      BY TableSaid DEF AsSaid
    <3> QED BY <1>4, <2>2, <3>1
  <2>4. s \notin Disabled BY <1>4, DisabledIs
  <2> QED BY <1>1, <1>4, <2>2, <2>3, <2>4, ClassServiceRuns
<1>5. ASSUME Definitions(scripts, s) = {}, NEW i \in DOMAIN CoreServices,
             CoreServices[i].name = s, CoreServices[i].class \in classes
      PROVE  status[s] # "STOPPED"
  <2>1. i \in 1..Len(CoreServices) BY <1>5, CoreAssumption, LenProperties DEF CoreAssumption
  <2>2. PICK t : t = Vital(i) OBVIOUS
  <2>3. t \in ToSet(Table.services) BY <1>5, <2>1, <2>2, TableSaid DEF AsSaid
  <2>4. PICK c : c = CoreServices[i].class OBVIOUS
  <2>5. t.name = s /\ t.classes = <<c>> BY <1>5, <2>2, <2>4 DEF Vital
  <2>6. c \in ToSet(t.classes) BY <2>5 DEF ToSet
  <2>7. s \notin Disabled BY <1>5, DisabledIs
  <2>8. c \in classes BY <1>5, <2>4
  <2> QED BY <1>1, <2>3, <2>5, <2>6, <2>7, <2>8, ClassServiceRuns
<1> QED BY <1>2, <1>3, <1>4, <1>5

\* A boot that nobody disturbs ends with every service running that the scripts of the image
\* ask for, whatever the image, in whichever files and order they ask for it.
THEOREM ScriptAlwaysObeyed == Spec => []ScriptIsObeyed
<1>1. BootInv => ScriptIsObeyed
  <2> SUFFICES ASSUME BootInv, intact, worker.at \in {"COMPLETED", "ending", "over"},
                      mPhase = "COMPLETED"
               PROVE  \A s \in Services : AskedFor(s) => status[s] # "STOPPED"
    BY DEF ScriptIsObeyed
  <2>1. Passed(worker.at) = Triggers BY DEF Passed
  <2>2. \A p \in Triggers : \A i \in DOMAIN Commands[p] : Served(Commands[p][i])
    BY <2>1 DEF BootInv, CommandsInv
  <2>3. \A s \in (Core \cup Main) \ Disabled : status[s] # "STOPPED"
    BY DEF BootInv, SafetyInv, ClassInv, Done
  <2>4. AllServed BY <2>2, <2>3 DEF AllServed
  <2> QED BY <2>4, AskedForRuns
<1> QED BY <1>1, BootHolds, PTL

=============================================================================
