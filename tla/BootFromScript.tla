--------------------------- MODULE BootFromScript ---------------------------
(***************************************************************************)
(* A boot of what the parser has made of an image's scripts: the constants *)
(* of BootManager are read off the table and the actions of loadFromVfs(). *)
(*                                                                         *)
(* A command is its words here.  The parser keeps the text of the line,    *)
(* and the worker looks for "start " or "class_start " at its beginning    *)
(* and takes what follows for the name: the words of the scripts are one   *)
(* space apart.  With a tab, or a second space, the code starts nothing.   *)
(***************************************************************************)
EXTENDS BootManager, InitParser

CONSTANT Image   \* /init.rc and the entries of /system/etc/init

ASSUME ImageAssumption == Image \in Seq(File)

Table == loadFromVfs(Image)

InClass(classes) ==
  {s.name : s \in {t \in ToSet(Table.services) : ToSet(t.classes) \cap classes # {}}}

TableServices == Named(Table)
TableCore     == InClass({"core"})
TableMain     == InClass({"main", "animation"})
TableDisabled == {s.name : s \in {t \in ToSet(Table.services) : t.isDisabled}}

TriggerOf == [EARLY_INIT |-> "early-init", INIT |-> "init", EARLY_BOOT |-> "early-boot",
              BOOT |-> "boot"]

\* Of a trigger's commands those that name services; what follows the first word is one name.
\* The others start nothing.
StartsServices(line) == Len(line) = 2 /\ line[1] \in {"start", "class_start"}
CommandOf(line) ==
  [names |-> IF ~ StartsServices(line) THEN {}
             ELSE IF line[1] = "start" THEN {line[2]} \cap TableServices ELSE InClass({line[2]}),
   class |-> StartsServices(line) /\ line[1] = "class_start"]

\* Mutant: of several actions of a trigger the first one counts.
CommandsOfFirst(trigger) ==
  LET after[n \in 0..Len(Table.actions)] ==
        IF n = 0 THEN <<>>
        ELSE IF Table.actions[n].trigger = trigger /\ after[n - 1] = <<>>
        THEN Table.actions[n].commands ELSE after[n - 1]
  IN after[Len(Table.actions)]

\* What executeTriggerActions() collects from the first n actions, one behind the other.
Collected(trigger) ==
  LET after[n \in 0..Len(Table.actions)] ==
        IF n = 0 THEN <<>>
        ELSE IF Table.actions[n].trigger = trigger
        THEN after[n - 1] \o Table.actions[n].commands ELSE after[n - 1]
  IN after

CommandsOf(trigger) == Collected(trigger)[Len(Table.actions)]

TableCommands == [p \in Triggers |->
  [i \in DOMAIN CommandsOf(TriggerOf[p]) |-> CommandOf(CommandsOf(TriggerOf[p])[i])]]

\* The boot's table and commands are those.
ASSUME TableAssumption ==
  /\ Services = TableServices
  /\ Core = TableCore /\ Main = TableMain /\ Disabled = TableDisabled
  /\ Commands = TableCommands

-----------------------------------------------------------------------------
(* Properties. *)

\* What the scripts ask for: that a service of one of the boot's classes, or of a class a
\* trigger starts, runs unless it is disabled, and a service that a trigger names in any case.
AskedFor(s) ==
  LET scripts  == Scripts(Image)
      commands == UNION {CommandsSaid(scripts, TriggerOf[p]) : p \in Triggers}
      classes  == {"core", "main", "animation"}
                  \cup {c[2] : c \in {d \in commands : Len(d) = 2 /\ d[1] = "class_start"}}
  IN \/ <<"start", s>> \in commands
     \/ /\ Definitions(scripts, s) # {}
        /\ ClassesSaid(scripts, s) \cap classes # {} /\ ~ DisabledSaid(scripts, s)
     \/ /\ Definitions(scripts, s) = {}
        /\ \E i \in DOMAIN CoreServices :
             CoreServices[i].name = s /\ CoreServices[i].class \in classes

\* A boot that nobody disturbs ends with every service running that the scripts ask for by
\* their first definitions, in whichever file and order they stand (finishCurrentSection,
\* executeTriggerActions); a table that has never been read has none.
ScriptIsObeyed ==
  intact /\ worker.at \in {"COMPLETED", "ending", "over"} /\ mPhase = "COMPLETED" =>
    \A s \in Services : AskedFor(s) => status[s] # "STOPPED"
=============================================================================
