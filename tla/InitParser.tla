----------------------------- MODULE InitParser -----------------------------
(***************************************************************************)
(* How the init scripts of an image become the service table and the       *)
(* trigger actions of the boot manager (init_parser.cpp).  A script is a   *)
(* sequence of lines, a line the sequence of its words; a comment's first  *)
(* word is "#".  Of a service the name, the classes and the option         *)
(* "disabled" are kept; user, group, setenv and critical are lines that    *)
(* change none of them.                                                    *)
(***************************************************************************)
EXTENDS Integers, Sequences, SequencesExt

CONSTANTS
  Word,          \* the words of the scripts
  CoreServices   \* what ensureCoreService() is called for, in order

\* Each call of ensureCoreService() has a name of its own.
ASSUME CoreAssumption ==
  /\ "main" \in Word
  /\ CoreServices \in Seq([name : Word, class : Word])
  /\ \A i, j \in DOMAIN CoreServices : CoreServices[i].name = CoreServices[j].name => i = j

Cleared     == [actions |-> <<>>, services |-> <<>>]
Named(table) == {table.services[i].name : i \in DOMAIN table.services}
AddsService(table, name, classes, disabled) ==
  [table EXCEPT !.services =
     Append(@, [name |-> name, classes |-> classes, isDisabled |-> disabled])]

-----------------------------------------------------------------------------
(* parseScriptContent, line by line; the section is what the next lines belong to. *)

NoSection == [kind |-> "none"]

IsBlank(line)   == line = <<>> \/ line[1] = "#"
IsAction(line)  == Len(line) >= 2 /\ line[1] = "on"
IsService(line) == Len(line) >= 3 /\ line[1] = "service"

Opened(line) ==
  IF IsAction(line) THEN [kind |-> "action", name |-> line[2], commands |-> <<>>]
  ELSE [kind |-> "service", name |-> line[2], classes |-> <<"main">>, isDisabled |-> FALSE]

\* A service that is there already is left as it is, its second definition is lost.
finishCurrentSection(table, section) ==
  CASE section.kind = "action" ->
         [table EXCEPT !.actions = Append(@, [trigger |-> section.name,
                                              commands |-> section.commands])]
    [] section.kind = "service" /\ section.name \notin Named(table) ->
         AddsService(table, section.name, section.classes, section.isDisabled)
    [] OTHER -> table

\* A line that opens no section: a command of an action, an option of a service, or nothing.
Directive(section, line) ==
  CASE section.kind = "action" -> [section EXCEPT !.commands = Append(@, line)]
    [] section.kind = "service" /\ line[1] = "class" /\ Len(line) >= 2 ->
         [section EXCEPT !.classes = Tail(line)]
    [] section.kind = "service" /\ line[1] = "disabled" -> [section EXCEPT !.isDisabled = TRUE]
    [] OTHER -> section

ReadsLine(parse, line) ==
  IF IsBlank(line) THEN parse
  ELSE IF IsAction(line) \/ IsService(line)
  THEN [table |-> finishCurrentSection(parse.table, parse.section), section |-> Opened(line)]
  ELSE [parse EXCEPT !.section = Directive(@, line)]

\* The table and the section after each line.
Parses(table, lines) ==
  LET after[n \in 0..Len(lines)] ==
        IF n = 0 THEN [table |-> table, section |-> NoSection]
        ELSE ReadsLine(after[n - 1], lines[n])
  IN after

parseScriptContent(table, lines) ==
  LET end == Parses(table, lines)[Len(lines)]
  IN finishCurrentSection(end.table, end.section)

-----------------------------------------------------------------------------
(* loadFromVfs.  An image holds /init.rc, of kind "root", and the entries of                *)
(* /system/etc/init in their order: "rc", "other" or "directory", readable or not.          *)

File == [kind : {"root", "rc", "other", "directory"}, readable : BOOLEAN, lines : Seq(Seq(Word))]

\* A file that is not read has no lines.
Scripts(image) ==
  [k \in DOMAIN image |->
     IF image[k].kind \in {"root", "rc"} /\ image[k].readable THEN image[k].lines ELSE <<>>]

ensureCoreService(table, s) ==
  IF s.name \in Named(table) THEN table ELSE AddsService(table, s.name, <<s.class>>, FALSE)

\* The table after each script, and then after each vital service.
ScriptTables(scripts) ==
  LET after[k \in 0..Len(scripts)] ==
        IF k = 0 THEN Cleared ELSE parseScriptContent(after[k - 1], scripts[k])
  IN after

CoreTables(table) ==
  LET after[k \in 0..Len(CoreServices)] ==
        IF k = 0 THEN table ELSE ensureCoreService(after[k - 1], CoreServices[k])
  IN after

loadFromVfs(image) ==
  CoreTables(ScriptTables(Scripts(image))[Len(Scripts(image))])[Len(CoreServices)]

-----------------------------------------------------------------------------
(* What the scripts say, without reading them from the top. *)

IsHeader(line) == ~ IsBlank(line) /\ (IsAction(line) \/ IsService(line))

\* The lines that belong to the header at line h.
Body(lines, h) ==
  {i \in h + 1 .. Len(lines) : ~ IsBlank(lines[i]) /\ \A j \in h + 1 .. i : ~ IsHeader(lines[j])}

\* Where services and actions begin: pairs of a script and a line, and which comes first.
Spots(scripts)   == UNION {{k} \X DOMAIN scripts[k] : k \in DOMAIN scripts}
Before(a, b)     == a[1] < b[1] \/ (a[1] = b[1] /\ a[2] < b[2])
LineAt(scripts, a) == scripts[a[1]][a[2]]
BodyAt(scripts, a) == LET lines == scripts[a[1]] IN {lines[i] : i \in Body(lines, a[2])}

Definitions(scripts, s) ==
  {a \in Spots(scripts) : LET l == LineAt(scripts, a) IN IsService(l) /\ l[2] = s}
CountingOne(scripts, s) ==
  CHOOSE a \in Definitions(scripts, s) :
    \A b \in Definitions(scripts, s) \ {a} : Before(a, b)

\* The last class line of the definition that counts, or main.
ClassesSaid(scripts, s) ==
  LET a     == CountingOne(scripts, s)
      lines == scripts[a[1]]
      said  == {i \in Body(lines, a[2]) : lines[i][1] = "class" /\ Len(lines[i]) >= 2}
  IN IF said = {} THEN {"main"} ELSE ToSet(Tail(lines[Max(said)]))

DisabledSaid(scripts, s) ==
  \E l \in BodyAt(scripts, CountingOne(scripts, s)) : l[1] = "disabled"

\* The commands of a trigger, wherever they stand.
CommandsSaid(scripts, trigger) ==
  UNION {BodyAt(scripts, a) : a \in {b \in Spots(scripts) :
           LET l == LineAt(scripts, b) IN IsAction(l) /\ l[2] = trigger}}

\* The table holds each service once, as its first definition says, and the vital ones where
\* no script defines them; the actions hold the commands.
ParsedAsSaid(image) ==
  LET scripts == Scripts(image)
      table   == loadFromVfs(image)
      core    == {i \in DOMAIN CoreServices : Definitions(scripts, CoreServices[i].name) = {}}
  IN /\ \A i, j \in DOMAIN table.services :
          table.services[i].name = table.services[j].name => i = j
     /\ Named(table) = {s[2] : s \in {LineAt(scripts, a) : a \in
                                       {b \in Spots(scripts) : IsService(LineAt(scripts, b))}}}
                       \cup {CoreServices[i].name : i \in core}
     /\ \A i \in DOMAIN table.services :
          LET s == table.services[i] IN
          Definitions(scripts, s.name) # {} =>
            /\ ToSet(s.classes) = ClassesSaid(scripts, s.name)
            /\ s.isDisabled = DisabledSaid(scripts, s.name)
     /\ \A a \in Spots(scripts) : LET l == LineAt(scripts, a) IN
          IsAction(l) => CommandsSaid(scripts, l[2]) =
            UNION {ToSet(table.actions[i].commands) : i \in
                    {j \in DOMAIN table.actions : table.actions[j].trigger = l[2]}}
=============================================================================
