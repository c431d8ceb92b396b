---------------------------- MODULE MCBootManager ----------------------------
(* An image with a service of each class and a disabled one that a command of the         *)
(* second action of init names; one service is defined twice, one in no script.           *)
EXTENDS BootFromScript

CONSTANTS zygote, logd, console

MCImage == <<
  [kind |-> "root", readable |-> TRUE, lines |-> <<
     <<"on", "init">>, <<"#", "shell">>, <<"mkdir", "/cache">>,
     <<"service", zygote, "app_process">>, <<"class", "main", "late_start">>,
     <<"on", "early-boot">>, <<"class_start", "late_start">> >>],
  [kind |-> "other", readable |-> TRUE, lines |-> <<<<"service", logd, "logd">>, <<"disabled">>>>],
  [kind |-> "rc", readable |-> TRUE, lines |-> <<
     <<"service", console, "sh">>, <<"disabled">>, <<"service", zygote, "app_process64">>,
     <<"disabled">>, <<"on", "init">>, <<"start", console>> >>] >>
MCWord == {zygote, logd, console, "on", "init", "early-boot", "boot", "#", "shell", "mkdir",
           "/cache", "service", "class", "main", "late_start", "core", "class_start", "start",
           "disabled", "app_process", "app_process64", "logd", "sh", "p"}
MCCoreServices == <<[name |-> logd, class |-> "core"]>>

-----------------------------------------------------------------------------
(* The parser on all short scripts. *)

Lines == {<<>>, <<"#", "on">>, <<"on", "boot">>, <<"on">>, <<"service", zygote, "p">>,
          <<"service", console, "p">>, <<"class", "core">>, <<"class">>, <<"disabled">>,
          <<"start", zygote>>}
AsFile(kind, script) == [kind |-> kind, readable |-> TRUE, lines |-> script]

\* One script of three lines, and two of two and one.
ASSUME ParserChecked ==
  /\ \A s \in BoundedSeq(Lines, 3) : ParsedAsSaid(<<AsFile("root", s)>>)
  /\ \A s \in BoundedSeq(Lines, 2), t \in BoundedSeq(Lines, 1) :
       ParsedAsSaid(<<AsFile("root", s), AsFile("rc", t)>>)
=============================================================================
