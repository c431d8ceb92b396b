-------------------------- MODULE MCPropertyService --------------------------
(* A key start() sets by default, and one that it does not where there are two; a short   *)
(* and a long value.                                                                      *)
EXTENDS PropertyService

CONSTANTS short, long

MCWidth      == [v \in Values |-> IF v = short THEN 0 ELSE MaxWidth]
MCDefaults   == [k \in Keys |-> IF k = Debuggable THEN short ELSE Unset]
MCBuildProps == {[k \in Keys |-> long]}
=============================================================================
