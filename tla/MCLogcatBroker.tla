--------------------------- MODULE MCLogcatBroker ---------------------------
(* A bare header, which is dropped, a crash record, and a record whose buffer and priority
   are out of range. *)
EXTENDS LogcatBroker

MCPackets ==
  {[kind |-> "bare", id |-> 0, prio |-> 0],
   [kind |-> "log", id |-> 4, prio |-> 7],
   [kind |-> "log", id |-> 9, prio |-> 1]}
=============================================================================
