---------------------------- MODULE InputBridge ----------------------------
(***************************************************************************)
(* The touch screen and the keys of the guest (input_bridge.cpp): the UI   *)
(* thread turns a touch or a key into a few input_event records, which it  *)
(* writes one by one, without waiting, to a FIFO the guest reads.  The     *)
(* FIFO is made anew whenever the activity is opened; who holds the old    *)
(* one reads it to its end.                                                *)
(*                                                                         *)
(* The guest is external: it takes each record to heart and believes what  *)
(* it has heard at SYN_REPORT.                                             *)
(***************************************************************************)
EXTENDS Integers, Sequences

CONSTANTS
  Places,      \* places on the screen, pairs of pixels
  Fingers,     \* pointer ids
  Keys,        \* key codes
  FifoCap,     \* records the FIFO has room for
  MaxTouches,  \* bound: touches, keys and further openings of the activity
  MaxInits     \* bound: how often the activity is opened

ASSUME InputAssumption ==
  /\ Places \subseteq Nat \X Nat /\ Fingers \subseteq Nat
  /\ Keys \cap {"track", "x", "y", "touch", "syn"} = {}
  /\ FifoCap \in Nat /\ MaxTouches \in Nat /\ MaxInits \in Nat \ {0}

VARIABLES
  mFifoFd,  \* the FIFO the host writes to, a number, or 0 for none
  fifo,     \* the records in each FIFO
  out,      \* what the call in progress has left to write
  down,     \* the fingers on the screen
  held,     \* the FIFO the guest reads, or 0
  view,     \* what the guest has heard, record by record
  shown,    \* what it believes, as of the last SYN_REPORT
  lastCall, \* history: the last touch or key that wrote anything
  whole,    \* history: the FIFO has taken every record of it
  touches, inits

inputVars == <<mFifoFd, fifo, out, down, held, view, shown, lastCall, whole, touches, inits>>

Axes        == {"track", "x", "y", "touch"}
Event       == [code : Axes \cup Keys \cup {"syn"}, value : Int]
View        == [Axes \cup Keys -> Int]
Untouched   == [a \in Axes \cup Keys |-> IF a = "track" THEN -1 ELSE 0]
Ev(c, v)    == [code |-> c, value |-> v]
Syn         == Ev("syn", 0)
Generations == 1 .. MaxInits

Calls  == [kind : {"down"}, finger : Fingers, at : Places] \cup [kind : {"move"}, at : Places]
          \cup [kind : {"up"}] \cup [kind : {"key"}, key : Keys]
NoTouch == [kind |-> "none"]

InputTypeOK ==
  /\ mFifoFd \in 0 .. MaxInits /\ held \in 0 .. MaxInits
  /\ fifo \in [Generations -> Seq(Event)]
  /\ \A g \in Generations : Len(fifo[g]) <= FifoCap
  /\ out \in Seq(Event) /\ down \subseteq Fingers
  /\ view \in View /\ shown \in View
  /\ lastCall \in Calls \cup {NoTouch} /\ whole \in BOOLEAN
  /\ touches \in 0 .. MaxTouches /\ inits \in 0 .. MaxInits

\* onCreate() has made a FIFO, or has failed to.
InputInit ==
  /\ mFifoFd \in {0, 1} /\ inits = 1 /\ held = 0
  /\ fifo = [g \in Generations |-> <<>>]
  /\ out = <<>> /\ down = {}
  /\ view = Untouched /\ shown = Untouched
  /\ lastCall = NoTouch /\ whole = FALSE
  /\ touches = 0

-----------------------------------------------------------------------------
(* The host: the UI thread. *)

\* A new FIFO in the place of the old one.  Where mkfifo() fails there is nothing to open,
\* whatever the warning says of a regular file, and the bridge is offline.
Initializes ==
  /\ out = <<>> /\ inits < MaxInits /\ touches < MaxTouches
  /\ inits' = inits + 1 /\ touches' = touches + 1
  /\ mFifoFd' \in {0, inits + 1}
  /\ fifo' = [g \in Generations |-> IF g = held THEN fifo[g] ELSE <<>>]
  /\ lastCall' = NoTouch /\ whole' = FALSE
  /\ UNCHANGED <<out, down, held, view, shown>>

\* Mutant: the lift of the finger is not followed by a SYN_REPORT.
RecordsUpUnsynced(c) ==
  LET x == Ev("x", c.at[1])
      y == Ev("y", c.at[2])
  IN CASE c.kind = "down" -> <<Ev("track", c.finger), x, y, Ev("touch", 1), Syn>>
       [] c.kind = "move" -> <<x, y, Syn>>
       [] c.kind = "up"   -> <<Ev("track", -1), Ev("touch", 0)>>
       [] c.kind = "key"  -> <<Ev(c.key, 1), Syn, Ev(c.key, 0), Syn>>

\* The records of a call, in the order in which they are written.
Records(c) ==
  LET x == Ev("x", c.at[1])
      y == Ev("y", c.at[2])
  IN CASE c.kind = "down" -> <<Ev("track", c.finger), x, y, Ev("touch", 1), Syn>>
       [] c.kind = "move" -> <<x, y, Syn>>
       [] c.kind = "up"   -> <<Ev("track", -1), Ev("touch", 0), Syn>>
       [] c.kind = "key"  -> <<Ev(c.key, 1), Syn, Ev(c.key, 0), Syn>>

\* A call of the bridge; without a FIFO it does nothing.
Injects(c) ==
  /\ out = <<>> /\ touches < MaxTouches
  /\ touches' = touches + 1
  /\ IF mFifoFd = 0 THEN UNCHANGED <<out, lastCall, whole>>
     ELSE out' = Records(c) /\ lastCall' = c /\ whole' = TRUE
  /\ UNCHANGED <<mFifoFd, fifo, held, view, shown, inits>>

\* The first finger's ACTION_DOWN, moves, the last finger's ACTION_UP or an ACTION_CANCEL.
FirstDown == \E f \in Fingers, at \in Places :
  down = {} /\ down' = {f} /\ Injects([kind |-> "down", finger |-> f, at |-> at])

Moves == \E at \in Places :
  down # {} /\ UNCHANGED down /\ Injects([kind |-> "move", at |-> at])

LastUp == down # {} /\ down' = {} /\ Injects([kind |-> "up"])

\* A further finger comes or goes (ACTION_POINTER_DOWN, ACTION_POINTER_UP): no case of
\* injectTouchEvent()'s switch.
OtherFinger ==
  /\ out = <<>> /\ down # {} /\ touches < MaxTouches
  /\ \E f \in Fingers : \/ f \notin down /\ down' = down \cup {f}
                        \/ f \in down /\ down # {f} /\ down' = down \ {f}
  /\ touches' = touches + 1
  /\ UNCHANGED <<mFifoFd, fifo, out, held, view, shown, lastCall, whole, inits>>

KeyClick == \E k \in Keys : UNCHANGED down /\ Injects([kind |-> "key", key |-> k])

\* write() of one record: it is taken whole, or refused where there is no room; nobody looks.
WritesEvent ==
  /\ out # <<>> /\ out' = Tail(out)
  /\ IF Len(fifo[mFifoFd]) < FifoCap
     THEN fifo' = [fifo EXCEPT ![mFifoFd] = Append(@, Head(out))] /\ UNCHANGED whole
     ELSE whole' = FALSE /\ UNCHANGED fifo
  /\ UNCHANGED <<mFifoFd, down, held, view, shown, lastCall, touches, inits>>

-----------------------------------------------------------------------------
(* The guest. *)

\* open() of the FIFO there is now; nobody reads the one it had before.
GuestOpens ==
  /\ mFifoFd \notin {0, held} /\ held' = mFifoFd
  /\ fifo' = [g \in Generations |-> IF g = mFifoFd THEN fifo[g] ELSE <<>>]
  /\ UNCHANGED <<mFifoFd, out, down, view, shown, lastCall, whole, touches, inits>>

GuestReads ==
  /\ held # 0 /\ fifo[held] # <<>>
  /\ LET e == Head(fifo[held]) IN
       IF e.code = "syn" THEN shown' = view /\ UNCHANGED view
       ELSE view' = [view EXCEPT ![e.code] = e.value] /\ UNCHANGED shown
  /\ fifo' = [fifo EXCEPT ![held] = Tail(@)]
  /\ UNCHANGED <<mFifoFd, out, down, held, lastCall, whole, touches, inits>>

InputBegins == Initializes \/ FirstDown \/ Moves \/ LastUp \/ OtherFinger \/ KeyClick

-----------------------------------------------------------------------------
(* Properties. *)

Agrees(v, c) ==
  CASE c.kind = "down" -> v.track = c.finger /\ v.touch = 1 /\ <<v.x, v.y>> = c.at
    [] c.kind = "move" -> <<v.x, v.y>> = c.at
    [] c.kind = "up"   -> v.track = -1 /\ v.touch = 0
    [] c.kind = "key"  -> v[c.key] = 0
    [] OTHER           -> TRUE

\* Once the guest has read everything of the FIFO the host writes to, it believes the last
\* call, if every record of that call found room: whatever was refused before, cut short or
\* left in an older FIFO, one whole call puts the screen right.
LastCallShows ==
  (out = <<>> /\ whole /\ held = mFifoFd /\ fifo[held] = <<>>) => Agrees(shown, lastCall)
=============================================================================
