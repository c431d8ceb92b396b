----------------------------- MODULE GuestWorld -----------------------------
(***************************************************************************)
(* A guest process under the hooks, and the bridges of the host whose      *)
(* FIFO, files and properties it finds through them: the names of the      *)
(* input devices lead to the FIFO InputBridge has made last, those of the  *)
(* power supplies and sensors to the files of PowerAndSensors.             *)
(***************************************************************************)
EXTENDS HookEngine, InputBridge, PowerAndSensors

CONSTANT MaxMixed   \* bound: operations in a behaviour that mixes the three components

guestVars == <<hookVars, inputVars, powerVars>>

GuestTypeOK == HookTypeOK /\ InputTypeOK /\ PowerTypeOK

\* Without a sandbox nothing is initialised.
GuestInit ==
  /\ HookInit /\ InputInit /\ PowerInit
  /\ mFifoFd = 1 <=> mInitialized["battery"]

GuestBegins == \E t \in Threads :
  CallsIdentity(t) \/ CallsClose(t) \/ \E p \in Paths : OpensBinder(t, p)

GuestNames == \E t \in Threads :
  (\E p \in Names : Opens(t, p)) \/ \E s \in Sockets : Connects(t, s)

\* How much each component has done.
Done == <<calls, touches, updates + resets, uses>>

\* A component may do all its own bounds allow where the others do nothing.
Mixes(n) ==
  \/ \A i \in DOMAIN Done \ {n} : Done[i] = 0
  \/ n # 4 /\ Done[4] = 0 /\ Done[1] + Done[2] + Done[3] < MaxMixed

\* A name of an input device is that of the FIFO.
OpensTouch == \E t \in Threads, p \in Paths :
  /\ Mixes(2) /\ ~ IsBinder(p) /\ Redirect(p) = Sandbox \o Tmp("/touch_event")
  /\ call[t].pc = "none"
  /\ GuestOpens /\ UNCHANGED <<hookVars, powerVars>>

\* The UI's handlers are one thread's: a touch, a chip or a sensor's event waits for the
\* handler before it.
WorldBegins ==
  \/ Mixes(1) /\ GuestBegins /\ UNCHANGED <<inputVars, powerVars>>
  \/ Mixes(4) /\ GuestNames /\ UNCHANGED <<inputVars, powerVars>>
  \/ Mixes(2) /\ todo["ui"] = <<>> /\ InputBegins /\ UNCHANGED <<hookVars, powerVars>>
  \/ Mixes(3) /\ out = <<>> /\ UiBegins /\ UNCHANGED <<hookVars, inputVars>>
  \/ Mixes(3) /\ LiveBoots /\ UNCHANGED <<hookVars, inputVars>>

GuestStep(t) == HookStep(t) /\ UNCHANGED <<inputVars, powerVars>>
TouchStep    == (WritesEvent \/ GuestReads) /\ UNCHANGED <<hookVars, powerVars>>
HalStep(c)   == PowerStep(c) /\ UNCHANGED <<hookVars, inputVars>>
Settling     == Settles /\ out = <<>> /\ UNCHANGED <<hookVars, inputVars>>

GuestNext ==
  \/ WorldBegins \/ OpensTouch
  \/ \E t \in Threads : GuestStep(t)
  \/ TouchStep
  \/ \E c \in HalCallers : HalStep(c)
  \/ Settling

GuestSpec == GuestInit /\ [][GuestNext]_guestVars

\* Threads go on with what they have begun; nobody need begin anything.
GuestFairSpec == GuestSpec /\ \A t \in Threads : WF_guestVars(GuestStep(t))
=============================================================================
