------------------------ MODULE PropertyService_proofs ------------------------
(* Proofs about PropertyService for every set of keys and values. *)
EXTENDS PropertyService, FiniteSetTheorems, TLAPS

\* While the last flush to begin is undisturbed it is the only one: its copy has the one
\* value each key has, and it writes into an empty file.
FlushInv ==
  clean =>
    /\ \A t, u \in Threads : Flushing(t) /\ Flushing(u) => t = u
    /\ \A t \in Threads :
         call[t].pc = "trunc" => \A k \in Keys : call[t].seen[k] = {mProperties[k]}
    /\ \A t \in Threads :
         call[t].pc = "write" => call[t].text = mProperties /\ file.size = 0

\* The worker is in setProperty() only while it handles a guest.
WorkerInv == worker # "handle" => call["worker"].pc = "none"

SafetyInv == TypeOK /\ WorkerInv /\ FlushInv /\ LoneFlushShows /\ ServesOnlyWhileOn

\* Thread t goes to one of pcs, the others stay where they are.
Moves(t, pcs) ==
  /\ call' \in [Threads -> Calls]
  /\ call'[t].pc \in pcs
  /\ \A u \in Threads \ {t} : call'[u] = call[u]

-----------------------------------------------------------------------------
(* Shapes. *)

LEMMA SizeType == ASSUME NEW m \in Maps PROVE Size(m) \in Nat
<1> DEFINE S == Keys \X (0 .. MaxWidth)
           T == {p \in S : m[p[1]] # Unset /\ p[2] <= Width[m[p[1]]]}
<1>1. IsFiniteSet(0 .. MaxWidth)
  BY PropertyAssumption, FS_Interval DEF PropertyAssumption
<1>2. IsFiniteSet(S) BY <1>1, PropertyAssumption, FS_Product DEF PropertyAssumption
<1>3. T \subseteq S OBVIOUS
<1>4. IsFiniteSet(T) BY <1>2, <1>3, FS_Subset
<1>5. Cardinality(T) \in Nat BY <1>4, FS_CardinalityType
<1> QED BY <1>5 DEF Size

LEMMA NoneType == None \in Maps
BY DEF None, Maps

LEMMA NoCallType == NoCall \in Calls
<1>1. [k \in Keys |-> {}] \in [Keys -> SUBSET (Values \cup {Unset})] OBVIOUS
<1> QED BY <1>1, NoneType DEF NoCall, Calls, CallPcs

\* A record that goes on to another place is a call.
LEMMA GotoType ==
  ASSUME NEW c \in Calls, NEW pc \in CallPcs PROVE [c EXCEPT !.pc = pc] \in Calls
BY DEF Calls

\* So is a call another thread changes a value under.
LEMMA SeenType ==
  ASSUME NEW c \in Calls, NEW s \in [Keys -> SUBSET (Values \cup {Unset})],
         NEW d, d = [c EXCEPT !.seen = s]
  PROVE  d \in Calls /\ d.pc = c.pc /\ d.key = c.key /\ d.val = c.val
BY DEF Calls

\* And the call of a thread that begins a flush.
LEMMA FirstType ==
  ASSUME NEW s \in [Keys -> SUBSET (Values \cup {Unset})], NEW then \in {"none", "run"}
  PROVE  LET d == [NoCall EXCEPT !.pc = "trunc", !.seen = s, !.then = then]
         IN  d \in Calls /\ d.pc = "trunc" /\ d.seen = s
<1>1. NoCall \in Calls BY NoCallType
<1> QED BY <1>1 DEF Calls, CallPcs

LEMMA OverType == ASSUME NEW m \in Maps, NEW n \in Maps PROVE Over(m, n) \in Maps
BY DEF Over, Maps

\* What Change() does to the calls: thread t begins a flush of the new map, no other thread
\* moves, and a thread that writes keeps its text.
LEMMA ChangeShape ==
  ASSUME TypeOK, NEW t \in Threads, NEW new \in Maps, NEW then \in {"none", "run"},
         Change(t, new, then)
  PROVE  /\ mProperties' = new
         /\ call' \in [Threads -> Calls]
         /\ call'[t].pc = "trunc" /\ \A k \in Keys : call'[t].seen[k] = {new[k]}
         /\ \A u \in Threads \ {t} :
              call'[u].pc = call[u].pc /\ call'[u].key = call[u].key
              /\ call'[u].val = call[u].val
         /\ clean' = \A u \in Others(t) : ~Flushing(u)
         /\ file' = file
         /\ crashed' \in BOOLEAN
<1> DEFINE first == [NoCall EXCEPT !.pc = "trunc", !.seen = [k \in Keys |-> {new[k]}],
                                   !.then = then]
           more(u) == [call[u] EXCEPT !.seen = [k \in Keys |-> @[k] \cup {new[k]}]]
<1>1. first \in Calls /\ first.pc = "trunc" /\ first.seen = [k \in Keys |-> {new[k]}]
  <2> DEFINE s == [k \in Keys |-> {new[k]}]
  <2>1. s \in [Keys -> SUBSET (Values \cup {Unset})] BY DEF Maps
  <2>2. first = [NoCall EXCEPT !.pc = "trunc", !.seen = s, !.then = then] OBVIOUS
  <2> HIDE DEF s, first
  <2>3. first \in Calls /\ first.pc = "trunc" /\ first.seen = s
    BY <2>1, <2>2, FirstType
  <2> QED BY <2>3 DEF s
<1>2. ASSUME NEW u \in Threads
      PROVE  more(u) \in Calls /\ more(u).pc = call[u].pc /\ more(u).key = call[u].key
             /\ more(u).val = call[u].val
  <2> DEFINE s == [k \in Keys |-> call[u].seen[k] \cup {new[k]}]
  <2>1. call[u] \in Calls BY DEF TypeOK
  <2>2. s \in [Keys -> SUBSET (Values \cup {Unset})] BY <2>1 DEF Calls, Maps
  <2>3. more(u) = [call[u] EXCEPT !.seen = s] BY <2>1 DEF Calls
  <2> HIDE DEF s, more
  <2> QED BY <2>1, <2>2, <2>3, SeenType
<1>3. call' = [u \in Threads |-> IF u = t THEN first
                                 ELSE IF Copying(u) THEN more(u) ELSE call[u]]
  BY DEF Change
<1>4. call' \in [Threads -> Calls]
  <2>1. ASSUME NEW u \in Threads PROVE call[u] \in Calls BY DEF TypeOK
  <2> HIDE DEF first, more
  <2> QED BY <1>1, <1>2, <1>3, <2>1
<1>5. call'[t] = first BY <1>3
<1>6. ASSUME NEW u \in Threads \ {t}
      PROVE  call'[u].pc = call[u].pc /\ call'[u].key = call[u].key /\ call'[u].val = call[u].val
  <2>1. CASE Copying(u)
    <3>1. call'[u] = more(u) BY <1>3, <2>1
    <3> HIDE DEF more
    <3> QED BY <1>2, <3>1
  <2>2. CASE ~Copying(u) BY <1>3, <2>2
  <2> QED BY <2>1, <2>2
<1>7. mProperties' = new /\ file' = file /\ clean' = (\A u \in Others(t) : ~Flushing(u))
      /\ crashed' \in BOOLEAN
  BY DEF Change
<1>8. \A k \in Keys : first.seen[k] = {new[k]} BY <1>1
<1> HIDE DEF first
<1> QED BY <1>1, <1>4, <1>5, <1>6, <1>7, <1>8

LEMMA UpdateMoves ==
  ASSUME TypeOK, NEW t \in Threads, NEW c \in Calls, call' = [call EXCEPT ![t] = c]
  PROVE  Moves(t, {c.pc}) /\ call'[t] = c
BY DEF TypeOK, Moves

LEMMA ReturnMoves == ASSUME TypeOK, NEW t \in Threads, Return(t) PROVE Moves(t, {"none"})
BY UpdateMoves, NoCallType DEF Return, NoCall

LEMMA GotoMoves ==
  ASSUME TypeOK, NEW t \in Threads, NEW pc \in CallPcs, Goto(t, pc)
  PROVE  Moves(t, {pc})
<1> DEFINE c == [call[t] EXCEPT !.pc = pc]
<1>1. call[t] \in Calls BY DEF TypeOK
<1>2. c \in Calls BY <1>1, GotoType
<1>3. c.pc = pc BY <1>1 DEF Calls
<1>4. call' = [call EXCEPT ![t] = c] BY DEF Goto, TypeOK
<1> HIDE DEF c
<1> QED BY <1>2, <1>3, <1>4, UpdateMoves

LEMMA StartedMoves ==
  ASSUME TypeOK, NEW t \in Threads, Started(t)
  PROVE  Moves(t, {"none", "load"}) /\ sets' \in Nat
<1>1. CASE Return(t) /\ UNCHANGED sets
  BY <1>1, ReturnMoves DEF Moves, TypeOK
<1>2. CASE /\ call' = [call EXCEPT ![t] = [NoCall EXCEPT !.pc = "load"]]
           /\ sets' = sets + 1
  <2> DEFINE c == [NoCall EXCEPT !.pc = "load"]
  <2>1. c \in Calls BY NoCallType, GotoType DEF CallPcs
  <2>2. c.pc = "load" BY DEF NoCall
  <2>3. call' = [call EXCEPT ![t] = c] BY <1>2
  <2> HIDE DEF c
  <2>4. Moves(t, {"load"}) BY <2>1, <2>2, <2>3, UpdateMoves
  <2> QED BY <1>2, <2>4 DEF Moves, TypeOK
<1> QED BY <1>1, <1>2 DEF Started

LEMMA AfterFlushMoves ==
  ASSUME TypeOK, NEW t \in Threads, AfterFlush(t)
  PROVE  Moves(t, {"none", "run"})
<1>1. CASE call[t].then = "run"
  <2> DEFINE c == [NoCall EXCEPT !.pc = "run"]
  <2>1. c \in Calls BY NoCallType, GotoType DEF CallPcs
  <2>2. c.pc = "run" BY DEF NoCall
  <2>3. call' = [call EXCEPT ![t] = c] BY <1>1 DEF AfterFlush
  <2> HIDE DEF c
  <2>4. Moves(t, {"run"}) BY <2>1, <2>2, <2>3, UpdateMoves
  <2> QED BY <2>4 DEF Moves
<1>2. CASE call[t].then # "run"
  BY <1>2, ReturnMoves DEF AfterFlush, Moves
<1> QED BY <1>1, <1>2

\* A call of setProperty() carries its key and value.
LEMMA SetMoves ==
  ASSUME TypeOK, NEW t \in Threads, NEW k \in Keys, NEW v \in Values,
         call' = [call EXCEPT ![t] = [NoCall EXCEPT !.pc = "set", !.key = k, !.val = v]]
  PROVE  Moves(t, {"set"}) /\ call'[t].key = k /\ call'[t].val = v
<1> DEFINE c == [NoCall EXCEPT !.pc = "set", !.key = k, !.val = v]
<1>1. c \in Calls /\ c.pc = "set" /\ c.key = k /\ c.val = v
  <2>1. NoCall \in Calls BY NoCallType
  <2> QED BY <2>1 DEF Calls, CallPcs
<1> HIDE DEF c
<1>2. Moves(t, {c.pc}) /\ call'[t] = c BY <1>1, UpdateMoves DEF c
<1> QED BY <1>1, <1>2

\* A flush opens the file with a copy of the map.
LEMMA OpenMoves ==
  ASSUME TypeOK, NEW t \in Threads, OpenTrunc(t)
  PROVE  /\ Moves(t, {"write"})
         /\ \A k \in Keys : call'[t].text[k] \in call[t].seen[k]
         /\ file' = [text |-> None, size |-> 0]
         /\ UNCHANGED <<mProperties, lock, clean, service, counts, client, crashed>>
<1>1. PICK copy \in Maps :
        /\ \A k \in Keys : copy[k] \in call[t].seen[k]
        /\ call' = [call EXCEPT ![t].pc = "write", ![t].text = copy]
  BY DEF OpenTrunc
<1> DEFINE c == [call[t] EXCEPT !.pc = "write", !.text = copy]
<1>2. c \in Calls /\ c.pc = "write" /\ c.text = copy
  <2>1. call[t] \in Calls BY DEF TypeOK
  <2> QED BY <2>1 DEF Calls, CallPcs
<1>3. call' = [call EXCEPT ![t] = c] BY <1>1 DEF TypeOK
<1> HIDE DEF c
<1>4. Moves(t, {"write"}) /\ call'[t] = c BY <1>2, <1>3, UpdateMoves
<1> QED BY <1>1, <1>2, <1>4 DEF OpenTrunc

\* What a write() leaves in the file.
LEMMA WriteShape ==
  ASSUME TypeOK, NEW t \in Threads, Write(t)
  PROVE  /\ file' \in [text : Maps \cup {Torn}, size : Nat]
         /\ file.size = 0 => file'.text = call[t].text
         /\ Moves(t, {"none", "run"})
         /\ lock' \subseteq lock
         /\ UNCHANGED <<mProperties, clean, service, counts, client, crashed>>
<1> DEFINE m == call[t].text
<1>1. m \in Maps BY DEF TypeOK, Calls
<1>2. Size(m) \in Nat BY <1>1, SizeType
<1>3. Moves(t, {"none", "run"}) BY AfterFlushMoves DEF Write
<1>4. /\ file' = IF Size(m) >= file.size THEN [text |-> m, size |-> Size(m)]
                                         ELSE [file EXCEPT !.text = Torn]
      /\ lock' \subseteq lock
      /\ UNCHANGED <<mProperties, clean, service, counts, client, crashed>>
  BY DEF Write
<1>5. file \in [text : Maps \cup {Torn}, size : Nat] BY DEF TypeOK
<1> HIDE DEF m
<1>6. CASE Size(m) >= file.size
  <2>1. file' = [text |-> m, size |-> Size(m)] BY <1>4, <1>6
  <2> QED BY <1>1, <1>2, <1>3, <1>4, <2>1 DEF m
<1>7. CASE ~(Size(m) >= file.size)
  <2>1. file' = [file EXCEPT !.text = Torn] BY <1>4, <1>7
  <2>2. file' \in [text : Maps \cup {Torn}, size : Nat] BY <1>5, <2>1
  <2>3. file.size # 0 BY <1>2, <1>5, <1>7
  <2> QED BY <1>3, <1>4, <2>2, <2>3
<1> QED BY <1>6, <1>7

\* What a write() that fails leaves there.
LEMMA WriteFailsShape ==
  ASSUME TypeOK, NEW t \in Threads, WriteFails(t)
  PROVE  /\ file' \in [text : Maps \cup {Torn}, size : Nat]
         /\ Moves(t, {"none", "run"})
         /\ lock' \subseteq lock /\ clean' = FALSE
         /\ UNCHANGED <<mProperties, service, counts, client, crashed>>
<1>1. file \in [text : Maps \cup {Torn}, size : Nat] BY DEF TypeOK
<1>2. file' \in [text : Maps \cup {Torn}, size : Nat]
  <2>1. CASE UNCHANGED file BY <1>1, <2>1
  <2>2. ASSUME NEW n \in 1 .. Size(call[t].text) - 1,
               file' = [text |-> Torn, size |-> IF n >= file.size THEN n ELSE file.size]
        PROVE  file' \in [text : Maps \cup {Torn}, size : Nat]
    <3>1. n \in Nat BY <2>2, SizeType DEF TypeOK, Calls
    <3> QED BY <1>1, <2>2, <3>1
  <2> QED BY <2>1, <2>2 DEF WriteFails
<1>3. Moves(t, {"none", "run"}) BY AfterFlushMoves DEF WriteFails
<1> QED BY <1>2, <1>3 DEF WriteFails

-----------------------------------------------------------------------------
(* Types. *)

\* What TypeOK says of the calls.
CallTypes ==
  /\ call \in [Threads -> Calls]
  /\ \A t \in Threads : call[t].pc = "set" => call[t].key \in Keys /\ call[t].val \in Values

\* A move to anywhere but setProperty() keeps the calls' types.
LEMMA MovesType ==
  ASSUME TypeOK, NEW t \in Threads, NEW pcs, "set" \notin pcs, Moves(t, pcs)
  PROVE  CallTypes'
<1>1. call' \in [Threads -> Calls] BY DEF Moves
<1>2. ASSUME NEW u \in Threads, call'[u].pc = "set"
      PROVE  call'[u].key \in Keys /\ call'[u].val \in Values
  <2>1. u # t BY <1>2 DEF Moves
  <2>2. call'[u] = call[u] BY <2>1 DEF Moves
  <2> QED BY <1>2, <2>2 DEF TypeOK
<1> QED BY <1>1, <1>2 DEF CallTypes

LEMMA ChangeType ==
  ASSUME TypeOK, NEW t \in Threads, NEW new \in Maps, NEW then \in {"none", "run"},
         Change(t, new, then)
  PROVE  CallTypes' /\ mProperties' \in Maps /\ UNCHANGED file
         /\ clean' \in BOOLEAN /\ crashed' \in BOOLEAN
<1>1. ASSUME NEW u \in Threads, call'[u].pc = "set"
      PROVE  call'[u].key \in Keys /\ call'[u].val \in Values
  <2>1. u # t BY <1>1, ChangeShape
  <2>2. call'[u].pc = call[u].pc /\ call'[u].key = call[u].key /\ call'[u].val = call[u].val
    BY <2>1, ChangeShape
  <2> QED BY <1>1, <2>2 DEF TypeOK
<1>2. mProperties' = new /\ file' = file /\ call' \in [Threads -> Calls]
  BY ChangeShape
<1>3. clean' = (\A u \in Others(t) : ~Flushing(u)) /\ crashed' \in BOOLEAN
  BY ChangeShape
<1> QED BY <1>1, <1>2, <1>3 DEF CallTypes

LEMMA InitType == Init => TypeOK
<1> SUFFICES ASSUME Init PROVE TypeOK OBVIOUS
<1>1. PICK m \in BuildProps \cup {None} : file = [text |-> m, size |-> Size(m)] BY DEF Init
<1>2. m \in Maps BY NoneType, PropertyAssumption DEF PropertyAssumption
<1>3. Size(m) \in Nat BY <1>2, SizeType
<1>4. call \in [Threads -> Calls] BY NoCallType DEF Init
<1>5. \A t \in Threads : call[t].pc # "set" BY DEF Init, NoCall
<1>6. client \in Clients /\ client.asks # "setprop" BY DEF Init, NoClient, Clients
<1> QED BY <1>1, <1>2, <1>3, <1>4, <1>5, <1>6, NoneType DEF Init, TypeOK

LEMMA FlushType ==
  ASSUME TypeOK, NEW t \in Threads, FlushStep(t) PROVE TypeOK'
<1>1. CASE OpenTrunc(t)
  <2>1. CallTypes' BY <1>1, OpenMoves, MovesType
  <2>2. file' \in [text : Maps \cup {Torn}, size : Nat] BY <1>1, OpenMoves, NoneType
  <2>3. UNCHANGED <<mProperties, lock, clean, service, counts, client, crashed>>
    BY <1>1, OpenMoves
  <2> QED BY <2>1, <2>2, <2>3 DEF TypeOK, CallTypes, service, counts
<1>2. CASE Write(t)
  <2>1. CallTypes' BY <1>2, WriteShape, MovesType
  <2>2. file' \in [text : Maps \cup {Torn}, size : Nat] /\ lock' \subseteq lock
        /\ UNCHANGED <<mProperties, clean, service, counts, client, crashed>>
    BY <1>2, WriteShape
  <2> QED BY <2>1, <2>2 DEF TypeOK, CallTypes, service, counts
<1>3. CASE FlushFails(t)
  <2>1. CallTypes' BY <1>3, AfterFlushMoves, MovesType DEF FlushFails
  <2>2. clean' = FALSE /\ lock' \subseteq lock
        /\ UNCHANGED <<mProperties, file, service, counts, client, crashed>>
    BY <1>3 DEF FlushFails
  <2> QED BY <2>1, <2>2 DEF TypeOK, CallTypes, service, counts
<1>4. CASE WriteFails(t)
  <2>1. CallTypes' BY <1>4, WriteFailsShape, MovesType
  <2>2. /\ file' \in [text : Maps \cup {Torn}, size : Nat] /\ lock' \subseteq lock /\ clean' = FALSE
        /\ UNCHANGED <<mProperties, service, counts, client, crashed>>
    BY <1>4, WriteFailsShape
  <2> QED BY <2>1, <2>2 DEF TypeOK, CallTypes, service, counts
<1> QED BY <1>1, <1>2, <1>3, <1>4 DEF FlushStep

LEMMA SetsType ==
  ASSUME TypeOK, NEW t \in Threads, Set(t) \/ Load(t) \/ CallsSet(t) PROVE TypeOK'
<1>1. CASE Set(t)
  <2> DEFINE new == [mProperties EXCEPT ![call[t].key] = call[t].val]
  <2>1. new \in Maps BY <1>1 DEF Set, TypeOK, Maps
  <2>2. Change(t, new, "none") /\ UNCHANGED <<lock, service, counts, client>>
    BY <1>1 DEF Set
  <2> HIDE DEF new
  <2>3. CallTypes' /\ mProperties' \in Maps /\ UNCHANGED file
        /\ clean' \in BOOLEAN /\ crashed' \in BOOLEAN
    BY <2>1, <2>2, ChangeType
  <2> QED BY <2>2, <2>3 DEF TypeOK, CallTypes, service, counts
<1>2. CASE Load(t)
  <2>1. PICK content \in BuildProps :
          Change(t, Over(Over(content, mProperties), Defaults), "none")
    BY <1>2 DEF Load
  <2> DEFINE new == Over(Over(content, mProperties), Defaults)
  <2>2. new \in Maps BY OverType, PropertyAssumption DEF PropertyAssumption, TypeOK
  <2> HIDE DEF new
  <2>3. Change(t, new, "none") BY <2>1 DEF new
  <2>4. CallTypes' /\ mProperties' \in Maps /\ UNCHANGED file
        /\ clean' \in BOOLEAN /\ crashed' \in BOOLEAN
    BY <2>2, <2>3, ChangeType
  <2>5. lock' = {t} /\ UNCHANGED <<service, counts, client>> BY <1>2 DEF Load
  <2> QED BY <2>4, <2>5 DEF TypeOK, CallTypes, service, counts
<1>3. CASE CallsSet(t)
  <2>1. PICK k \in Keys, v \in Values :
          call' = [call EXCEPT ![t] = [NoCall EXCEPT !.pc = "set", !.key = k, !.val = v]]
    BY <1>3 DEF CallsSet
  <2>2. Moves(t, {"set"}) /\ call'[t].key = k /\ call'[t].val = v BY <2>1, SetMoves
  <2>3. CallTypes' BY <2>2 DEF Moves, CallTypes, TypeOK
  <2>4. sets' = sets + 1 /\ UNCHANGED <<store, service, starts, client, crashed>>
    BY <1>3 DEF CallsSet
  <2> QED BY <2>3, <2>4 DEF TypeOK, CallTypes, service, store
<1> QED BY <1>1, <1>2, <1>3

LEMMA StartType ==
  ASSUME TypeOK, NEW t \in Threads, StartStep(t) \/ CallsStart(t) PROVE TypeOK'
<1>1. CASE CallsStart(t)
  <2>1. CASE mIsRunning /\ Started(t) /\ UNCHANGED starts
    <3>1. CallTypes' /\ sets' \in Nat BY <2>1, StartedMoves, MovesType
    <3> QED BY <1>1, <2>1, <3>1 DEF CallsStart, TypeOK, CallTypes, service, store
  <2>2. CASE /\ ~mIsRunning /\ starts < MaxStarts
             /\ starts' = starts + 1
             /\ Goto(t, "bind")
             /\ UNCHANGED sets
    <3>1. CallTypes' BY <2>2, GotoMoves, MovesType DEF CallPcs
    <3> QED BY <1>1, <2>2, <3>1 DEF CallsStart, TypeOK, CallTypes, service, store
  <2> QED BY <1>1, <2>1, <2>2 DEF CallsStart
<1>2. CASE StartBinds(t)
  <2>1. CallTypes' BY <1>2, GotoMoves, MovesType DEF StartBinds, CallPcs
  <2> QED BY <1>2, <2>1 DEF StartBinds, TypeOK, CallTypes, store, counts
<1>3. CASE StartFails(t)
  <2>1. CallTypes' /\ sets' \in Nat
    <3>1. CASE t \in Boots BY <1>3, <3>1, StartedMoves, MovesType DEF StartFails
    <3>2. CASE t \notin Boots BY <1>3, <3>2, ReturnMoves, MovesType DEF StartFails, TypeOK
    <3> QED BY <3>1, <3>2
  <2> QED BY <1>3, <2>1 DEF StartFails, TypeOK, CallTypes, store, counts
<1>4. CASE StartDefaults(t)
  <2> DEFINE new == IF mProperties[Debuggable] = Unset THEN Over(Defaults, mProperties)
                    ELSE mProperties
  <2>1. new \in Maps BY OverType, PropertyAssumption DEF PropertyAssumption, TypeOK
  <2> HIDE DEF new
  <2>2. Change(t, new, "run") /\ UNCHANGED <<lock, service, counts, client>>
    BY <1>4 DEF StartDefaults, new
  <2>3. CallTypes' /\ mProperties' \in Maps /\ UNCHANGED file
        /\ clean' \in BOOLEAN /\ crashed' \in BOOLEAN
    BY <2>1, <2>2, ChangeType
  <2> QED BY <2>2, <2>3 DEF TypeOK, CallTypes, service, counts
<1>5. CASE StartRuns(t)
  <2>1. CallTypes' BY <1>5, GotoMoves, MovesType DEF StartRuns, CallPcs
  <2> QED BY <1>5, <2>1 DEF StartRuns, TypeOK, CallTypes, store, counts
<1>6. CASE StartThread(t)
  <2>1. CASE worker = "none"
    <3>1. CallTypes' /\ sets' \in Nat BY <1>6, <2>1, StartedMoves, MovesType DEF StartThread
    <3> QED BY <1>6, <2>1, <3>1 DEF StartThread, TypeOK, CallTypes, store
  <2>2. CASE worker # "none"
    BY <1>6, <2>2 DEF StartThread, TypeOK, store
  <2> QED BY <2>1, <2>2
<1> QED BY <1>1, <1>2, <1>3, <1>4, <1>5, <1>6 DEF StartStep

LEMMA StopType == ASSUME TypeOK, StopBegins \/ StopStep PROVE TypeOK'
<1>0. "ui" \in Threads BY DEF Threads
<1>1. CASE StopBegins
  <2>1. CallTypes' BY <1>0, <1>1, GotoMoves, MovesType DEF StopBegins, CallPcs
  <2> QED BY <1>1, <2>1 DEF StopBegins, TypeOK, CallTypes, store, counts
<1>2. CASE StopCloses
  <2>1. CallTypes' BY <1>0, <1>2, GotoMoves, MovesType DEF StopCloses, CallPcs
  <2>2. client' \in Clients /\ (client'.asks = "setprop" => client'.key \in Keys /\ client'.val \in Values)
    BY <1>2 DEF StopCloses, TypeOK, NoClient, Clients
  <2> QED BY <1>2, <2>1, <2>2 DEF StopCloses, TypeOK, CallTypes, store, counts
<1>3. CASE StopJoins
  <2>1. CallTypes' BY <1>0, <1>3, ReturnMoves, MovesType DEF StopJoins
  <2> QED BY <1>3, <2>1 DEF StopJoins, TypeOK, CallTypes, store, counts
<1> QED BY <1>1, <1>2, <1>3 DEF StopStep

LEMMA WorkerType == ASSUME TypeOK, WorkerStep PROVE TypeOK'
<1>1. CASE WorkerChecks BY <1>1 DEF WorkerChecks, TypeOK, store, counts
<1>2. CASE WorkerTimesOut BY <1>2 DEF WorkerTimesOut, TypeOK, store, counts
<1>3. CASE WorkerAccepts
  <2>1. client' \in Clients /\ client'.asks = client.asks /\ client'.key = client.key
        /\ client'.val = client.val
    BY <1>3 DEF WorkerAccepts, TypeOK, Clients
  <2> QED BY <1>3, <2>1 DEF WorkerAccepts, TypeOK, store, counts
<1>4. CASE WorkerReads
  <2>1. CASE client.asks = "setprop"
    <3>1. client.key \in Keys /\ client.val \in Values BY <2>1 DEF TypeOK
    <3>2. call' = [call EXCEPT !["worker"] =
                    [NoCall EXCEPT !.pc = "set", !.key = client.key, !.val = client.val]]
      BY <1>4, <2>1 DEF WorkerReads
    <3>3. "worker" \in Threads BY DEF Threads
    <3>4. Moves("worker", {"set"}) /\ call'["worker"].key = client.key
          /\ call'["worker"].val = client.val
      BY <3>1, <3>2, <3>3, SetMoves
    <3>5. CallTypes' BY <3>1, <3>3, <3>4 DEF Moves, CallTypes, TypeOK
    <3> QED BY <1>4, <3>5 DEF WorkerReads, TypeOK, CallTypes, store, counts
  <2>2. CASE client.asks # "setprop" BY <1>4, <2>2 DEF WorkerReads, TypeOK, store, counts
  <2> QED BY <2>1, <2>2
<1>5. CASE WorkerAnswers
  <2>1. NoClient \in Clients /\ NoClient.asks # "setprop" BY DEF NoClient, Clients
  <2> QED BY <1>5, <2>1 DEF WorkerAnswers, TypeOK, store, counts
<1> QED BY <1>1, <1>2, <1>3, <1>4, <1>5 DEF WorkerStep

LEMMA GuestType == ASSUME TypeOK, ClientConnects \/ ClientHangsUp PROVE TypeOK'
<1>1. CASE ClientConnects
  <2>1. client' \in Clients /\ sets' \in Nat
        /\ (client'.asks = "setprop" => client'.key \in Keys /\ client'.val \in Values)
    <3>1. CASE /\ \E k \in Keys, v \in Values :
                    client' = [at |-> "queued", asks |-> "setprop", key |-> k, val |-> v]
               /\ sets' = sets + 1
      BY <3>1 DEF TypeOK, Clients
    <3>2. CASE /\ \E request \in {"other", "silent"} :
                    client' = [NoClient EXCEPT !.at = "queued", !.asks = request]
               /\ UNCHANGED sets
      BY <3>2 DEF TypeOK, NoClient, Clients
    <3> QED BY <1>1, <3>1, <3>2 DEF ClientConnects
  <2> QED BY <1>1, <2>1 DEF ClientConnects, TypeOK, store, service
<1>2. CASE ClientHangsUp
  <2>1. client' \in Clients /\ client'.asks # "setprop"
    BY <1>2 DEF ClientHangsUp, TypeOK, NoClient, Clients
  <2> QED BY <1>2, <2>1 DEF ClientHangsUp, TypeOK, store, service, counts
<1> QED BY <1>1, <1>2

LEMMA TypeStep == TypeOK /\ [Next]_vars => TypeOK'
<1> SUFFICES ASSUME TypeOK, [Next]_vars PROVE TypeOK' OBVIOUS
<1>1. CASE UNCHANGED vars BY <1>1 DEF vars, store, service, counts, TypeOK
<1>2. CASE Step BY <1>2, SetsType, StartType, FlushType, StopType, WorkerType, GuestType
                DEF Step, CallStep
<1> QED BY <1>1, <1>2 DEF Next

-----------------------------------------------------------------------------
(* The file. *)

FileInv == FlushInv /\ LoneFlushShows

\* A step that leaves the store alone and moves no flush.
LEMMA ElsewhereFile ==
  ASSUME FileInv, UNCHANGED <<mProperties, file, clean>>,
         \A u \in Threads : Flushing(u) \/ Flushing(u)' => call'[u] = call[u]
  PROVE  FileInv'
<1>1. \A u \in Threads : Flushing(u)' <=> Flushing(u) BY DEF Flushing
<1>2. \A u \in Threads : Flushing(u) => call'[u] = call[u] OBVIOUS
<1>3. FlushInv'
  BY <1>1, <1>2 DEF FileInv, FlushInv, Flushing
<1>4. LoneFlushShows' BY <1>1 DEF FileInv, LoneFlushShows
<1> QED BY <1>3, <1>4 DEF FileInv

LEMMA MovesFile ==
  ASSUME FileInv, UNCHANGED store, NEW t \in Threads, NEW pcs, Moves(t, pcs),
         ~Flushing(t), "trunc" \notin pcs, "write" \notin pcs
  PROVE  FileInv'
<1>1. \A u \in Threads : Flushing(u) \/ Flushing(u)' => call'[u] = call[u]
  BY DEF Moves, Flushing
<1> QED BY <1>1, ElsewhereFile DEF store

\* A change that meets no flush is a lone one.
LEMMA ChangeFile ==
  ASSUME TypeOK, FileInv, NEW t \in Threads, NEW new \in Maps, NEW then \in {"none", "run"},
         Change(t, new, then), ~Flushing(t)
  PROVE  FileInv'
<1>1. /\ mProperties' = new
      /\ call'[t].pc = "trunc" /\ \A k \in Keys : call'[t].seen[k] = {new[k]}
      /\ \A u \in Threads \ {t} : call'[u].pc = call[u].pc
      /\ clean' = \A u \in Others(t) : ~Flushing(u)
  BY ChangeShape
<1>2. SUFFICES ASSUME clean' PROVE FileInv' BY DEF FileInv, FlushInv, LoneFlushShows
<1>3. \A u \in Threads : u # t => call'[u].pc \notin {"trunc", "write"}
  BY <1>1, <1>2 DEF Others, Flushing
<1>4. FlushInv' BY <1>1, <1>3 DEF FlushInv, Flushing
<1>5. LoneFlushShows' BY <1>1 DEF LoneFlushShows, Flushing
<1> QED BY <1>4, <1>5 DEF FileInv

LEMMA FlushFile ==
  ASSUME TypeOK, FileInv, NEW t \in Threads, FlushStep(t) PROVE FileInv'
<1>1. CASE OpenTrunc(t)
  <2>1. /\ Moves(t, {"write"})
        /\ \A k \in Keys : call'[t].text[k] \in call[t].seen[k]
        /\ file' = [text |-> None, size |-> 0]
        /\ UNCHANGED <<mProperties, clean>>
    BY <1>1, OpenMoves
  <2>2. call[t].pc = "trunc" BY <1>1 DEF OpenTrunc
  <2>3. SUFFICES ASSUME clean PROVE FileInv' BY <2>1 DEF FileInv, FlushInv, LoneFlushShows
  <2>4. \A u \in Threads : u # t => ~Flushing(u)
    BY <2>2, <2>3 DEF FileInv, FlushInv, Flushing
  <2>5. \A u \in Threads : u # t => call'[u].pc \notin {"trunc", "write"}
    BY <2>1, <2>4 DEF Moves, Flushing
  <2>6. \A k \in Keys : call'[t].text[k] = mProperties[k]
    BY <2>1, <2>2, <2>3 DEF FileInv, FlushInv
  <2>7. call'[t].text = mProperties'
    <3>1. call'[t].text \in Maps BY <2>1 DEF Moves, Calls
    <3>2. mProperties \in Maps BY DEF TypeOK
    <3> QED BY <2>1, <2>6, <3>1, <3>2 DEF Maps
  <2>8. call'[t].pc = "write" BY <2>1 DEF Moves
  <2>9. FlushInv' BY <2>1, <2>5, <2>7, <2>8 DEF FlushInv, Flushing
  <2>10. LoneFlushShows' BY <2>8 DEF LoneFlushShows, Flushing
  <2> QED BY <2>9, <2>10 DEF FileInv
<1>2. CASE Write(t)
  <2>1. /\ file.size = 0 => file'.text = call[t].text
        /\ Moves(t, {"none", "run"})
        /\ UNCHANGED <<mProperties, clean>>
    BY <1>2, WriteShape
  <2>2. call[t].pc = "write" BY <1>2 DEF Write
  <2>3. SUFFICES ASSUME clean PROVE FileInv' BY <2>1 DEF FileInv, FlushInv, LoneFlushShows
  <2>4. \A u \in Threads : call'[u].pc \notin {"trunc", "write"}
    BY <2>1, <2>2, <2>3 DEF FileInv, FlushInv, Flushing, Moves
  <2>5. file'.text = mProperties' BY <2>1, <2>2, <2>3 DEF FileInv, FlushInv
  <2>6. FlushInv' BY <2>4 DEF FlushInv, Flushing
  <2>7. LoneFlushShows' BY <2>5 DEF LoneFlushShows
  <2> QED BY <2>6, <2>7 DEF FileInv
<1>3. CASE FlushFails(t)
  BY <1>3 DEF FlushFails, FileInv, FlushInv, LoneFlushShows
<1>4. CASE WriteFails(t)
  BY <1>4 DEF WriteFails, FileInv, FlushInv, LoneFlushShows
<1> QED BY <1>1, <1>2, <1>3, <1>4 DEF FlushStep

LEMMA SetsFile ==
  ASSUME TypeOK, FileInv, NEW t \in Threads, Set(t) \/ Load(t) \/ CallsSet(t) PROVE FileInv'
<1>1. CASE Set(t)
  <2> DEFINE new == [mProperties EXCEPT ![call[t].key] = call[t].val]
  <2>1. new \in Maps BY <1>1 DEF Set, TypeOK, Maps
  <2>2. Change(t, new, "none") /\ ~Flushing(t) BY <1>1 DEF Set, Flushing
  <2> HIDE DEF new
  <2> QED BY <2>1, <2>2, ChangeFile
<1>2. CASE Load(t)
  <2>1. PICK content \in BuildProps :
          Change(t, Over(Over(content, mProperties), Defaults), "none")
    BY <1>2 DEF Load
  <2> DEFINE new == Over(Over(content, mProperties), Defaults)
  <2>2. new \in Maps BY OverType, PropertyAssumption DEF PropertyAssumption, TypeOK
  <2> HIDE DEF new
  <2>3. Change(t, new, "none") /\ ~Flushing(t) BY <1>2, <2>1 DEF new, Load, Flushing
  <2> QED BY <2>2, <2>3, ChangeFile
<1>3. CASE CallsSet(t)
  <2>1. PICK k \in Keys, v \in Values :
          call' = [call EXCEPT ![t] = [NoCall EXCEPT !.pc = "set", !.key = k, !.val = v]]
    BY <1>3 DEF CallsSet
  <2>2. Moves(t, {"set"}) BY <2>1, SetMoves
  <2>3. ~Flushing(t) /\ UNCHANGED store BY <1>3 DEF CallsSet, Flushing
  <2> QED BY <2>2, <2>3, MovesFile
<1> QED BY <1>1, <1>2, <1>3

LEMMA StartFile ==
  ASSUME TypeOK, FileInv, NEW t \in Threads, StartStep(t) \/ CallsStart(t) PROVE FileInv'
<1>1. CASE StartDefaults(t)
  <2> DEFINE new == IF mProperties[Debuggable] = Unset THEN Over(Defaults, mProperties)
                    ELSE mProperties
  <2>1. new \in Maps BY OverType, PropertyAssumption DEF PropertyAssumption, TypeOK
  <2> HIDE DEF new
  <2>2. Change(t, new, "run") /\ ~Flushing(t) BY <1>1 DEF StartDefaults, new, Flushing
  <2> QED BY <2>1, <2>2, ChangeFile
<1>2. CASE CallsStart(t)
  <2>1. ~Flushing(t) /\ UNCHANGED store BY <1>2 DEF CallsStart, Flushing
  <2>2. Moves(t, {"none", "load"}) \/ Moves(t, {"bind"})
    BY <1>2, StartedMoves, GotoMoves DEF CallsStart, CallPcs
  <2> QED BY <2>1, <2>2, MovesFile
<1>3. CASE StartBinds(t) \/ StartRuns(t)
  <2>1. ~Flushing(t) /\ UNCHANGED store BY <1>3 DEF StartBinds, StartRuns, Flushing
  <2>2. Moves(t, {"defaults"}) \/ Moves(t, {"thread"})
    BY <1>3, GotoMoves DEF StartBinds, StartRuns, CallPcs
  <2> QED BY <2>1, <2>2, MovesFile
<1>4. CASE StartFails(t)
  <2>1. ~Flushing(t) /\ UNCHANGED store BY <1>4 DEF StartFails, Flushing
  <2>2. Moves(t, {"none", "load"}) \/ Moves(t, {"none"})
    BY <1>4, StartedMoves, ReturnMoves DEF StartFails
  <2> QED BY <2>1, <2>2, MovesFile
<1>5. CASE StartThread(t)
  <2>1. ~Flushing(t) /\ UNCHANGED store BY <1>5 DEF StartThread, Flushing
  <2>2. Moves(t, {"none", "load"}) \/ UNCHANGED call
    BY <1>5, StartedMoves DEF StartThread
  <2>3. CASE Moves(t, {"none", "load"}) BY <2>1, <2>3, MovesFile
  <2>4. CASE UNCHANGED call BY <2>1, <2>4, ElsewhereFile DEF store
  <2> QED BY <2>2, <2>3, <2>4
<1> QED BY <1>1, <1>2, <1>3, <1>4, <1>5 DEF StartStep

\* A worker that reads a request is in no call yet.
LEMMA OtherFile ==
  ASSUME TypeOK, WorkerInv, FileInv,
         StopBegins \/ StopStep \/ WorkerStep \/ ClientConnects \/ ClientHangsUp
  PROVE  FileInv'
<1>0. "ui" \in Threads /\ "worker" \in Threads BY DEF Threads
<1>1. CASE StopBegins \/ StopStep
  <2>1. ~Flushing("ui") /\ UNCHANGED store
    BY <1>1 DEF StopBegins, StopStep, StopCloses, StopJoins, Flushing
  <2>2. Moves("ui", {"close"}) \/ Moves("ui", {"join"}) \/ Moves("ui", {"none"})
    BY <1>0, <1>1, GotoMoves, ReturnMoves
       DEF StopBegins, StopStep, StopCloses, StopJoins, CallPcs
  <2> QED BY <1>0, <2>1, <2>2, MovesFile
<1>2. CASE WorkerReads /\ client.asks = "setprop"
  <2>1. client.key \in Keys /\ client.val \in Values BY <1>2 DEF TypeOK
  <2>2. call' = [call EXCEPT !["worker"] =
                  [NoCall EXCEPT !.pc = "set", !.key = client.key, !.val = client.val]]
    BY <1>2 DEF WorkerReads
  <2>3. Moves("worker", {"set"}) BY <1>0, <2>1, <2>2, SetMoves
  <2>4. ~Flushing("worker") /\ UNCHANGED store
    BY <1>2 DEF WorkerInv, WorkerReads, Flushing
  <2> QED BY <1>0, <2>3, <2>4, MovesFile
<1>3. CASE UNCHANGED <<store, call>> BY <1>3, ElsewhereFile DEF store
<1>4. UNCHANGED <<store, call>> \/ (WorkerReads /\ client.asks = "setprop")
      \/ StopBegins \/ StopStep
  BY DEF WorkerStep, WorkerChecks, WorkerTimesOut, WorkerAccepts, WorkerReads, WorkerAnswers,
         ClientConnects, ClientHangsUp
<1> QED BY <1>1, <1>2, <1>3, <1>4

-----------------------------------------------------------------------------
(* The worker and the service. *)

ServiceInv == WorkerInv /\ ServesOnlyWhileOn

\* A step of another thread that is not in stop(), and leaves flag and worker alone.
LEMMA MovesService ==
  ASSUME ServiceInv, NEW t \in Threads, t # "worker" \/ call["worker"].pc # "none",
         UNCHANGED <<mIsRunning, worker>>, call[t].pc \notin {"close", "join"},
         \A u \in Threads \ {t} : call'[u].pc = call[u].pc
  PROVE  ServiceInv'
<1>0. "ui" \in Threads /\ "worker" \in Threads BY DEF Threads
<1>1. WorkerInv' BY <1>0 DEF ServiceInv, WorkerInv
<1>2. ServesOnlyWhileOn' BY <1>0 DEF ServiceInv, ServesOnlyWhileOn
<1> QED BY <1>1, <1>2 DEF ServiceInv

LEMMA SetsService ==
  ASSUME TypeOK, ServiceInv, NEW t \in Threads,
         Set(t) \/ Load(t) \/ CallsSet(t) \/ FlushStep(t) \/ StartDefaults(t)
  PROVE  ServiceInv'
<1>1. t # "worker" \/ call["worker"].pc # "none"
  BY DEF Set, Load, CallsSet, FlushStep, OpenTrunc, Write, WriteFails, FlushFails, StartDefaults
<1>2. UNCHANGED <<mIsRunning, worker>> /\ call[t].pc \notin {"close", "join"}
  BY DEF Set, Load, CallsSet, FlushStep, OpenTrunc, Write, WriteFails, FlushFails, StartDefaults, service
<1>3. \A u \in Threads \ {t} : call'[u].pc = call[u].pc
  <2>1. ASSUME NEW new, NEW then, Change(t, new, then), NEW u \in Threads \ {t}
        PROVE  call'[u].pc = call[u].pc
    <3>1. call[u] \in Calls BY DEF TypeOK
    <3>2. CASE Copying(u)
      <4>1. call'[u] = [call[u] EXCEPT !.seen = [k \in Keys |-> @[k] \cup {new[k]}]]
        BY <2>1, <3>2 DEF Change
      <4> QED BY <3>1, <4>1 DEF Calls
    <3>3. CASE ~Copying(u) BY <2>1, <3>3 DEF Change
    <3> QED BY <3>2, <3>3
  <2>2. CASE Set(t) \/ Load(t) \/ StartDefaults(t)
    BY <2>1, <2>2 DEF Set, Load, StartDefaults
  <2>3. CASE CallsSet(t) BY <2>3 DEF CallsSet, TypeOK
  <2>4. CASE FlushStep(t)
    <3>1. Moves(t, {"write"}) \/ Moves(t, {"none", "run"})
      BY <2>4, OpenMoves, WriteShape, WriteFailsShape, AfterFlushMoves DEF FlushStep, FlushFails
    <3> QED BY <3>1 DEF Moves
  <2> QED BY <2>2, <2>3, <2>4
<1> QED BY <1>1, <1>2, <1>3, MovesService

LEMMA StartService ==
  ASSUME TypeOK, ServiceInv, NEW t \in Threads,
         CallsStart(t) \/ StartBinds(t) \/ StartFails(t) \/ StartRuns(t) \/ StartThread(t)
  PROVE  ServiceInv'
<1>0. "ui" \in Threads /\ "worker" \in Threads BY DEF Threads
<1>1. t # "worker" \/ call["worker"].pc # "none"
  BY DEF CallsStart, StartBinds, StartFails, StartRuns, StartThread
<1>2. call[t].pc \notin {"close", "join"}
  BY DEF CallsStart, StartBinds, StartFails, StartRuns, StartThread
<1>3. \A u \in Threads \ {t} : call'[u].pc = call[u].pc
  <2>1. \/ \E pcs \in SUBSET CallPcs : Moves(t, pcs)
        \/ UNCHANGED call
    BY StartedMoves, GotoMoves, ReturnMoves
       DEF CallsStart, StartBinds, StartFails, StartRuns, StartThread, CallPcs
  <2> QED BY <2>1 DEF Moves
<1>4. CASE CallsStart(t) \/ StartBinds(t) \/ StartFails(t)
  <2>1. UNCHANGED <<mIsRunning, worker>> BY <1>4 DEF CallsStart, StartBinds, StartFails, service
  <2> QED BY <1>1, <1>2, <1>3, <2>1, MovesService
<1>5. CASE StartRuns(t)
  BY <1>0, <1>1, <1>3, <1>5 DEF StartRuns, ServiceInv, WorkerInv, ServesOnlyWhileOn
<1>6. CASE StartThread(t)
  <2>1. CASE worker = "none"
    <3>1. t # "worker" BY <1>6, <2>1 DEF ServiceInv, WorkerInv, StartThread
    <3>2. call["worker"].pc = "none" BY <2>1 DEF ServiceInv, WorkerInv
    <3>3. call'["worker"].pc = "none" BY <1>0, <1>3, <3>1, <3>2
    <3>4. worker' = "check" BY <1>6, <2>1 DEF StartThread
    <3> QED BY <3>3, <3>4 DEF ServiceInv, WorkerInv, ServesOnlyWhileOn
  <2>2. CASE worker # "none"
    BY <1>6, <2>2 DEF StartThread, ServiceInv, WorkerInv, ServesOnlyWhileOn
  <2> QED BY <2>1, <2>2
<1> QED BY <1>4, <1>5, <1>6

LEMMA StopService ==
  ASSUME TypeOK, ServiceInv, StopBegins \/ StopStep PROVE ServiceInv'
<1>0. "ui" \in Threads /\ "worker" \in Threads BY DEF Threads
<1>1. call'["worker"] = call["worker"]
  BY <1>0 DEF StopBegins, StopStep, StopCloses, StopJoins, Goto, Return, TypeOK
<1>2. CASE StopBegins
  <2>1. Moves("ui", {"close"}) BY <1>0, <1>2, GotoMoves DEF StopBegins, CallPcs
  <2> QED BY <1>1, <1>2, <2>1 DEF StopBegins, Moves, ServiceInv, WorkerInv, ServesOnlyWhileOn
<1>3. CASE StopCloses
  <2>1. Moves("ui", {"join"}) BY <1>0, <1>3, GotoMoves DEF StopCloses, CallPcs
  <2> QED BY <1>1, <1>3, <2>1 DEF StopCloses, Moves, ServiceInv, WorkerInv, ServesOnlyWhileOn
<1>4. CASE StopJoins
  BY <1>1, <1>4 DEF StopJoins, ServiceInv, WorkerInv, ServesOnlyWhileOn
<1> QED BY <1>2, <1>3, <1>4 DEF StopStep

LEMMA WorkerService ==
  ASSUME TypeOK, ServiceInv, WorkerStep PROVE ServiceInv'
<1>0. "ui" \in Threads /\ "worker" \in Threads BY DEF Threads
<1>1. CASE WorkerReads
  <2>1. call'["ui"] = call["ui"] BY <1>0, <1>1 DEF WorkerReads, TypeOK
  <2> QED BY <1>1, <2>1 DEF WorkerReads, ServiceInv, WorkerInv, ServesOnlyWhileOn
<1>2. CASE WorkerChecks \/ WorkerTimesOut \/ WorkerAccepts \/ WorkerAnswers
  BY <1>2 DEF WorkerChecks, WorkerTimesOut, WorkerAccepts, WorkerAnswers, ServiceInv, WorkerInv,
              ServesOnlyWhileOn
<1> QED BY <1>1, <1>2 DEF WorkerStep

-----------------------------------------------------------------------------
(* The invariant and the theorems. *)

LEMMA SafetyInit == Init => SafetyInv
<1> SUFFICES ASSUME Init PROVE SafetyInv OBVIOUS
<1>1. TypeOK BY InitType
<1>2. ~clean /\ worker = "none" /\ call["worker"].pc = "none" BY DEF Init, NoCall, Threads
<1> QED BY <1>1, <1>2 DEF SafetyInv, WorkerInv, FlushInv, LoneFlushShows, ServesOnlyWhileOn

LEMMA SafetyStep == SafetyInv /\ [Next]_vars => SafetyInv'
<1> SUFFICES ASSUME SafetyInv, [Next]_vars PROVE SafetyInv' OBVIOUS
<1> USE DEF SafetyInv, FileInv, ServiceInv
<1>1. TypeOK' BY TypeStep
<1>2. CASE UNCHANGED vars
  <2>1. UNCHANGED <<mProperties, file, clean, call, mIsRunning, worker>>
    BY <1>2 DEF vars, store, service
  <2> QED BY <1>1, <2>1
          DEF WorkerInv, FlushInv, LoneFlushShows, ServesOnlyWhileOn, Flushing
<1>3. ASSUME NEW t \in Threads, CallsSet(t) \/ CallsStart(t) \/ CallStep(t) PROVE SafetyInv'
  <2>1. FileInv' BY <1>3, SetsFile, StartFile, FlushFile DEF CallStep
  <2>2. ServiceInv' BY <1>3, SetsService, StartService DEF CallStep, StartStep
  <2> QED BY <1>1, <2>1, <2>2
<1>4. CASE StopBegins \/ StopStep \/ WorkerStep
  <2>1. FileInv' BY <1>4, OtherFile
  <2>2. ServiceInv' BY <1>4, StopService, WorkerService
  <2> QED BY <1>1, <2>1, <2>2
<1>5. CASE ClientConnects \/ ClientHangsUp
  <2>1. FileInv' BY <1>5, OtherFile
  <2>2. UNCHANGED <<call, mIsRunning, worker>>
    BY <1>5 DEF ClientConnects, ClientHangsUp, service
  <2>3. ServiceInv' BY <2>2 DEF WorkerInv, ServesOnlyWhileOn
  <2> QED BY <1>1, <2>1, <2>3
<1> QED BY <1>2, <1>3, <1>4, <1>5 DEF Next, Step

\* The inductive invariant holds in every reachable state of start(), stop(), setProperty(),
\* loadFromBuildProp() and the worker.
THEOREM SafetyHolds == Spec => []SafetyInv
BY SafetyInit, SafetyStep, PTL DEF Spec

\* TypeOK: every variable of the property service keeps its type.
THEOREM TypeCorrect == Spec => []TypeOK
<1>1. SafetyInv => TypeOK BY DEF SafetyInv
<1> QED BY <1>1, SafetyHolds, PTL

\* LoneFlushShows: once a flush that met no other has ended, the file that guests read is
\* the map, for every set of keys and values.
THEOREM LoneFlushAlwaysShows == Spec => []LoneFlushShows
<1>1. SafetyInv => LoneFlushShows BY DEF SafetyInv
<1> QED BY <1>1, SafetyHolds, PTL

\* ServesOnlyWhileOn: no guest is served after stop() has returned and before start().
THEOREM AlwaysServesOnlyWhileOn == Spec => []ServesOnlyWhileOn
<1>1. SafetyInv => ServesOnlyWhileOn BY DEF SafetyInv
<1> QED BY <1>1, SafetyHolds, PTL
=============================================================================
