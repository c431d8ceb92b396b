--------------------------- MODULE PropertyService ---------------------------
(***************************************************************************)
(* The property service (property_service.cpp): a map under mPropMutex, a  *)
(* text file that guests read the properties from, and a worker that takes *)
(* setprop and getprop requests from a socket.  The UI thread starts and   *)
(* stops the service; the live boot and the worker of the boot manager     *)
(* start it too, without looking at the result.  They all set properties.  *)
(*                                                                         *)
(* flushPropertiesToFile() runs without the mutex, except when it is       *)
(* called by loadFromBuildProp().  It copies the map while others change   *)
(* it, truncates the file and writes the copy: a flush is three steps, the *)
(* change of the map, the truncation and the write, and the copy holds for *)
(* each key a value the key had between the first two.  A text is the copy *)
(* and its length; `Torn` is a text that ends with a rest of a longer one, *)
(* or one that a failing write() has cut short.                            *)
(***************************************************************************)
EXTENDS Integers, FiniteSets

CONSTANTS
  Boots,       \* the threads that boot: the live boot and the boot worker
  Keys,        \* property names
  Values,      \* property values
  Width,       \* the length of each value
  MaxWidth,    \* the greatest of them
  Unset,       \* no value
  NoKey,       \* no key
  Debuggable,  \* the key whose absence start() takes for an empty map
  Defaults,    \* the values start() and loadFromBuildProp() fall back to
  BuildProps,  \* contents of a build.prop, and what an earlier process left in the file
  Torn,        \* a text that is no copy of the map
  MaxStarts,   \* bound: calls of start() that get past the first check
  MaxSets      \* bound: calls of setProperty() and loadFromBuildProp()

Threads == {"ui", "worker"} \cup Boots
Maps    == [Keys -> Values \cup {Unset}]
None    == [k \in Keys |-> Unset]

ASSUME PropertyAssumption ==
  /\ "ui" \notin Boots /\ "worker" \notin Boots
  /\ Unset \notin Values /\ NoKey \notin Keys /\ Torn \notin Maps
  /\ IsFiniteSet(Keys)
  /\ MaxWidth \in Nat /\ Width \in [Values -> 0 .. MaxWidth]
  /\ Debuggable \in Keys
  /\ Defaults \in Maps /\ Defaults[Debuggable] # Unset
  /\ BuildProps \subseteq Maps
  /\ MaxStarts \in Nat /\ MaxSets \in Nat

VARIABLES
  mProperties,
  lock,        \* who holds mPropMutex between two steps, a set of at most one
  file,        \* __properties_text__: its text and length
  mIsRunning,
  bound,       \* mServerFd names a listening socket
  call,        \* what each thread is doing in the service
  worker,      \* the worker thread outside setProperty()
  hears,       \* the worker's pollfd names that socket
  client,      \* the guest at the socket
  starts, sets,
  clean,       \* history: nothing disturbed the flush that began last
  crashed      \* undefined behaviour or std::terminate has ended the process

store   == <<mProperties, lock, file, clean>>
service == <<mIsRunning, bound, worker, hears>>
counts  == <<starts, sets>>
vars    == <<store, service, call, counts, client, crashed>>

NoCall  == [pc |-> "none", key |-> NoKey, val |-> Unset, seen |-> [k \in Keys |-> {}],
            text |-> None, then |-> "none"]
CallPcs == {"none", "set", "load", "trunc", "write", "bind", "defaults", "run", "thread",
            "close", "join"}
Calls   == [pc : CallPcs, key : Keys \cup {NoKey}, val : Values \cup {Unset},
            seen : [Keys -> SUBSET (Values \cup {Unset})], text : Maps, then : {"none", "run"}]

Clients == [at : {"away", "queued", "accepted"}, asks : {"away", "setprop", "other", "silent"},
            key : Keys \cup {NoKey}, val : Values \cup {Unset}]
NoClient == [at |-> "away", asks |-> "away", key |-> NoKey, val |-> Unset]

TypeOK ==
  /\ mProperties \in Maps
  /\ lock \subseteq Threads
  /\ file \in [text : Maps \cup {Torn}, size : Nat]
  /\ mIsRunning \in BOOLEAN /\ bound \in BOOLEAN /\ hears \in BOOLEAN
  /\ call \in [Threads -> Calls]
  /\ \A t \in Threads : call[t].pc = "set" => call[t].key \in Keys /\ call[t].val \in Values
  /\ worker \in {"none", "check", "poll", "read", "handle", "done"}
  /\ client \in Clients
  /\ client.asks = "setprop" => client.key \in Keys /\ client.val \in Values
  /\ starts \in Nat /\ sets \in Nat
  /\ clean \in BOOLEAN /\ crashed \in BOOLEAN

\* The length of a text: a mark for every line, and the width of its value.
Size(m) ==
  Cardinality({p \in Keys \X (0 .. MaxWidth) : m[p[1]] # Unset /\ p[2] <= Width[m[p[1]]]})

\* The file is what an earlier process left.
Init ==
  /\ mProperties = None /\ lock = {} /\ clean = FALSE
  /\ file \in {[text |-> m, size |-> Size(m)] : m \in BuildProps \cup {None}}
  /\ mIsRunning = FALSE /\ bound = FALSE /\ worker = "none" /\ hears = FALSE
  /\ call = [t \in Threads |-> NoCall]
  /\ client = NoClient
  /\ starts = 0 /\ sets = 0
  /\ crashed = FALSE

-----------------------------------------------------------------------------
(* The map and its file. *)

\* m where it has a value, n elsewhere.
Over(m, n) == [k \in Keys |-> IF m[k] # Unset THEN m[k] ELSE n[k]]

Goto(t, pc)  == call' = [call EXCEPT ![t].pc = pc]
Return(t)    == call' = [call EXCEPT ![t] = NoCall]
Copying(t)   == call[t].pc = "trunc"
Flushing(t)  == call[t].pc \in {"trunc", "write"}
Others(t)    == Threads \ {t}

\* A change of the map, after which thread t copies it.  Other threads may be copying and
\* see the old or the new value of a key; iterating over the changing map may be the end.
Change(t, new, then) ==
  /\ lock = {}
  /\ mProperties' = new
  /\ call' = [u \in Threads |->
       IF u = t THEN [NoCall EXCEPT !.pc = "trunc", !.seen = [k \in Keys |-> {new[k]}],
                                    !.then = then]
       ELSE IF Copying(u) THEN [call[u] EXCEPT !.seen = [k \in Keys |-> @[k] \cup {new[k]}]]
       ELSE call[u]]
  /\ clean' = \A u \in Others(t) : ~Flushing(u)
  /\ crashed' = FALSE \/ crashed' = \E u \in Others(t) : Copying(u)
  /\ UNCHANGED file

\* Mutant: the file is opened without O_TRUNC.
OpenWithoutTrunc(t) ==
  /\ call[t].pc = "trunc"
  /\ \E copy \in Maps :
       /\ \A k \in Keys : copy[k] \in call[t].seen[k]
       /\ call' = [call EXCEPT ![t].pc = "write", ![t].text = copy]
  /\ UNCHANGED <<mProperties, lock, file, clean, service, counts, client, crashed>>

\* The copy is complete and the file is opened with O_TRUNC.
OpenTrunc(t) ==
  /\ call[t].pc = "trunc"
  /\ \E copy \in Maps :
       /\ \A k \in Keys : copy[k] \in call[t].seen[k]
       /\ call' = [call EXCEPT ![t].pc = "write", ![t].text = copy]
  /\ file' = [text |-> None, size |-> 0]
  /\ UNCHANGED <<mProperties, lock, clean, service, counts, client, crashed>>

\* What follows a flush: the next step of start(), or the end of the call.
AfterFlush(t) ==
  IF call[t].then = "run" THEN call' = [call EXCEPT ![t] = [NoCall EXCEPT !.pc = "run"]]
  ELSE Return(t)

\* Mutant: loadFromBuildProp() does not let go of the mutex.
WriteKeepsLock(t) ==
  /\ call[t].pc = "write"
  /\ LET m == call[t].text IN
       file' = IF Size(m) >= file.size THEN [text |-> m, size |-> Size(m)]
                                       ELSE [file EXCEPT !.text = Torn]
  /\ AfterFlush(t)
  /\ UNCHANGED <<mProperties, lock, clean, service, counts, client, crashed>>

\* One write() from the start of the file.  What another thread has written beyond the
\* end of this text stays.
Write(t) ==
  /\ call[t].pc = "write"
  /\ LET m == call[t].text IN
       file' = IF Size(m) >= file.size THEN [text |-> m, size |-> Size(m)]
                                       ELSE [file EXCEPT !.text = Torn]
  /\ lock' = lock \ {t}
  /\ AfterFlush(t)
  /\ UNCHANGED <<mProperties, clean, service, counts, client, crashed>>

\* write() fails or is short, and nobody looks at its result: the file stays as it is, or
\* only a beginning of the text is written over it.
WriteFails(t) ==
  /\ call[t].pc = "write"
  /\ \/ UNCHANGED file
     \/ /\ file.text # call[t].text
        /\ \E n \in 1 .. Size(call[t].text) - 1 :
             file' = [text |-> Torn, size |-> IF n >= file.size THEN n ELSE file.size]
  /\ clean' = FALSE
  /\ lock' = lock \ {t}
  /\ AfterFlush(t)
  /\ UNCHANGED <<mProperties, service, counts, client, crashed>>

\* open() fails: the file stays as it is.
FlushFails(t) ==
  /\ call[t].pc = "trunc"
  /\ clean' = FALSE
  /\ lock' = lock \ {t}
  /\ AfterFlush(t)
  /\ UNCHANGED <<mProperties, file, service, counts, client, crashed>>

\* Every caller of setProperty() comes after a first start(), which names the file.
Set(t) ==
  /\ call[t].pc = "set"
  /\ Change(t, [mProperties EXCEPT ![call[t].key] = call[t].val], "none")
  /\ UNCHANGED <<lock, service, counts, client>>

\* loadFromBuildProp() holds the mutex until its flush is done.
Load(t) ==
  /\ call[t].pc = "load"
  /\ \E content \in BuildProps : Change(t, Over(Over(content, mProperties), Defaults), "none")
  /\ lock' = {t}
  /\ UNCHANGED <<service, counts, client>>

CallsSet(t) ==
  /\ t # "worker" /\ call[t].pc = "none" /\ starts > 0 /\ sets < MaxSets
  /\ \E k \in Keys, v \in Values :
       call' = [call EXCEPT ![t] = [NoCall EXCEPT !.pc = "set", !.key = k, !.val = v]]
  /\ sets' = sets + 1
  /\ UNCHANGED <<store, service, starts, client, crashed>>

-----------------------------------------------------------------------------
(* start() and stop(). *)

\* After start() its caller may go on to load a build.prop; the boot worker never does.
Started(t) ==
  \/ Return(t) /\ UNCHANGED sets
  \/ /\ sets < MaxSets
     /\ call' = [call EXCEPT ![t] = [NoCall EXCEPT !.pc = "load"]]
     /\ sets' = sets + 1

CallsStart(t) ==
  /\ t # "worker" /\ call[t].pc = "none"
  /\ \/ mIsRunning /\ Started(t) /\ UNCHANGED starts
     \/ /\ ~mIsRunning /\ starts < MaxStarts
        /\ starts' = starts + 1
        /\ Goto(t, "bind")
        /\ UNCHANGED sets
  /\ UNCHANGED <<store, service, client, crashed>>

\* socket(), bind() and listen(), the old socket file being unlinked first.  A worker that
\* is still there may hear the new socket or not: descriptors are used again.
StartBinds(t) ==
  /\ call[t].pc = "bind"
  /\ bound' = TRUE
  /\ hears' = FALSE \/ hears' = hears
  /\ Goto(t, "defaults")
  /\ UNCHANGED <<store, mIsRunning, worker, counts, client, crashed>>

\* One of them fails.  A boot does not look at the result.
StartFails(t) ==
  /\ call[t].pc = "bind"
  /\ bound' = FALSE
  /\ IF t \in Boots THEN Started(t) ELSE Return(t) /\ UNCHANGED sets
  /\ UNCHANGED <<store, mIsRunning, worker, hears, starts, client, crashed>>

StartDefaults(t) ==
  /\ call[t].pc = "defaults"
  /\ Change(t, IF mProperties[Debuggable] = Unset THEN Over(Defaults, mProperties)
               ELSE mProperties, "run")
  /\ UNCHANGED <<lock, service, counts, client>>

StartRuns(t) ==
  /\ call[t].pc = "run"
  /\ mIsRunning' = TRUE
  /\ Goto(t, "thread")
  /\ UNCHANGED <<store, bound, worker, hears, counts, client, crashed>>

\* Assigning to a std::thread that is joinable is std::terminate().
StartThread(t) ==
  /\ call[t].pc = "thread"
  /\ IF worker = "none"
     THEN worker' = "check" /\ hears' = bound /\ Started(t) /\ UNCHANGED crashed
     ELSE crashed' = TRUE /\ UNCHANGED <<worker, hears, call, sets>>
  /\ UNCHANGED <<store, mIsRunning, bound, starts, client>>

StopBegins ==
  /\ call["ui"].pc = "none" /\ mIsRunning
  /\ mIsRunning' = FALSE
  /\ Goto("ui", "close")
  /\ UNCHANGED <<store, bound, worker, hears, counts, client, crashed>>

\* The listening socket is shut down; a guest that waits in it is turned away.
StopCloses ==
  /\ call["ui"].pc = "close"
  /\ bound' = FALSE
  /\ client' = IF client.at = "queued" THEN NoClient ELSE client
  /\ Goto("ui", "join")
  /\ UNCHANGED <<store, mIsRunning, worker, hears, counts, crashed>>

\* Mutant: the worker is detached instead of joined.
StopWithoutJoin ==
  /\ call["ui"].pc = "join"
  /\ Return("ui")
  /\ UNCHANGED <<store, service, counts, client, crashed>>

StopJoins ==
  /\ call["ui"].pc = "join" /\ worker \in {"none", "done"}
  /\ worker' = "none" /\ hears' = FALSE
  /\ Return("ui")
  /\ UNCHANGED <<store, mIsRunning, bound, counts, client, crashed>>

-----------------------------------------------------------------------------
(* workerLoop and handleClient. *)

WorkerChecks ==
  /\ worker = "check"
  /\ worker' = IF mIsRunning THEN "poll" ELSE "done"
  /\ UNCHANGED <<store, mIsRunning, bound, hears, call, counts, client, crashed>>

\* poll() times out, or accept() fails on a socket that is gone.
WorkerTimesOut ==
  /\ worker = "poll" /\ ~(hears /\ bound /\ client.at = "queued")
  /\ worker' = "check"
  /\ UNCHANGED <<store, mIsRunning, bound, hears, call, counts, client, crashed>>

WorkerAccepts ==
  /\ worker = "poll" /\ hears /\ bound /\ client.at = "queued"
  /\ worker' = "read"
  /\ client' = [client EXCEPT !.at = "accepted"]
  /\ UNCHANGED <<store, mIsRunning, bound, hears, call, counts, crashed>>

\* The blocking read() returns with a request, or with 0 when the guest hangs up.  A
\* setprop is carried out; a getprop and what is no request are only answered.
WorkerReads ==
  /\ worker = "read" /\ client.asks # "silent"
  /\ IF client.asks = "setprop"
     THEN call' = [call EXCEPT !["worker"] =
                     [NoCall EXCEPT !.pc = "set", !.key = client.key, !.val = client.val]]
     ELSE UNCHANGED call
  /\ worker' = "handle"
  /\ UNCHANGED <<store, mIsRunning, bound, hears, counts, client, crashed>>

\* The answer is written and the connection closed.
WorkerAnswers ==
  /\ worker = "handle" /\ call["worker"].pc = "none"
  /\ worker' = "check"
  /\ client' = NoClient
  /\ UNCHANGED <<store, mIsRunning, bound, hears, call, counts, crashed>>

-----------------------------------------------------------------------------
(* Guests. *)

ClientConnects ==
  /\ bound /\ client.at = "away" /\ worker \notin {"read", "handle"}
  /\ \/ /\ sets < MaxSets
        /\ \E k \in Keys, v \in Values :
             client' = [at |-> "queued", asks |-> "setprop", key |-> k, val |-> v]
        /\ sets' = sets + 1
     \/ /\ \E request \in {"other", "silent"} :
             client' = [NoClient EXCEPT !.at = "queued", !.asks = request]
        /\ UNCHANGED sets
  /\ UNCHANGED <<store, service, call, starts, crashed>>

\* A guest that was silent hangs up, which read() reports as an end of file.
ClientHangsUp ==
  /\ client.asks = "silent"
  /\ client' = IF client.at = "queued" THEN NoClient ELSE [client EXCEPT !.asks = "other"]
  /\ UNCHANGED <<store, service, call, counts, crashed>>

-----------------------------------------------------------------------------

FlushStep(t) == OpenTrunc(t) \/ Write(t) \/ WriteFails(t) \/ FlushFails(t)
StartStep(t) ==
  StartBinds(t) \/ StartFails(t) \/ StartDefaults(t) \/ StartRuns(t) \/ StartThread(t)
CallStep(t)  == Set(t) \/ Load(t) \/ FlushStep(t) \/ StartStep(t)
StopStep     == StopCloses \/ StopJoins
WorkerStep   ==
  WorkerChecks \/ WorkerTimesOut \/ WorkerAccepts \/ WorkerReads \/ WorkerAnswers

Step ==
  \/ \E t \in Threads : CallsSet(t) \/ CallsStart(t) \/ CallStep(t)
  \/ StopBegins \/ StopStep \/ WorkerStep
  \/ ClientConnects \/ ClientHangsUp

Next == ~crashed /\ Step

Spec == Init /\ [][Next]_vars

\* Every thread is scheduled and gets the mutex it waits for some day; a guest that sends
\* nothing hangs up some day.
Fairness ==
  /\ \A t \in Threads : SF_vars(~crashed /\ CallStep(t))
  /\ WF_vars(~crashed /\ StopStep) /\ WF_vars(~crashed /\ WorkerStep)
  /\ WF_vars(~crashed /\ ClientHangsUp)

FairSpec == Spec /\ Fairness
-----------------------------------------------------------------------------
(* Properties. *)

\* After a flush that nothing disturbed, its open() and its write() having done all they
\* should, the file shows the map (flushPropertiesToFile): an overlap of flushes or a failing
\* call may leave the file stale, but the next lone setProperty() repairs it.
LoneFlushShows ==
  clean /\ (\A t \in Threads : ~Flushing(t)) => file.text = mProperties

\* The worker polls and serves guests only while the service is on, or while stop() waits
\* for it: no guest changes a property after stop() has returned.
ServesOnlyWhileOn ==
  worker \in {"poll", "read", "handle"} => mIsRunning \/ call["ui"].pc \in {"close", "join"}

\* stop() comes back: the worker sees the flag and can be joined.  So does setProperty(),
\* whoever loads, starts or sets meanwhile: no thread keeps the mutex for good.
CallsReturn ==
  /\ call["ui"].pc = "close" ~> call["ui"].pc = "none" \/ crashed
  /\ \A t \in Threads : call[t].pc = "set" ~> call[t].pc = "none" \/ crashed
=============================================================================
