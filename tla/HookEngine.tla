----------------------------- MODULE HookEngine -----------------------------
(***************************************************************************)
(* The hooks inside one guest process (hook_engine.cpp, virtual_binder.cpp *)
(* preloaded as libgsi_hook): the identity it is told it has, the names it *)
(* uses, and the broker of virtual binder devices.                         *)
(*                                                                         *)
(* The identity is seven words and a flag, read and written one at a time: *)
(* whoever calls first copies the environment into them, without a lock.   *)
(* A call is a list of stores still to do.  The broker's mutex is not      *)
(* recursive, and the close() it calls while it holds the mutex is the     *)
(* hook, which asks the broker whether the descriptor is one of its own.   *)
(* What the broker would do after that answer (handleIoctl() and           *)
(* closeVirtualBinderFd()) needs a device that was opened.                 *)
(***************************************************************************)
EXTENDS SandboxPaths, FiniteSets

CONSTANTS
  Threads,    \* the threads of the guest process
  Ids,        \* user and group numbers
  Environments,  \* what GSI_VIRTUAL_UID and GSI_VIRTUAL_GID may be
  Root,       \* the one the words hold before they are initialised
  Changes,    \* the changes of identity the guest asks for: lists of stores
  Paths,      \* the names of its devices
  Names,      \* all the names it may open,
  Sockets,    \* and the sockets it may connect to
  MaxCalls,   \* bound: calls that read or change the identity, or ask the broker
  MaxUses     \* bound: names opened or connected to

Uids    == <<"ruid", "euid", "suid">>
Gids    == <<"rgid", "egid", "sgid">>
InOrder == <<"ruid", "euid", "suid", "rgid", "egid", "sgid", "groups">>
Words   == ToSet(InOrder)
Store   == [word : Words, val : Ids]

\* A call stores a word once.
OnceEach(stores) ==
  \A i, j \in DOMAIN stores : stores[i].word = stores[j].word => i = j

ASSUME HookAssumption ==
  /\ Paths \subseteq Names /\ Root \in Ids /\ Environments \subseteq [{"uid", "gid"} -> Ids]
  /\ MaxCalls \in Nat /\ MaxUses \in Nat /\ IsFiniteSet(Threads)
  /\ \A c \in Changes : c \in Seq(Store) /\ c # <<>> /\ OnceEach(c)

\* The guest does not know where its sandbox is, and looks for its sockets in /dev/socket
\* and, for those of the log, in /dev/log.
ASSUME NamesAssumption ==
  /\ \A p \in Names \cup Sockets : p \in Seq(STRING)
  /\ \A p \in Names : \A i \in DOMAIN p : p[i] # "$"
  /\ \A s \in Sockets :
       /\ Len(s) >= 2 /\ s[1] = "/dev" /\ s[2] \in {"/socket", "/log"}
       /\ \A i \in DOMAIN s : s[i] = "/dev" => i = 1

\* What the code's calls store, in its order: setuid(u) is Assign(Uids, [i \in 1 .. 3 |-> u]),
\* seteuid() changes the second word only, and setresuid() leaves a word alone whose
\* argument is -1.
Assign(words, ids) ==
  LET given == SelectSeq(<<1, 2, 3>>, LAMBDA i : i \in DOMAIN ids)
  IN [n \in DOMAIN given |-> [word |-> words[given[n]], val |-> ids[given[n]]]]

SetGroups(g) == <<[word |-> "groups", val |-> g]>>

VARIABLES
  env,           \* GSI_VIRTUAL_UID and GSI_VIRTUAL_GID
  id,            \* gVirtualRuid and its siblings, and the one group of gVirtualGroups
  gIdentityInitialized,
  mMutex,        \* who holds the broker's mutex between two steps
  mDescriptors,  \* how many virtual binder devices there are
  call,          \* what each thread does in the hooks: where it is, the stores it has left
                 \* to do, and the change of identity it was called for
  last,          \* history: the change of identity that began last
  used,          \* history: the name used last, by which call, and where that led
  calls, uses

identity == <<id, gIdentityInitialized, last>>
broker   == <<mMutex, mDescriptors>>
names    == <<used, uses>>
hookVars == <<env, identity, broker, names, call, calls>>

NoCall  == [pc |-> "none", todo |-> <<>>, want |-> <<>>]
CallPcs == {"none", "check", "init", "work", "create", "lookup", "close"}

HookTypeOK ==
  /\ env \in Environments /\ id \in [Words -> Ids]
  /\ gIdentityInitialized \in BOOLEAN
  /\ mMutex \subseteq Threads /\ Cardinality(mMutex) <= 1 /\ mDescriptors \in Nat
  /\ call \in [Threads -> [pc : CallPcs, todo : Seq(Store), want : Changes \cup {<<>>}]]
  /\ last.want \in Changes \cup {<<>>} /\ last.alone \in BOOLEAN
  /\ used.by \in {"none", "open", "connect"}
  /\ calls \in 0 .. MaxCalls /\ uses \in 0 .. MaxUses

HookInit ==
  /\ env \in Environments
  /\ id = [w \in Words |-> Root] /\ gIdentityInitialized = FALSE
  /\ mMutex = {} /\ mDescriptors = 0
  /\ call = [t \in Threads |-> NoCall]
  /\ last = [want |-> <<>>, alone |-> FALSE]
  /\ used = [by |-> "none", name |-> <<>>, to |-> <<>>]
  /\ calls = 0 /\ uses = 0

Begins(t, c) ==
  /\ call[t].pc = "none" /\ calls < MaxCalls
  /\ calls' = calls + 1
  /\ call' = [call EXCEPT ![t] = c]

Goes(t, pc)  == call' = [call EXCEPT ![t].pc = pc]
Returns(t)   == call' = [call EXCEPT ![t] = NoCall]

-----------------------------------------------------------------------------
(* Identity. *)

\* getuid() and its siblings want no store, setuid() and its siblings those of a change.
CallsIdentity(t) ==
  /\ \E want \in Changes \cup {<<>>} :
       Begins(t, [pc |-> "check", todo |-> <<>>, want |-> want])
  /\ UNCHANGED <<env, identity, broker, names>>

\* The words, in the order in which initIdentityIfNeeded() stores the environment in them.
FromEnvironment ==
  [i \in 1 .. 7 |-> [word |-> InOrder[i], val |-> env[IF i <= 3 THEN "uid" ELSE "gid"]]]

\* Nobody else is initialising or changing the identity.
Alone(t) ==
  \A u \in Threads \ {t} :
    call[u].pc # "init" /\ (call[u].pc = "work" => call[u].want = <<>>)

\* The thread is past initIdentityIfNeeded(); what it is to change is noted in `last`.
Works(t) ==
  /\ call' = [call EXCEPT ![t].pc = "work", ![t].todo = call[t].want]
  /\ last' = IF call[t].want = <<>> THEN last
             ELSE [want |-> call[t].want, alone |-> Alone(t)]

\* Mutant: the flag is raised before the words are stored.
ChecksAndRaises(t) ==
  /\ call[t].pc = "check"
  /\ IF gIdentityInitialized THEN Works(t)
     ELSE /\ call' = [call EXCEPT ![t].pc = "init", ![t].todo = FromEnvironment]
          /\ UNCHANGED last
  /\ gIdentityInitialized' = TRUE
  /\ UNCHANGED <<env, id, broker, names, calls>>

\* Mutant: every call stores the environment again.
ChecksNothing(t) ==
  /\ call[t].pc = "check"
  /\ call' = [call EXCEPT ![t].pc = "init", ![t].todo = FromEnvironment]
  /\ UNCHANGED <<env, identity, broker, names, calls>>

\* The look at gIdentityInitialized.
Checks(t) ==
  /\ call[t].pc = "check"
  /\ IF gIdentityInitialized THEN Works(t)
     ELSE /\ call' = [call EXCEPT ![t].pc = "init", ![t].todo = FromEnvironment]
          /\ UNCHANGED last
  /\ UNCHANGED <<env, id, gIdentityInitialized, broker, names, calls>>

\* One store of an atomic word, of the initialisation or of a change.
Stores(t) ==
  /\ call[t].pc \in {"init", "work"} /\ call[t].todo # <<>>
  /\ LET s == Head(call[t].todo) IN id' = [id EXCEPT ![s.word] = s.val]
  /\ call' = [call EXCEPT ![t].todo = Tail(call[t].todo)]
  /\ UNCHANGED <<env, gIdentityInitialized, last, broker, names, calls>>

RaisesFlag(t) ==
  /\ call[t].pc = "init" /\ call[t].todo = <<>>
  /\ gIdentityInitialized' = TRUE
  /\ Works(t)
  /\ UNCHANGED <<env, id, broker, names, calls>>

IdentityReturns(t) ==
  /\ call[t].pc = "work" /\ call[t].todo = <<>>
  /\ Returns(t)
  /\ UNCHANGED <<env, identity, broker, names, calls>>

-----------------------------------------------------------------------------
(* Names. *)

Uses(t, by, p, to) ==
  /\ call[t].pc = "none" /\ uses < MaxUses /\ uses' = uses + 1
  /\ used' = [by |-> by, name |-> p, to |-> to]
  /\ UNCHANGED <<env, identity, broker, call, calls>>

\* open(), openat(), stat(), lstat() or access() of a name that is no binder device: the real
\* call is made with the name of Redirect(p).
Opens(t, p) == ~ IsBinder(p) /\ Uses(t, "open", p, Redirect(p))

Connects(t, s) == Uses(t, "connect", s, ConnectTo(s))

-----------------------------------------------------------------------------
(* The broker.  close() and ioctl() of any descriptor ask it first. *)

OpensBinder(t, p) ==
  /\ IsBinder(p)
  /\ Begins(t, [NoCall EXCEPT !.pc = "create"])
  /\ UNCHANGED <<env, identity, broker, names>>

CallsClose(t) ==
  /\ Begins(t, [NoCall EXCEPT !.pc = "lookup"])
  /\ UNCHANGED <<env, identity, broker, names>>

\* Mutant: the mutex is not waited for.
CreatesAtOnce(t) ==
  /\ call[t].pc = "create"
  /\ \/ mMutex' = mMutex \cup {t} /\ Goes(t, "lookup")
     \/ UNCHANGED mMutex /\ Returns(t)
  /\ UNCHANGED <<env, identity, mDescriptors, names, calls>>

\* createVirtualBinderFd() takes the mutex and calls close() for the peer, unless it has
\* got no pair of sockets.
Creates(t) ==
  /\ call[t].pc = "create" /\ mMutex = {}
  /\ \/ mMutex' = {t} /\ Goes(t, "lookup")
     \/ UNCHANGED mMutex /\ Returns(t)
  /\ UNCHANGED <<env, identity, mDescriptors, names, calls>>

\* Mutant: the mutex is kept where the descriptor is not the broker's.
LooksUpAndKeeps(t) ==
  /\ call[t].pc = "lookup" /\ mMutex = {}
  /\ mMutex' = {t} /\ Goes(t, "close")
  /\ UNCHANGED <<env, identity, mDescriptors, names, calls>>

\* isVirtualBinderFd() takes the mutex and gives it back; the descriptor is none of the
\* broker's, or not this one.
LooksUp(t) ==
  /\ call[t].pc = "lookup" /\ mMutex = {}
  /\ Goes(t, "close")
  /\ UNCHANGED <<env, identity, broker, names, calls>>

\* The real close() or ioctl(); where it was the peer's the device is registered.
Closes(t) ==
  /\ call[t].pc = "close"
  /\ mDescriptors' = mDescriptors + Cardinality(mMutex \cap {t})
  /\ mMutex' = mMutex \ {t}
  /\ Returns(t)
  /\ UNCHANGED <<env, identity, names, calls>>

-----------------------------------------------------------------------------
HookStep(t) ==
  \/ Checks(t) \/ Stores(t) \/ RaisesFlag(t) \/ IdentityReturns(t)
  \/ Creates(t) \/ LooksUp(t) \/ Closes(t)

-----------------------------------------------------------------------------
(* Properties. *)

\* Who is past initIdentityIfNeeded() finds the whole environment in the words, also where
\* several threads initialise them at once, as long as nobody has begun to change them.
ReadsTheEnvironment ==
  last.want = <<>> =>
    \A t \in Threads : call[t].pc = "work" =>
      \A i \in DOMAIN FromEnvironment :
        id[FromEnvironment[i].word] = FromEnvironment[i].val

\* A change of identity that began while nobody initialised or changed the words holds when
\* all is quiet: a call that comes later, or a thread that has looked at the flag before,
\* does not undo it.
LoneSetterSticks ==
  (last.alone /\ \A t \in Threads : call[t].pc \notin {"init", "work"}) =>
    \A i \in DOMAIN last.want : id[last.want[i].word] = last.want[i].val

\* A thread that waits inside createVirtualBinderFd() for the mutex it holds itself.
LocksItself(t) == call[t].pc = "lookup" /\ t \in mMutex

\* No binder device is ever opened, and that is the only thing that hangs: every call of
\* the hooks returns, or some thread of the process has tried to open one and locked itself
\* out with the broker's mutex in its hands.
HangsOnlyByBinder ==
  /\ [](mDescriptors = 0)
  /\ \A t \in Threads :
       (call[t].pc # "none") ~> (call[t].pc = "none" \/ \E u \in Threads : LocksItself(u))

\* The sockets of the radio and of the Wi-Fi supplicant: redirectSandboxPath() has a rule for
\* each, connect() has none.
LeftToTheHost == {Socket("/rild"), Socket("/rild") \o <<"-debug">>, Socket("/wpa_wlan0")}

\* A name of the shared storage leads to the same file of the sandbox, whichever alias it
\* uses, and no other name leads there (redirectSandboxPath()).  connect() takes every socket
\* to where open() and stat() find it, except the three of LeftToTheHost: those it connects
\* to on the host, while the bridge that plays the radio listens in the sandbox.
NamesMeet ==
  CASE used.by = "open" ->
         /\ StorageFile(used.name) = {} => ~ IsPrefix(Sandbox \o Media, used.to)
         /\ \A f \in StorageFile(used.name) : used.to = Sandbox \o f
    [] used.by = "connect" ->
         used.to = IF used.name \in LeftToTheHost THEN used.name ELSE Redirect(used.name)
    [] OTHER -> TRUE

\* What src/README.md:115-116 says, sockets /dev/socket/rild, rild-debug and wpa_wlan0
\* emulated for the guest: every socket it connects to is the one open() and stat() find.
\* The code does not do it, for the three of LeftToTheHost.
SocketsMeet == used.by = "connect" => used.to = Redirect(used.name)
=============================================================================
