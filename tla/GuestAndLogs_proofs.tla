------------------------- MODULE GuestAndLogs_proofs -------------------------
(***************************************************************************)
(* What a guest sees of the world its host makes for it, and what it tells *)
(* the host.  Part 1: the identity the hooks keep, the FIFO of the touch   *)
(* screen, and the readings of the battery and the sensors under the names *)
(* the hooks lead the guest to; an invariant for each, and that a step of  *)
(* one of the three leaves the other two alone.  Part 2: the broker behind *)
(* the log socket, to which connect() leads the guest: its ring, the       *)
(* stretch a client is sent, the tombstone files, the silence after        *)
(* stop().  For every value of the constants.                              *)
(***************************************************************************)
EXTENDS GuestWorld, LogcatBroker, FiniteSetTheorems, SequenceTheorems, WellFoundedInduction, TLAPS

-----------------------------------------------------------------------------
(* Lists of stores.  Left(s, n) is what is left of a list of which n are done. *)

Left(s, n) == SubSeq(s, n + 1, Len(s))

\* The first n stores of a list hold.
AllHold(s, n) == \A i \in 1 .. n : id[s[i].word] = s[i].val

LEMMA LeftType ==
  ASSUME NEW S, NEW s \in Seq(S), NEW n \in 0 .. Len(s)
  PROVE  Left(s, n) \in Seq(S) /\ Len(Left(s, n)) = Len(s) - n
  BY DEF Left

LEMMA LeftAll == ASSUME NEW S, NEW s \in Seq(S) PROVE Left(s, 0) = s
  BY DEF Left

LEMMA LeftTail ==
  ASSUME NEW S, NEW s \in Seq(S), NEW n \in 0 .. Len(s), Left(s, n) # <<>>
  PROVE  /\ n < Len(s) /\ n + 1 \in 0 .. Len(s) /\ n + 1 \in 1 .. Len(s)
         /\ Head(Left(s, n)) = s[n + 1]
         /\ Tail(Left(s, n)) = Left(s, n + 1)
  BY DEF Left

LEMMA LeftNone ==
  ASSUME NEW S, NEW s \in Seq(S), NEW n \in 0 .. Len(s), Left(s, n) = <<>>
  PROVE  n = Len(s)
<1>1. Len(s) - n = 0
  BY LeftType, Len(<<>>) = 0
<1> QED BY <1>1

\* A store of a list keeps what the list has stored before, and holds itself.
LEMMA StoreHolds ==
  ASSUME NEW s \in Seq(Store), OnceEach(s), NEW k \in 1 .. Len(s), NEW n \in 0 .. Len(s),
         id \in [Words -> Ids], AllHold(s, n),
         id' = [id EXCEPT ![s[k].word] = s[k].val]
  PROVE  AllHold(s, n)' /\ (k = n + 1 => AllHold(s, k)')
<1>1. \A i \in 1 .. Len(s) : s[i].word \in Words
  <2>1. \A i \in 1 .. Len(s) : s[i] \in Store
    OBVIOUS
  <2> QED BY <2>1 DEF Store
<1>2. id'[s[k].word] = s[k].val
  BY <1>1
<1>3. ASSUME NEW i \in 1 .. n
      PROVE  id'[s[i].word] = s[i].val
  <2>1. CASE s[i].word = s[k].word
    <3>1. i = k
      BY <2>1 DEF OnceEach
    <3> QED BY <3>1, <1>2
  <2>2. CASE s[i].word # s[k].word
    <3>1. id'[s[i].word] = id[s[i].word]
      BY <1>1, <2>2
    <3> QED BY <3>1 DEF AllHold
  <2> QED BY <2>1, <2>2
<1> QED BY <1>2, <1>3 DEF AllHold

-----------------------------------------------------------------------------
(* The hooks: what is in the words, and the broker's mutex. *)

HookNext == GuestBegins \/ GuestNames \/ \E t \in Threads : HookStep(t)

\* Nobody who holds the broker's mutex is past the look-up inside close().
BrokerInv == mDescriptors = 0 /\ \A t \in mMutex : call[t].pc = "lookup"

LEMMA Environment ==
  ASSUME HookTypeOK
  PROVE  /\ FromEnvironment \in Seq(Store) /\ Len(FromEnvironment) = 7
         /\ OnceEach(FromEnvironment)
<1>1. \A i \in 1 .. 7 : InOrder[i] \in Words
  <2>1. DOMAIN InOrder = 1 .. 7
    BY DEF InOrder
  <2> QED BY <2>1 DEF Words, ToSet
<1>2. \A i \in 1 .. 7 : env[IF i <= 3 THEN "uid" ELSE "gid"] \in Ids
  BY HookAssumption DEF HookTypeOK
<1>3. FromEnvironment \in [1 .. 7 -> Store]
  BY <1>1, <1>2 DEF FromEnvironment, Store
<1>4. \A i, j \in 1 .. 7 : InOrder[i] = InOrder[j] => i = j
  BY DEF InOrder
<1>5. OnceEach(FromEnvironment)
  BY <1>4 DEF OnceEach, FromEnvironment
<1>6. FromEnvironment \in Seq(Store)
  BY <1>3, SeqDef
<1>7. Len(FromEnvironment) = 7
  BY <1>3, <1>6, LenProperties
<1> QED BY <1>5, <1>6, <1>7

Change == [pc : CallPcs, todo : Seq(Store), want : Changes \cup {<<>>}]

LEMMA ChangesAreLists == Changes \cup {<<>>} \subseteq Seq(Store)
<1>1. <<>> \in Seq(Store)
  OBVIOUS
<1> QED BY <1>1, HookAssumption

\* What a thread's own step makes of its call keeps the type.
LEMMA HookTypeStep == ASSUME HookTypeOK, BrokerInv, HookNext PROVE HookTypeOK' /\ BrokerInv'
<1> USE HookAssumption, ChangesAreLists
<1>n. NoCall \in Change
  BY DEF NoCall, Change, CallPcs
<1>t. \A t \in Threads : call[t] \in Change
  BY DEF HookTypeOK, Change
<1>c. call \in [Threads -> Change]
  BY DEF HookTypeOK, Change
<1>1. ASSUME NEW t \in Threads, NEW c \in Change, Begins(t, c), 
             UNCHANGED <<env, identity, broker, names>>
      PROVE  HookTypeOK' /\ BrokerInv'
  <2>1. call' \in [Threads -> Change] /\ calls' \in 0 .. MaxCalls
    BY <1>1, <1>c DEF Begins, HookTypeOK
  <2>2. HookTypeOK'
    BY <1>1, <2>1 DEF HookTypeOK, identity, broker, names, Change
  <2>3. BrokerInv'
    BY <1>1, <1>c DEF BrokerInv, Begins, broker
  <2> QED BY <2>2, <2>3
<1>2. ASSUME NEW t \in Threads, CallsIdentity(t) PROVE HookTypeOK' /\ BrokerInv'
  <2>1. PICK want \in Changes \cup {<<>>} : Begins(t, [pc |-> "check", todo |-> <<>>, want |-> want])
    BY <1>2 DEF CallsIdentity
  <2>2. [pc |-> "check", todo |-> <<>>, want |-> want] \in Change
    BY DEF Change, CallPcs
  <2> QED BY <1>1, <1>2, <2>1, <2>2 DEF CallsIdentity
<1>3. ASSUME NEW t \in Threads, CallsClose(t) \/ \E p \in Paths : OpensBinder(t, p)
      PROVE  HookTypeOK' /\ BrokerInv'
  <2>1. [NoCall EXCEPT !.pc = "create"] \in Change /\ [NoCall EXCEPT !.pc = "lookup"] \in Change
    BY <1>n DEF Change, CallPcs
  <2> QED BY <1>1, <1>3, <2>1 DEF CallsClose, OpensBinder
<1>4. CASE GuestNames
  <2>1. /\ UNCHANGED <<env, identity, broker, call, calls>>
        /\ used'.by \in {"open", "connect"} /\ uses' \in 0 .. MaxUses
    BY <1>4 DEF GuestNames, Opens, Connects, Uses, HookTypeOK
  <2>2. HookTypeOK'
    BY <2>1 DEF HookTypeOK, identity, broker
  <2> QED BY <2>1, <2>2 DEF BrokerInv, broker
<1>5. ASSUME NEW t \in Threads, NEW c \in Change, call' = [call EXCEPT ![t] = c],
             call[t].pc # "lookup", UNCHANGED <<env, id, broker, names, calls>>,
             gIdentityInitialized' \in BOOLEAN,
             last'.want \in Changes \cup {<<>>} /\ last'.alone \in BOOLEAN
      PROVE  HookTypeOK' /\ BrokerInv'
  <2>1. call' \in [Threads -> Change]
    BY <1>5, <1>c
  <2>2. HookTypeOK'
    BY <1>5, <2>1 DEF HookTypeOK, broker, names, Change
  <2>3. BrokerInv'
    BY <1>5, <1>c DEF BrokerInv, broker
  <2> QED BY <2>2, <2>3
<1>6. ASSUME NEW t \in Threads, Works(t)
      PROVE  /\ \E c \in Change : call' = [call EXCEPT ![t] = c]
             /\ last'.want \in Changes \cup {<<>>} /\ last'.alone \in BOOLEAN
  <2>1. call[t].want \in Changes \cup {<<>>}
    BY <1>t DEF Change
  <2>2. call' = [call EXCEPT ![t] = [call[t] EXCEPT !.pc = "work", !.todo = call[t].want]]
    BY <1>6, <1>c DEF Works
  <2>3. [call[t] EXCEPT !.pc = "work", !.todo = call[t].want] \in Change
    BY <2>1, <1>t DEF Change, CallPcs
  <2>4. Alone(t) \in BOOLEAN
    BY DEF Alone
  <2>5. last'.want \in Changes \cup {<<>>} /\ last'.alone \in BOOLEAN
    BY <1>6, <2>1, <2>4 DEF Works, HookTypeOK
  <2> QED BY <2>2, <2>3, <2>5
<1>7. ASSUME NEW t \in Threads, Checks(t) PROVE HookTypeOK' /\ BrokerInv'
  <2>1. CASE gIdentityInitialized
    BY <1>5, <1>6, <1>7, <2>1 DEF Checks, HookTypeOK
  <2>2. CASE ~ gIdentityInitialized
    <3>1. call' = [call EXCEPT ![t] = [call[t] EXCEPT !.pc = "init", !.todo = FromEnvironment]]
      BY <1>7, <2>2, <1>c DEF Checks
    <3>2. [call[t] EXCEPT !.pc = "init", !.todo = FromEnvironment] \in Change
      BY <1>t, Environment DEF Change, CallPcs
    <3> QED BY <1>5, <1>7, <2>2, <3>1, <3>2 DEF Checks, HookTypeOK
  <2> QED BY <2>1, <2>2
<1>8. ASSUME NEW t \in Threads, Stores(t) PROVE HookTypeOK' /\ BrokerInv'
  <2>1. call[t].todo \in Seq(Store) /\ call[t].todo # <<>>
    BY <1>8, <1>t DEF Stores, Change
  <2>2. Head(call[t].todo) \in Store /\ Tail(call[t].todo) \in Seq(Store)
    BY <2>1
  <2>3. id' \in [Words -> Ids]
    BY <1>8, <2>2 DEF Stores, Store, HookTypeOK
  <2>4. [call[t] EXCEPT !.todo = Tail(call[t].todo)] \in Change
    BY <1>t, <2>2 DEF Change
  <2>5. call' = [call EXCEPT ![t] = [call[t] EXCEPT !.todo = Tail(call[t].todo)]]
    BY <1>8, <1>c DEF Stores
  <2>6. call' \in [Threads -> Change]
    BY <2>4, <2>5, <1>c
  <2>7. HookTypeOK'
    BY <1>8, <2>3, <2>6 DEF Stores, HookTypeOK, broker, names, Change
  <2>8. BrokerInv'
    BY <1>8, <1>c, <2>5 DEF Stores, BrokerInv, broker
  <2> QED BY <2>7, <2>8
<1>9. ASSUME NEW t \in Threads, RaisesFlag(t) PROVE HookTypeOK' /\ BrokerInv'
  BY <1>5, <1>6, <1>9 DEF RaisesFlag
<1>10. ASSUME NEW t \in Threads, IdentityReturns(t) PROVE HookTypeOK' /\ BrokerInv'
  BY <1>5, <1>n, <1>10 DEF IdentityReturns, Returns, identity, HookTypeOK
<1>11. ASSUME NEW t \in Threads, NEW pc \in CallPcs
       PROVE  /\ Goes(t, pc) => call' = [call EXCEPT ![t] = [call[t] EXCEPT !.pc = pc]]
              /\ [call[t] EXCEPT !.pc = pc] \in Change
  BY <1>c, <1>t DEF Goes, Change
<1>12. ASSUME NEW t \in Threads, NEW c \in Change, call' = [call EXCEPT ![t] = c],
              UNCHANGED <<env, identity, names, calls, mDescriptors>>,
              mMutex' \in {{}, {t}} \/ mMutex' = mMutex, \A u \in mMutex' : call'[u].pc = "lookup"
       PROVE  HookTypeOK' /\ BrokerInv'
  <2>1. call' \in [Threads -> Change]
    BY <1>12, <1>c
  <2>2. mMutex' \subseteq Threads /\ Cardinality(mMutex') <= 1
    <3>1. Cardinality({}) = 0 /\ Cardinality({t}) = 1
      BY FS_EmptySet, FS_Singleton, Zenon
    <3>2. Cardinality(mMutex') \in {0, 1} \/ mMutex' = mMutex
      BY <1>12, <3>1, Zenon
    <3> QED BY <1>12, <3>2 DEF HookTypeOK
  <2>3. HookTypeOK'
    BY <1>12, <2>1, <2>2 DEF HookTypeOK, identity, names, Change
  <2> QED BY <1>12, <2>3 DEF BrokerInv
<1>13. ASSUME NEW t \in Threads, Creates(t) PROVE HookTypeOK' /\ BrokerInv'
  <2>1. CASE mMutex' = {t} /\ Goes(t, "lookup")
    <3>1. "lookup" \in CallPcs
      BY DEF CallPcs
    <3>2. call'[t].pc = "lookup"
      BY <2>1, <1>c DEF Goes
    <3> QED BY <1>11, <1>12, <1>13, <2>1, <3>1, <3>2 DEF Creates
  <2>2. CASE UNCHANGED mMutex /\ Returns(t)
    <3>1. mMutex' = {}
      BY <1>13, <2>2 DEF Creates
    <3> QED BY <1>n, <1>12, <1>13, <2>2, <3>1 DEF Creates, Returns
  <2> QED BY <1>13, <2>1, <2>2 DEF Creates
<1>14. ASSUME NEW t \in Threads, LooksUp(t) PROVE HookTypeOK' /\ BrokerInv'
  <2>1. "close" \in CallPcs
    BY DEF CallPcs
  <2>2. mMutex' = {}
    BY <1>14 DEF LooksUp, broker
  <2> QED BY <1>11, <1>12, <1>14, <2>1, <2>2 DEF LooksUp, broker
<1>15. ASSUME NEW t \in Threads, Closes(t) PROVE HookTypeOK' /\ BrokerInv'
  <2>1. mMutex \cap {t} = {} /\ mMutex \ {t} = mMutex
    BY <1>15 DEF Closes, BrokerInv
  <2>2. mDescriptors' = mDescriptors
    <3>1. Cardinality({}) = 0
      BY FS_EmptySet, Zenon
    <3>2. mDescriptors' = mDescriptors + 0
      BY <1>15, <2>1, <3>1, Zenon DEF Closes
    <3> QED BY <3>2 DEF BrokerInv
  <2>3. \A u \in mMutex' : call'[u].pc = "lookup"
    BY <1>15, <2>1, <1>c DEF Closes, BrokerInv, Returns, HookTypeOK
  <2> QED BY <1>n, <1>12, <1>15, <2>1, <2>2, <2>3 DEF Closes, Returns
<1> QED BY <1>2, <1>3, <1>4, <1>7, <1>8, <1>9, <1>10, <1>13, <1>14, <1>15
      DEF HookNext, GuestBegins, HookStep

-----------------------------------------------------------------------------
(* Who has stored what. *)

Changing(t) == call[t].pc = "work" /\ call[t].want # <<>>

\* While nobody has begun to change the words, what an initialising thread has left is the
\* end of a list of which the beginning holds, and with the flag up all of it holds.
WordsInv ==
  /\ \A t \in Threads : call[t].pc = "init" =>
       \E n \in 0 .. 7 : /\ call[t].todo = Left(FromEnvironment, n)
                         /\ last.want = <<>> => AllHold(FromEnvironment, n)
  /\ \A t \in Threads : call[t].pc = "work" =>
       gIdentityInitialized /\ (call[t].want = <<>> => call[t].todo = <<>>)
  /\ last.want = <<>> => /\ ~ last.alone
                         /\ \A t \in Threads : ~ Changing(t)
                         /\ gIdentityInitialized => AllHold(FromEnvironment, 7)

\* A change that began alone is the only one under way, or it is done.
AloneInv ==
  last.alone =>
    /\ gIdentityInitialized
    /\ \A t \in Threads : call[t].pc # "init"
    /\ \A t, u \in Threads : Changing(t) /\ Changing(u) => t = u
    /\ \A t \in Threads : Changing(t) =>
         /\ call[t].want = last.want
         /\ \E n \in 0 .. Len(last.want) :
              call[t].todo = Left(last.want, n) /\ AllHold(last.want, n)
    /\ (\A t \in Threads : ~ Changing(t)) => AllHold(last.want, Len(last.want))

IdentityInv == WordsInv /\ AloneInv

\* A step that leaves the words, the flag and every call that initialises or changes alone.
LEMMA IdentityKept ==
  ASSUME IdentityInv, UNCHANGED <<env, identity>>,
         \A t \in Threads : call'[t].pc \in {"init", "work"} => call'[t] = call[t],
         \A t \in Threads : call[t].pc \in {"init", "work"} => call'[t] = call[t]
  PROVE  IdentityInv'
<1>1. \A t \in Threads : Changing(t)' <=> Changing(t)
  BY DEF Changing
<1>2. FromEnvironment' = FromEnvironment
  BY DEF FromEnvironment
<1>3. \A s, n : AllHold(s, n)' <=> AllHold(s, n)
  BY DEF AllHold, identity
<1>4. WordsInv'
  <2>1. ASSUME NEW t \in Threads, call'[t].pc = "init"
        PROVE  \E n \in 0 .. 7 : /\ call'[t].todo = Left(FromEnvironment', n)
                                 /\ last'.want = <<>> => AllHold(FromEnvironment, n)'
    BY <2>1, <1>2 DEF IdentityInv, WordsInv, identity, AllHold
  <2>2. ASSUME NEW t \in Threads, call'[t].pc = "work"
        PROVE  gIdentityInitialized' /\ (call'[t].want = <<>> => call'[t].todo = <<>>)
    BY <2>2 DEF IdentityInv, WordsInv, identity
  <2>3. last'.want = <<>> =>
          /\ ~ last'.alone
          /\ \A t \in Threads : ~ Changing(t)'
          /\ gIdentityInitialized' => AllHold(FromEnvironment, 7)'
    BY <1>1, <1>2 DEF IdentityInv, WordsInv, identity, AllHold
  <2> QED BY <2>1, <2>2, <2>3 DEF WordsInv
<1>5. AloneInv'
  <2>1. SUFFICES ASSUME last.alone PROVE AloneInv'
    BY DEF AloneInv, identity
  <2>2. \A t \in Threads : call'[t].pc # "init"
    BY <2>1 DEF IdentityInv, AloneInv
  <2>3. \A t \in Threads : Changing(t)' =>
          /\ call'[t].want = last'.want
          /\ \E n \in 0 .. Len(last'.want) :
               call'[t].todo = Left(last'.want, n) /\ AllHold(last.want, n)'
    BY <2>1, <1>1 DEF IdentityInv, AloneInv, Changing, identity, AllHold
  <2>4. (\A t \in Threads : ~ Changing(t)') => AllHold(last.want, Len(last.want))'
    BY <2>1, <1>1 DEF IdentityInv, AloneInv, identity, AllHold
  <2> QED BY <2>1, <2>2, <2>3, <2>4, <1>1 DEF IdentityInv, AloneInv, identity
<1> QED BY <1>4, <1>5 DEF IdentityInv

LEMMA WorksStep ==
  ASSUME HookTypeOK, IdentityInv, NEW t \in Threads, Works(t), UNCHANGED <<env, id>>,
         gIdentityInitialized', call[t].pc = "check" \/ (call[t].pc = "init" /\ ~ last.alone),
         last.want = <<>> => AllHold(FromEnvironment, 7), last.alone => gIdentityInitialized
  PROVE  IdentityInv'
<1> DEFINE c == [call[t] EXCEPT !.pc = "work", !.todo = call[t].want]
<1>c. /\ call[t] \in Change /\ call' = [call EXCEPT ![t] = c]
      /\ call'[t].pc = "work" /\ call'[t].todo = call[t].want /\ call'[t].want = call[t].want
      /\ \A u \in Threads \ {t} : call'[u] = call[u]
  BY DEF Works, HookTypeOK, Change
<1>e. FromEnvironment' = FromEnvironment
  BY DEF FromEnvironment
<1>h. \A s, n : AllHold(s, n)' <=> AllHold(s, n)
  BY DEF AllHold
<1>w. call[t].want \in Changes \cup {<<>>} /\ call[t].want \in Seq(Store)
  BY <1>c, ChangesAreLists DEF Change
<1>a. ASSUME NEW u \in Threads, call'[u].pc = "init"
      PROVE  \E n \in 0 .. 7 : /\ call'[u].todo = Left(FromEnvironment', n)
                               /\ last.want = <<>> => AllHold(FromEnvironment, n)'
  <2>1. u # t /\ call'[u] = call[u]
    BY <1>a, <1>c
  <2> QED BY <2>1, <1>a, <1>e, <1>h DEF IdentityInv, WordsInv, AllHold
<1>b. \A u \in Threads : call'[u].pc = "work" =>
        gIdentityInitialized' /\ (call'[u].want = <<>> => call'[u].todo = <<>>)
  BY <1>c DEF IdentityInv, WordsInv
<1>1. CASE call[t].want = <<>>
  <2>1. last' = last
    BY <1>1 DEF Works
  <2>2. \A u \in Threads : Changing(u)' <=> Changing(u)
    BY <1>1, <1>c DEF Changing
  <2>3. WordsInv'
    <3>1. last'.want = <<>> => AllHold(FromEnvironment, 7)'
      BY <2>1, <1>e, <1>h DEF AllHold
    <3>2. last'.want = <<>> => ~ last'.alone /\ \A u \in Threads : ~ Changing(u)'
      BY <2>1, <2>2 DEF IdentityInv, WordsInv
    <3> QED BY <3>1, <3>2, <1>a, <1>b, <2>1 DEF WordsInv
  <2>4. AloneInv'
    <3>1. SUFFICES ASSUME last.alone PROVE AloneInv'
      BY <2>1 DEF AloneInv
    <3>2. \A u \in Threads : call'[u].pc # "init"
      BY <3>1, <1>c DEF IdentityInv, AloneInv
    <3>3. \A u \in Threads : Changing(u)' =>
            /\ call'[u].want = last'.want
            /\ \E n \in 0 .. Len(last'.want) :
                 call'[u].todo = Left(last'.want, n) /\ AllHold(last.want, n)'
      <4>1. \A u \in Threads : Changing(u) => call'[u] = call[u]
        BY <1>1, <1>c DEF Changing
      <4> QED BY <3>1, <4>1, <2>1, <2>2, <1>h DEF IdentityInv, AloneInv, AllHold
    <3>4. (\A u \in Threads : ~ Changing(u)') => AllHold(last.want, Len(last.want))'
      BY <3>1, <2>1, <2>2, <1>h DEF IdentityInv, AloneInv, AllHold
    <3> QED BY <3>1, <3>2, <3>3, <3>4, <2>2 DEF IdentityInv, AloneInv
  <2> QED BY <2>3, <2>4 DEF IdentityInv
<1>2. CASE call[t].want # <<>>
  <2>1. last' = [want |-> call[t].want, alone |-> Alone(t)]
    BY <1>2 DEF Works
  <2>2. WordsInv'
    <3>1. ASSUME NEW u \in Threads, call'[u].pc = "init"
          PROVE  \E n \in 0 .. 7 : call'[u].todo = Left(FromEnvironment', n)
      BY <3>1, <1>a
    <3> QED BY <3>1, <2>1, <1>2, <1>b DEF WordsInv
  <2>3. AloneInv'
    <3>1. SUFFICES ASSUME Alone(t) PROVE AloneInv'
      BY <2>1 DEF AloneInv
    <3>2. \A u \in Threads : call'[u].pc # "init"
      BY <3>1, <1>c DEF Alone
    <3>3. \A u \in Threads : Changing(u)' => u = t
      BY <3>1, <1>c DEF Alone, Changing
    <3>4. Changing(t)'
      BY <1>2, <1>c DEF Changing
    <3>5. /\ call'[t].want = last'.want /\ 0 \in 0 .. Len(last'.want)
          /\ call'[t].todo = Left(last'.want, 0) /\ AllHold(last.want, 0)'
      BY <2>1, <1>c, <1>w, LeftAll DEF AllHold
    <3> QED BY <3>2, <3>3, <3>4, <3>5 DEF AloneInv
  <2> QED BY <2>2, <2>3 DEF IdentityInv
<1> QED BY <1>1, <1>2

LEMMA StoresStep ==
  ASSUME HookTypeOK, IdentityInv, NEW t \in Threads, Stores(t) PROVE IdentityInv'
<1> DEFINE c == [call[t] EXCEPT !.todo = Tail(call[t].todo)]
<1>c. /\ call[t] \in Change /\ call' = [call EXCEPT ![t] = c]
      /\ call'[t].pc = call[t].pc /\ call'[t].want = call[t].want
      /\ call'[t].todo = Tail(call[t].todo)
      /\ \A u \in Threads \ {t} : call'[u] = call[u]
  BY DEF Stores, HookTypeOK, Change
<1>u. /\ UNCHANGED <<env, gIdentityInitialized, last>> /\ id \in [Words -> Ids]
      /\ call[t].todo # <<>> /\ call[t].pc \in {"init", "work"}
      /\ id' = [id EXCEPT ![Head(call[t].todo).word] = Head(call[t].todo).val]
  BY DEF Stores, HookTypeOK
<1>g. \A u \in Threads : Changing(u)' <=> Changing(u)
  BY <1>c DEF Changing
<1>b. \A u \in Threads : call'[u].pc = "work" =>
        gIdentityInitialized' /\ (call'[u].want = <<>> => call'[u].todo = <<>>)
  <2>1. call[t].pc = "work" => call[t].want # <<>>
    BY <1>u DEF IdentityInv, WordsInv
  <2> QED BY <2>1, <1>c, <1>u DEF IdentityInv, WordsInv
<1>1. CASE call[t].pc = "init"
  <2>s. PICK s \in Seq(Store) : s = FromEnvironment
    BY Environment
  <2>l. s' = s /\ FromEnvironment' = s /\ Len(s) = 7 /\ OnceEach(s)
    BY <2>s, <1>u, Environment DEF FromEnvironment
  <2>n. PICK n \in 0 .. 7 : call[t].todo = Left(s, n) /\ (last.want = <<>> => AllHold(s, n))
    BY <1>1, <2>s DEF IdentityInv, WordsInv
  <2>1. /\ n + 1 \in 1 .. 7 /\ n + 1 \in 0 .. 7
        /\ Head(call[t].todo) = s[n + 1] /\ Tail(call[t].todo) = Left(s, n + 1)
    <3>1. n \in 0 .. Len(s) /\ Left(s, n) # <<>>
      BY <1>u, <2>l, <2>n
    <3>2. /\ n + 1 \in 1 .. Len(s) /\ Head(Left(s, n)) = s[n + 1]
          /\ Tail(Left(s, n)) = Left(s, n + 1)
      BY <3>1, LeftTail
    <3> QED BY <3>2, <2>l, <2>n
  <2>2. \A m \in 0 .. 7 : AllHold(s, m) => AllHold(s, m)' /\ (m = n => AllHold(s, n + 1)')
    BY <1>u, <2>l, <2>1, StoreHolds
  <2>3. ASSUME NEW u \in Threads, call'[u].pc = "init"
        PROVE  \E m \in 0 .. 7 : /\ call'[u].todo = Left(s, m)
                                 /\ last.want = <<>> => AllHold(s, m)'
    <3>1. CASE u = t
      <4>1. call'[u].todo = Left(s, n + 1)
        BY <3>1, <1>c, <2>1
      <4>2. last.want = <<>> => AllHold(s, n + 1)'
        BY <2>2, <2>n
      <4> QED BY <4>1, <4>2, <2>1
    <3>2. CASE u # t
      <4>1. PICK m \in 0 .. 7 : call[u].todo = Left(s, m) /\ (last.want = <<>> => AllHold(s, m))
        BY <2>3, <3>2, <1>c, <2>s DEF IdentityInv, WordsInv
      <4> QED BY <4>1, <3>2, <1>c, <2>2
    <3> QED BY <3>1, <3>2
  <2>4. last.want = <<>> => /\ ~ last.alone
                            /\ \A u \in Threads : ~ Changing(u)'
                            /\ gIdentityInitialized => AllHold(s, 7)'
    <3>1. SUFFICES ASSUME last.want = <<>>
                   PROVE  /\ ~ last.alone /\ \A u \in Threads : ~ Changing(u)'
                          /\ gIdentityInitialized => AllHold(s, 7)'
      OBVIOUS
    <3>2. /\ ~ last.alone /\ \A u \in Threads : ~ Changing(u)
          /\ gIdentityInitialized => AllHold(s, 7)
      BY <3>1, <2>s DEF IdentityInv, WordsInv
    <3>3. AllHold(s, 7) => AllHold(s, 7)'
      BY <2>2, 7 \in 0 .. 7
    <3> QED BY <1>g, <3>2, <3>3
  <2>5. WordsInv'
    <3>1. last' = last /\ gIdentityInitialized' = gIdentityInitialized /\ FromEnvironment' = s
      BY <1>u, <2>l
    <3>2. ASSUME NEW u \in Threads, call'[u].pc = "init"
          PROVE  \E m \in 0 .. 7 : /\ call'[u].todo = Left(FromEnvironment', m)
                                   /\ last'.want = <<>> => AllHold(FromEnvironment, m)'
      <4>1. PICK m \in 0 .. 7 : /\ call'[u].todo = Left(s, m)
                                /\ last.want = <<>> => AllHold(s, m)'
        BY <2>3, <3>2
      <4>2. AllHold(FromEnvironment, m)' = AllHold(s, m)'
        BY <2>l, <3>1 DEF AllHold
      <4>3. call'[u].todo = Left(FromEnvironment', m)
        BY <3>1, <4>1
      <4>4. last'.want = <<>> => AllHold(FromEnvironment, m)'
        BY <3>1, <4>1, <4>2
      <4>5. m \in 0 .. 7
        BY <4>1
      <4> QED BY <4>3, <4>4, <4>5
    <3>3. last'.want = <<>> => /\ ~ last'.alone
                               /\ \A u \in Threads : ~ Changing(u)'
                               /\ gIdentityInitialized' => AllHold(FromEnvironment, 7)'
      <4>1. AllHold(FromEnvironment, 7)' = AllHold(s, 7)'
        BY <2>l, <3>1 DEF AllHold
      <4> QED BY <2>4, <3>1, <4>1
    <3> QED BY <1>b, <3>2, <3>3 DEF WordsInv
  <2>6. AloneInv'
    BY <1>1, <1>u DEF IdentityInv, AloneInv
  <2> QED BY <2>5, <2>6 DEF IdentityInv
<1>2. CASE call[t].pc = "work"
  <2>1. call[t].want # <<>> /\ Changing(t) /\ last.want # <<>>
    BY <1>2, <1>u DEF IdentityInv, WordsInv, Changing
  <2>2. WordsInv'
    <3>1. ASSUME NEW u \in Threads, call'[u].pc = "init"
          PROVE  \E m \in 0 .. 7 : call'[u].todo = Left(FromEnvironment', m)
      <4>1. u # t /\ call'[u] = call[u] /\ FromEnvironment' = FromEnvironment
        BY <3>1, <1>2, <1>c, <1>u DEF FromEnvironment
      <4> QED BY <3>1, <4>1 DEF IdentityInv, WordsInv
    <3> QED BY <3>1, <2>1, <1>b, <1>u DEF WordsInv
  <2>3. AloneInv'
    <3>1. SUFFICES ASSUME last.alone PROVE AloneInv'
      BY <1>u DEF AloneInv
    <3>s. PICK s \in Seq(Store) : s = last.want
      BY ChangesAreLists DEF HookTypeOK
    <3>o. OnceEach(s) /\ last'.want = s
      BY <3>s, <2>1, <1>u, HookAssumption DEF HookTypeOK
    <3>n. PICK n \in 0 .. Len(s) : call[t].todo = Left(s, n) /\ AllHold(s, n)
      BY <3>1, <3>s, <2>1 DEF IdentityInv, AloneInv
    <3>2. /\ n + 1 \in 1 .. Len(s) /\ n + 1 \in 0 .. Len(s)
          /\ Head(call[t].todo) = s[n + 1] /\ Tail(call[t].todo) = Left(s, n + 1)
      BY <1>u, <3>n, LeftTail
    <3>3. AllHold(s, n + 1)'
      BY <1>u, <3>o, <3>n, <3>2, StoreHolds
    <3>4. \A u \in Threads : Changing(u)' => u = t
      BY <3>1, <2>1, <1>g DEF IdentityInv, AloneInv
    <3>5. /\ call'[t].want = s /\ call'[t].todo = Left(s, n + 1) /\ Changing(t)'
      BY <3>1, <3>s, <3>2, <2>1, <1>c, <1>g DEF IdentityInv, AloneInv
    <3>6. gIdentityInitialized' /\ \A u \in Threads : call'[u].pc # "init"
      BY <3>1, <1>c, <1>u, <1>2 DEF IdentityInv, AloneInv
    <3> QED BY <3>2, <3>3, <3>4, <3>5, <3>6, <3>o DEF AloneInv, AllHold
  <2> QED BY <2>2, <2>3 DEF IdentityInv
<1> QED BY <1>1, <1>2, <1>u

LEMMA ReturnsStep ==
  ASSUME HookTypeOK, IdentityInv, NEW t \in Threads, IdentityReturns(t) PROVE IdentityInv'
<1>c. /\ call[t] \in Change /\ call' = [call EXCEPT ![t] = NoCall]
      /\ call'[t].pc = "none" /\ \A u \in Threads \ {t} : call'[u] = call[u]
      /\ call[t].pc = "work" /\ call[t].todo = <<>> /\ UNCHANGED <<env, id, gIdentityInitialized, last>>
  BY DEF IdentityReturns, Returns, NoCall, HookTypeOK, Change, identity
<1>e. FromEnvironment' = FromEnvironment
  BY <1>c DEF FromEnvironment
<1>g. \A u \in Threads : Changing(u)' <=> u # t /\ Changing(u)
  BY <1>c DEF Changing
<1>h. \A s, n : AllHold(s, n)' <=> AllHold(s, n)
  BY <1>c DEF AllHold
<1>1. WordsInv'
  <2>1. ASSUME NEW u \in Threads, call'[u].pc = "init"
        PROVE  \E n \in 0 .. 7 : /\ call'[u].todo = Left(FromEnvironment', n)
                                 /\ last'.want = <<>> => AllHold(FromEnvironment, n)'
    BY <2>1, <1>c, <1>e DEF IdentityInv, WordsInv, AllHold
  <2>2. last'.want = <<>> => /\ ~ last'.alone /\ \A u \in Threads : ~ Changing(u)'
                             /\ gIdentityInitialized' => AllHold(FromEnvironment, 7)'
    BY <1>c, <1>e, <1>g DEF IdentityInv, WordsInv, AllHold
  <2> QED BY <2>1, <2>2, <1>c DEF IdentityInv, WordsInv
<1>2. AloneInv'
  <2>1. SUFFICES ASSUME last.alone PROVE AloneInv'
    BY <1>c DEF AloneInv
  <2>2. ASSUME \A u \in Threads : ~ Changing(u)'
        PROVE  AllHold(last.want, Len(last.want))'
    <3>1. CASE Changing(t)
      <4>1. PICK n \in 0 .. Len(last.want) : Left(last.want, n) = <<>> /\ AllHold(last.want, n)
        BY <2>1, <3>1, <1>c DEF IdentityInv, AloneInv
      <4>2. last.want \in Seq(Store)
        BY ChangesAreLists DEF HookTypeOK
      <4>3. n = Len(last.want)
        BY <4>1, <4>2, LeftNone
      <4> QED BY <4>1, <4>3, <1>c DEF AllHold
    <3>2. CASE ~ Changing(t)
      BY <2>1, <2>2, <3>2, <1>c, <1>g DEF IdentityInv, AloneInv, AllHold
    <3> QED BY <3>1, <3>2
  <2>3. ASSUME NEW u \in Threads, Changing(u)'
        PROVE  /\ call'[u].want = last'.want
               /\ \E n \in 0 .. Len(last'.want) :
                    call'[u].todo = Left(last'.want, n) /\ AllHold(last.want, n)'
    BY <2>1, <2>3, <1>c, <1>g DEF IdentityInv, AloneInv, AllHold
  <2> QED BY <2>1, <2>2, <2>3, <1>c, <1>g DEF IdentityInv, AloneInv
<1> QED BY <1>1, <1>2 DEF IdentityInv

LEMMA IdentityStep ==
  ASSUME HookTypeOK, BrokerInv, IdentityInv, HookNext PROVE IdentityInv'
<1>c. call \in [Threads -> Change]
  BY DEF HookTypeOK, Change
<1>k. ASSUME NEW t \in Threads, NEW c, call' = [call EXCEPT ![t] = c], UNCHANGED <<env, identity>>,
             call[t].pc \notin {"init", "work"}, c.pc \notin {"init", "work"}
      PROVE  IdentityInv'
  BY <1>k, <1>c, IdentityKept
<1>1. ASSUME NEW t \in Threads, CallsIdentity(t) PROVE IdentityInv'
  BY <1>1, <1>k DEF CallsIdentity, Begins
<1>2. ASSUME NEW t \in Threads, CallsClose(t) \/ \E p \in Paths : OpensBinder(t, p)
      PROVE  IdentityInv'
  <2>1. /\ [NoCall EXCEPT !.pc = "create"].pc = "create"
        /\ [NoCall EXCEPT !.pc = "lookup"].pc = "lookup"
    BY DEF NoCall
  <2> QED BY <1>2, <1>k, <2>1 DEF CallsClose, OpensBinder, Begins
<1>3. CASE GuestNames
  <2>1. UNCHANGED <<env, identity, call>>
    BY <1>3 DEF GuestNames, Opens, Connects, Uses
  <2> QED BY <2>1, IdentityKept
<1>4. ASSUME NEW t \in Threads, Checks(t) PROVE IdentityInv'
  <2>u. UNCHANGED <<env, id, gIdentityInitialized>> /\ call[t].pc = "check"
    BY <1>4 DEF Checks
  <2>1. CASE gIdentityInitialized
    <3>1. Works(t)
      BY <1>4, <2>1 DEF Checks
    <3>2. last.want = <<>> => AllHold(FromEnvironment, 7)
      BY <2>1 DEF IdentityInv, WordsInv
    <3> QED BY <2>u, <2>1, <3>1, <3>2, WorksStep
  <2>2. CASE ~ gIdentityInitialized
    <3>1. /\ UNCHANGED last /\ FromEnvironment' = FromEnvironment
          /\ call' = [call EXCEPT ![t] = [call[t] EXCEPT !.pc = "init", !.todo = FromEnvironment]]
      BY <1>4, <2>2, <1>c, <2>u DEF Checks, FromEnvironment
    <3>2. /\ call'[t].pc = "init" /\ call'[t].todo = FromEnvironment
          /\ \A u \in Threads \ {t} : call'[u] = call[u]
      BY <3>1, <1>c DEF Change
    <3>3. FromEnvironment = Left(FromEnvironment, 0) /\ 0 \in 0 .. 7
      BY Environment, LeftAll
    <3>4. ASSUME NEW u \in Threads, call'[u].pc = "init"
          PROVE  \E n \in 0 .. 7 : /\ call'[u].todo = Left(FromEnvironment', n)
                                   /\ last'.want = <<>> => AllHold(FromEnvironment, n)'
      <4>1. CASE u = t
        BY <4>1, <3>1, <3>2, <3>3 DEF AllHold
      <4>2. CASE u # t
        BY <4>2, <3>4, <3>1, <3>2, <2>u DEF IdentityInv, WordsInv, AllHold
      <4> QED BY <4>1, <4>2
    <3>5. \A u \in Threads : Changing(u)' => Changing(u)
      BY <3>2 DEF Changing
    <3>6. WordsInv'
      BY <3>4, <3>5, <3>1, <3>2, <2>2, <2>u DEF IdentityInv, WordsInv
    <3>7. AloneInv'
      BY <3>1, <2>2 DEF IdentityInv, AloneInv
    <3> QED BY <3>6, <3>7 DEF IdentityInv
  <2> QED BY <2>1, <2>2
<1>5. ASSUME NEW t \in Threads, RaisesFlag(t) PROVE IdentityInv'
  <2>1. /\ UNCHANGED <<env, id>> /\ gIdentityInitialized' /\ Works(t)
        /\ call[t].pc = "init" /\ call[t].todo = <<>>
    BY <1>5 DEF RaisesFlag
  <2>2. ~ last.alone
    BY <2>1 DEF IdentityInv, AloneInv
  <2>3. last.want = <<>> => AllHold(FromEnvironment, 7)
    <3>1. PICK n \in 0 .. 7 : /\ Left(FromEnvironment, n) = <<>>
                              /\ last.want = <<>> => AllHold(FromEnvironment, n)
      BY <2>1 DEF IdentityInv, WordsInv
    <3>2. n = 7
      BY <3>1, Environment, LeftNone
    <3> QED BY <3>1, <3>2
  <2> QED BY <2>1, <2>2, <2>3, WorksStep
<1>6. ASSUME NEW t \in Threads, Creates(t) \/ LooksUp(t) \/ Closes(t) PROVE IdentityInv'
  <2>1. UNCHANGED <<env, identity>> /\ call[t].pc \notin {"init", "work"}
    BY <1>6 DEF Creates, LooksUp, Closes
  <2>2. \A pc \in {"lookup", "close"} : [call[t] EXCEPT !.pc = pc].pc = pc
    BY <1>c DEF Change
  <2>3. NoCall.pc = "none"
    BY DEF NoCall
  <2>4. \E c : call' = [call EXCEPT ![t] = c] /\ c.pc \notin {"init", "work"}
    <3>1. \/ \E pc \in {"lookup", "close"} : call' = [call EXCEPT ![t] = [call[t] EXCEPT !.pc = pc]]
          \/ call' = [call EXCEPT ![t] = NoCall]
      BY <1>6, <1>c DEF Creates, LooksUp, Closes, Goes, Returns
    <3> QED BY <3>1, <2>2, <2>3
  <2> QED BY <2>1, <2>4, <1>k
<1> QED BY <1>1, <1>2, <1>3, <1>4, <1>5, <1>6, StoresStep, ReturnsStep
      DEF HookNext, GuestBegins, HookStep

LEMMA HookInitial ==
  ASSUME HookInit PROVE HookTypeOK /\ BrokerInv /\ IdentityInv
<1> USE HookAssumption
<1>1. Cardinality({}) = 0
  BY FS_EmptySet, Zenon
<1>2. NoCall \in Change /\ NoCall.pc = "none"
  <2>1. <<>> \in Seq(Store)
    OBVIOUS
  <2> QED BY <2>1 DEF NoCall, Change, CallPcs
<1>3. /\ mMutex = {} /\ mDescriptors = 0 /\ call = [t \in Threads |-> NoCall]
      /\ last = [want |-> <<>>, alone |-> FALSE] /\ gIdentityInitialized = FALSE
  BY DEF HookInit
<1>4. mMutex \subseteq Threads /\ Cardinality(mMutex) <= 1
  BY <1>1, <1>3
<1>5. HookTypeOK
  <2>1. id \in [Words -> Ids] /\ env \in Environments
    BY DEF HookInit
  <2>2. call \in [Threads -> Change]
    BY <1>2, <1>3
  <2>3. last.want \in Changes \cup {<<>>} /\ last.alone \in BOOLEAN
    BY <1>3
  <2>4. used.by = "none" /\ calls \in 0 .. MaxCalls /\ uses \in 0 .. MaxUses
    BY DEF HookInit
  <2> QED BY <1>3, <1>4, <2>1, <2>2, <2>3, <2>4 DEF HookTypeOK, Change
<1>6. BrokerInv
  BY <1>3 DEF BrokerInv
<1>7. WordsInv
  BY <1>2, <1>3 DEF WordsInv, Changing
<1>8. AloneInv
  BY <1>3 DEF AloneInv
<1> QED BY <1>5, <1>6, <1>7, <1>8 DEF IdentityInv

HookInv == HookTypeOK /\ BrokerInv /\ IdentityInv

LEMMA HookNextStep == ASSUME HookInv, [HookNext]_hookVars PROVE HookInv'
<1>1. CASE HookNext
  BY <1>1, HookTypeStep, IdentityStep DEF HookInv
<1>2. CASE UNCHANGED hookVars
  <2>1. HookTypeOK'
    BY <1>2 DEF HookInv, HookTypeOK, hookVars, identity, broker, names
  <2>2. BrokerInv'
    BY <1>2 DEF HookInv, BrokerInv, hookVars, broker
  <2>3. UNCHANGED <<env, identity, call>>
    BY <1>2 DEF hookVars
  <2>4. IdentityInv'
    BY <2>3, IdentityKept DEF HookInv
  <2> QED BY <2>1, <2>2, <2>4 DEF HookInv
<1> QED BY <1>1, <1>2

LEMMA HookSafe == ASSUME HookInv PROVE ReadsTheEnvironment /\ LoneSetterSticks
<1>1. ReadsTheEnvironment
  <2>1. SUFFICES ASSUME last.want = <<>>, NEW t \in Threads, call[t].pc = "work",
                        NEW i \in DOMAIN FromEnvironment
                 PROVE  id[FromEnvironment[i].word] = FromEnvironment[i].val
    BY DEF ReadsTheEnvironment
  <2>2. i \in 1 .. 7
    BY DEF FromEnvironment
  <2> QED BY <2>1, <2>2 DEF HookInv, IdentityInv, WordsInv, AllHold
<1>2. LoneSetterSticks
  <2>1. SUFFICES ASSUME last.alone, \A t \in Threads : call[t].pc \notin {"init", "work"},
                        NEW i \in DOMAIN last.want
                 PROVE  id[last.want[i].word] = last.want[i].val
    BY DEF LoneSetterSticks
  <2>2. i \in 1 .. Len(last.want)
    <3>1. last.want \in Seq(Store)
      BY ChangesAreLists DEF HookInv, HookTypeOK
    <3> QED BY <3>1
  <2>3. \A t \in Threads : ~ Changing(t)
    BY <2>1 DEF Changing
  <2> QED BY <2>1, <2>2, <2>3 DEF HookInv, IdentityInv, AloneInv, AllHold
<1> QED BY <1>1, <1>2

-----------------------------------------------------------------------------
(* The touch screen: what has become of the last call's records. *)

InputNext == InputBegins \/ GuestOpens \/ WritesEvent \/ GuestReads

\* The guest has heard the first j records of r: each of them, unless a later one of these
\* told it otherwise.
Heard(r, j) ==
  /\ \A i \in 1 .. j : \/ r[i].code = "syn" \/ view[r[i].code] = r[i].value
                       \/ \E m \in i + 1 .. j : r[m].code = r[i].code
  /\ j > 0 /\ r[j].code = "syn" => shown = view

\* Of the records r, k are written and j of these read; n older ones are before the rest.
OnItsWay(r, k, j, n) ==
  /\ out = Left(r, k)
  /\ Len(fifo[mFifoFd]) = n + (k - j)
  /\ \A i \in 1 .. k - j : fifo[mFifoFd][n + i] = r[j + i]
  /\ j > 0 => n = 0 /\ held = mFifoFd
  /\ Heard(r, j)

LastInv ==
  whole => /\ mFifoFd # 0 /\ lastCall \in Calls
           /\ \E k \in 0 .. Len(Records(lastCall)) : \E j \in 0 .. k, n \in Nat :
                OnItsWay(Records(lastCall), k, j, n)

LEMMA RecordsOfDown ==
  ASSUME NEW c \in Calls, c.kind = "down"
  PROVE  /\ Records(c) = <<Ev("track", c.finger), Ev("x", c.at[1]), Ev("y", c.at[2]),
                           Ev("touch", 1), Syn>>
         /\ c.finger \in Int /\ c.at[1] \in Int /\ c.at[2] \in Int /\ c.at = <<c.at[1], c.at[2]>>
<1>1. c \in [kind : {"down"}, finger : Fingers, at : Places]
  BY DEF Calls
<1>2. c.finger \in Nat /\ c.at \in Nat \X Nat
  BY <1>1, InputAssumption
<1> QED BY <1>2 DEF Records

LEMMA RecordsOfMove ==
  ASSUME NEW c \in Calls, c.kind = "move"
  PROVE  /\ Records(c) = <<Ev("x", c.at[1]), Ev("y", c.at[2]), Syn>>
         /\ c.at[1] \in Int /\ c.at[2] \in Int /\ c.at = <<c.at[1], c.at[2]>>
<1>1. c \in [kind : {"move"}, at : Places]
  BY DEF Calls
<1>2. c.at \in Nat \X Nat
  BY <1>1, InputAssumption
<1> QED BY <1>2 DEF Records

LEMMA RecordsOfKey ==
  ASSUME NEW c \in Calls, c.kind = "key"
  PROVE  Records(c) = <<Ev(c.key, 1), Syn, Ev(c.key, 0), Syn>> /\ c.key \in Keys
<1>1. c \in [kind : {"key"}, key : Keys]
  BY DEF Calls
<1> QED BY <1>1 DEF Records

LEMMA RecordsOfUp ==
  ASSUME NEW c \in Calls, c.kind = "up"
  PROVE  Records(c) = <<Ev("track", -1), Ev("touch", 0), Syn>>
  BY DEF Records

LEMMA Kinds == ASSUME NEW c \in Calls PROVE c.kind \in {"down", "move", "up", "key"}
  BY DEF Calls

LEMMA RecordsType == ASSUME NEW c \in Calls PROVE Records(c) \in Seq(Event)
<1>e. \A v \in Int : \A a \in Axes \cup Keys \cup {"syn"} : Ev(a, v) \in Event
  BY DEF Ev, Event
<1>s. Syn \in Event
  BY <1>e DEF Syn
<1>a. {"track", "x", "y", "touch"} \subseteq Axes
  BY DEF Axes
<1>1. CASE c.kind = "down"
  <2>1. /\ Ev("track", c.finger) \in Event /\ Ev("x", c.at[1]) \in Event
        /\ Ev("y", c.at[2]) \in Event /\ Ev("touch", 1) \in Event
    BY <1>1, <1>e, <1>a, RecordsOfDown
  <2>2. Records(c) = <<Ev("track", c.finger), Ev("x", c.at[1]), Ev("y", c.at[2]),
                       Ev("touch", 1), Syn>>
    BY <1>1, RecordsOfDown
  <2> QED BY <1>s, <2>1, <2>2
<1>2. CASE c.kind = "move"
  <2>1. Ev("x", c.at[1]) \in Event /\ Ev("y", c.at[2]) \in Event
    BY <1>2, <1>e, <1>a, RecordsOfMove
  <2>2. Records(c) = <<Ev("x", c.at[1]), Ev("y", c.at[2]), Syn>>
    BY <1>2, RecordsOfMove
  <2> QED BY <1>s, <2>1, <2>2
<1>3. CASE c.kind = "up"
  <2>1. Ev("track", -1) \in Event /\ Ev("touch", 0) \in Event
    BY <1>e, <1>a
  <2>2. Records(c) = <<Ev("track", -1), Ev("touch", 0), Syn>>
    BY <1>3, RecordsOfUp
  <2> QED BY <1>s, <2>1, <2>2
<1>4. CASE c.kind = "key"
  <2>1. Ev(c.key, 1) \in Event /\ Ev(c.key, 0) \in Event
    BY <1>4, <1>e, RecordsOfKey
  <2>2. Records(c) = <<Ev(c.key, 1), Syn, Ev(c.key, 0), Syn>>
    BY <1>4, RecordsOfKey
  <2> QED BY <1>s, <2>1, <2>2
<1> QED BY <1>1, <1>2, <1>3, <1>4, Kinds

\* Who has heard all records of a call believes it.
LEMMA HeardAll ==
  ASSUME InputTypeOK, NEW c \in Calls, Heard(Records(c), Len(Records(c)))
  PROVE  Agrees(shown, c)
<1>d. \A a, v : Ev(a, v).code = a /\ Ev(a, v).value = v
  BY DEF Ev
<1>s. Syn.code = "syn"
  BY DEF Syn, Ev
<1>1. CASE c.kind = "down"
  <2> DEFINE r == Records(c)
  <2>1. /\ Len(r) = 5 /\ r[1] = Ev("track", c.finger) /\ r[2] = Ev("x", c.at[1])
        /\ r[3] = Ev("y", c.at[2]) /\ r[4] = Ev("touch", 1) /\ r[5] = Syn
    BY <1>1, RecordsOfDown
  <2>2. /\ r[1].code = "track" /\ r[1].value = c.finger /\ r[2].code = "x" /\ r[2].value = c.at[1]
        /\ r[3].code = "y" /\ r[3].value = c.at[2] /\ r[4].code = "touch" /\ r[4].value = 1
        /\ r[5].code = "syn"
    BY <2>1, <1>d, <1>s
  <2> HIDE DEF r
  <2>3. Heard(r, 5)
    BY <2>1 DEF r
  <2>4. shown = view
    BY <2>3, <2>2 DEF Heard
  <2>5. \A i \in 1 .. 4 : view[r[i].code] = r[i].value
    BY <2>3, <2>2 DEF Heard
  <2>6. view["track"] = c.finger /\ view["x"] = c.at[1] /\ view["y"] = c.at[2] /\ view["touch"] = 1
    BY <2>5, <2>2
  <2> QED BY <1>1, <2>4, <2>6, RecordsOfDown DEF Agrees
<1>2. CASE c.kind = "move"
  <2> DEFINE r == Records(c)
  <2>1. /\ Len(r) = 3 /\ r[1] = Ev("x", c.at[1]) /\ r[2] = Ev("y", c.at[2]) /\ r[3] = Syn
    BY <1>2, RecordsOfMove
  <2>2. /\ r[1].code = "x" /\ r[1].value = c.at[1] /\ r[2].code = "y" /\ r[2].value = c.at[2]
        /\ r[3].code = "syn"
    BY <2>1, <1>d, <1>s
  <2> HIDE DEF r
  <2>3. Heard(r, 3)
    BY <2>1 DEF r
  <2>4. shown = view /\ \A i \in 1 .. 2 : view[r[i].code] = r[i].value
    BY <2>3, <2>2 DEF Heard
  <2>5. view["x"] = c.at[1] /\ view["y"] = c.at[2]
    BY <2>4, <2>2
  <2> QED BY <1>2, <2>4, <2>5, RecordsOfMove DEF Agrees
<1>3. CASE c.kind = "up"
  <2> DEFINE r == Records(c)
  <2>1. Len(r) = 3 /\ r[1] = Ev("track", -1) /\ r[2] = Ev("touch", 0) /\ r[3] = Syn
    BY <1>3, RecordsOfUp
  <2>2. /\ r[1].code = "track" /\ r[1].value = -1 /\ r[2].code = "touch" /\ r[2].value = 0
        /\ r[3].code = "syn"
    BY <2>1, <1>d, <1>s
  <2> HIDE DEF r
  <2>3. Heard(r, 3)
    BY <2>1 DEF r
  <2>4. shown = view /\ \A i \in 1 .. 2 : view[r[i].code] = r[i].value
    BY <2>3, <2>2 DEF Heard
  <2>5. view["track"] = -1 /\ view["touch"] = 0
    BY <2>4, <2>2
  <2> QED BY <1>3, <2>4, <2>5 DEF Agrees
<1>4. CASE c.kind = "key"
  <2> DEFINE r == Records(c)
  <2>1. Len(r) = 4 /\ r[3] = Ev(c.key, 0) /\ r[4] = Syn /\ c.key # "syn"
    BY <1>4, RecordsOfKey, InputAssumption
  <2>2. r[3].code = c.key /\ r[3].value = 0 /\ r[4].code = "syn"
    BY <2>1, <1>d, <1>s
  <2> HIDE DEF r
  <2>3. Heard(r, 4)
    BY <2>1 DEF r
  <2>4. shown = view /\ view[r[3].code] = 0
    BY <2>1, <2>2, <2>3 DEF Heard
  <2> QED BY <1>4, <2>2, <2>4 DEF Agrees
<1> QED BY <1>1, <1>2, <1>3, <1>4, Kinds

LEMMA InjectsType ==
  ASSUME InputTypeOK, NEW c \in Calls, Injects(c), down' \subseteq Fingers PROVE InputTypeOK'
<1>1. out' \in Seq(Event) /\ lastCall' \in Calls \cup {NoTouch} /\ whole' \in BOOLEAN
  BY RecordsType DEF Injects, InputTypeOK
<1>2. touches' \in 0 .. MaxTouches
  BY InputAssumption DEF Injects, InputTypeOK
<1> QED BY <1>1, <1>2 DEF Injects, InputTypeOK

\* A touch or a key is a call of the bridge; nothing else begins with these actions.
LEMMA CallsBegin ==
  ASSUME InputTypeOK, FirstDown \/ Moves \/ LastUp \/ KeyClick
  PROVE  down' \subseteq Fingers /\ \E c \in Calls : Injects(c)
<1>1. CASE FirstDown
  <2>1. PICK f \in Fingers, at \in Places :
          down' = {f} /\ Injects([kind |-> "down", finger |-> f, at |-> at])
    BY <1>1 DEF FirstDown
  <2>2. [kind |-> "down", finger |-> f, at |-> at] \in Calls
    BY DEF Calls
  <2> QED BY <2>1, <2>2
<1>2. CASE Moves
  <2>1. PICK at \in Places : UNCHANGED down /\ Injects([kind |-> "move", at |-> at])
    BY <1>2 DEF Moves
  <2>2. [kind |-> "move", at |-> at] \in Calls
    BY DEF Calls
  <2> QED BY <2>1, <2>2 DEF InputTypeOK
<1>3. CASE LastUp
  <2>1. [kind |-> "up"] \in Calls
    BY DEF Calls
  <2> QED BY <1>3, <2>1 DEF LastUp
<1>4. CASE KeyClick
  <2>1. PICK k \in Keys : UNCHANGED down /\ Injects([kind |-> "key", key |-> k])
    BY <1>4 DEF KeyClick
  <2>2. [kind |-> "key", key |-> k] \in Calls
    BY DEF Calls
  <2> QED BY <2>1, <2>2 DEF InputTypeOK
<1> QED BY <1>1, <1>2, <1>3, <1>4

\* The records of a FIFO: one more, one less, or none.
FifosOK(f) == f \in [Generations -> Seq(Event)] /\ \A g \in Generations : Len(f[g]) <= FifoCap

LEMMA FifoStep ==
  ASSUME FifosOK(fifo), NEW g,
         \/ \E e \in Event : fifo' = [fifo EXCEPT ![g] = Append(@, e)] /\ Len(fifo[g]) < FifoCap
         \/ fifo' = [fifo EXCEPT ![g] = Tail(@)] /\ fifo[g] # <<>>
         \/ fifo' = [h \in Generations |-> IF h = g THEN fifo[h] ELSE <<>>]
  PROVE  FifosOK(fifo')
<1> USE InputAssumption
<1>e. <<>> \in Seq(Event) /\ Len(<<>>) = 0
  OBVIOUS
<1>1. CASE \E e \in Event : fifo' = [fifo EXCEPT ![g] = Append(@, e)] /\ Len(fifo[g]) < FifoCap
  <2>1. PICK e \in Event : fifo' = [fifo EXCEPT ![g] = Append(@, e)]
    BY <1>1
  <2>2. ASSUME NEW h \in Generations PROVE fifo'[h] \in Seq(Event) /\ Len(fifo'[h]) <= FifoCap
    <3>1. fifo[h] \in Seq(Event) /\ Len(fifo[h]) <= FifoCap
      BY DEF FifosOK
    <3>2. Append(fifo[h], e) \in Seq(Event) /\ Len(Append(fifo[h], e)) = Len(fifo[h]) + 1
      BY <3>1
    <3> QED BY <1>1, <2>1, <3>1, <3>2 DEF FifosOK
  <2> QED BY <2>1, <2>2 DEF FifosOK
<1>2. CASE fifo' = [fifo EXCEPT ![g] = Tail(@)] /\ fifo[g] # <<>>
  <2>1. ASSUME NEW h \in Generations PROVE fifo'[h] \in Seq(Event) /\ Len(fifo'[h]) <= FifoCap
    <3>1. fifo[h] \in Seq(Event) /\ Len(fifo[h]) <= FifoCap
      BY DEF FifosOK
    <3>2. fifo[h] # <<>> => Tail(fifo[h]) \in Seq(Event) /\ Len(Tail(fifo[h])) = Len(fifo[h]) - 1
      BY <3>1
    <3> QED BY <1>2, <3>1, <3>2 DEF FifosOK
  <2> QED BY <1>2, <2>1 DEF FifosOK
<1>3. CASE fifo' = [h \in Generations |-> IF h = g THEN fifo[h] ELSE <<>>]
  BY <1>3, <1>e DEF FifosOK
<1> QED BY <1>1, <1>2, <1>3

LEMMA InputTypeStep == ASSUME InputTypeOK, InputNext PROVE InputTypeOK'
<1> USE InputAssumption
<1>f. FifosOK(fifo)
  BY DEF InputTypeOK, FifosOK
<1>1. CASE Initializes
  <2>1. FifosOK(fifo')
    BY <1>1, <1>f, FifoStep DEF Initializes
  <2>2. mFifoFd' \in 0 .. MaxInits /\ inits' \in 0 .. MaxInits /\ touches' \in 0 .. MaxTouches
    BY <1>1 DEF Initializes, InputTypeOK
  <2> QED BY <1>1, <2>1, <2>2 DEF Initializes, InputTypeOK, FifosOK
<1>2. CASE FirstDown \/ Moves \/ LastUp \/ KeyClick
  BY <1>2, CallsBegin, InjectsType
<1>3. CASE OtherFinger
  <2>1. down' \subseteq Fingers /\ touches' \in 0 .. MaxTouches
    <3>1. \E f \in Fingers : down' \subseteq down \cup {f}
      BY <1>3 DEF OtherFinger
    <3>2. touches' = touches + 1 /\ touches < MaxTouches
      BY <1>3 DEF OtherFinger
    <3> QED BY <3>1, <3>2 DEF InputTypeOK
  <2> QED BY <1>3, <2>1 DEF OtherFinger, InputTypeOK
<1>4. CASE GuestOpens
  <2>1. FifosOK(fifo')
    BY <1>4, <1>f, FifoStep DEF GuestOpens
  <2> QED BY <1>4, <2>1 DEF GuestOpens, InputTypeOK, FifosOK
<1>5. CASE WritesEvent
  <2>1. out # <<>> /\ Head(out) \in Event /\ out' = Tail(out) /\ out' \in Seq(Event)
    BY <1>5 DEF WritesEvent, InputTypeOK
  <2>2. FifosOK(fifo')
    <3>1. CASE Len(fifo[mFifoFd]) < FifoCap
      <4>1. fifo' = [fifo EXCEPT ![mFifoFd] = Append(@, Head(out))]
        BY <1>5, <3>1 DEF WritesEvent
      <4> QED BY <4>1, <3>1, <2>1, <1>f, FifoStep
    <3>2. CASE ~ (Len(fifo[mFifoFd]) < FifoCap)
      BY <1>5, <3>2, <1>f DEF WritesEvent
    <3> QED BY <3>1, <3>2
  <2>3. whole' \in BOOLEAN
    BY <1>5 DEF WritesEvent, InputTypeOK
  <2> QED BY <1>5, <2>1, <2>2, <2>3 DEF WritesEvent, InputTypeOK, FifosOK
<1>6. CASE GuestReads
  <2>1. held \in Generations /\ fifo[held] \in Seq(Event) /\ fifo[held] # <<>>
    BY <1>6 DEF GuestReads, InputTypeOK, Generations
  <2>2. Head(fifo[held]) \in Event
    BY <2>1
  <2>3. view' \in View /\ shown' \in View
    BY <1>6, <2>2 DEF GuestReads, InputTypeOK, View, Event
  <2>4. FifosOK(fifo')
    BY <1>6, <1>f, FifoStep DEF GuestReads
  <2> QED BY <1>6, <2>3, <2>4 DEF GuestReads, InputTypeOK, FifosOK
<1> QED BY <1>1, <1>2, <1>3, <1>4, <1>5, <1>6 DEF InputNext, InputBegins

LEMMA HeardNone == ASSUME NEW r PROVE Heard(r, 0) /\ Heard(r, 0)'
  BY DEF Heard

\* A step that leaves the last call's records where they are.
LEMMA LastKept ==
  ASSUME LastInv, UNCHANGED <<mFifoFd, fifo, out, held, view, shown, lastCall, whole>>
  PROVE  LastInv'
<1>1. UNCHANGED <<mFifoFd, fifo, out, held, view, shown, lastCall, whole>>
  OBVIOUS
<1>2. SUFFICES ASSUME whole PROVE LastInv'
  BY <1>1 DEF LastInv
<1>3. /\ mFifoFd # 0 /\ lastCall \in Calls
      /\ \E k \in 0 .. Len(Records(lastCall)) : \E j \in 0 .. k, n \in Nat :
           OnItsWay(Records(lastCall), k, j, n)
  BY <1>2 DEF LastInv
<1>4. \A r, k, j, n : OnItsWay(r, k, j, n) => OnItsWay(r, k, j, n)'
  BY <1>1 DEF OnItsWay, Heard
<1>5. lastCall' = lastCall /\ mFifoFd' = mFifoFd /\ whole' = whole
  BY <1>1
<1>r. PICK r : r = Records(lastCall)
  OBVIOUS
<1>k. PICK k \in 0 .. Len(r) : \E j \in 0 .. k, n \in Nat : OnItsWay(r, k, j, n)
  BY <1>3, <1>r
<1>6. PICK j \in 0 .. k, n \in Nat : OnItsWay(r, k, j, n)
  BY <1>k
<1>7. OnItsWay(r, k, j, n)'
  BY <1>4, <1>6
<1>9. Records(lastCall') = r
  BY <1>5, <1>r
<1>8. j \in 0 .. k /\ n \in Nat
  BY <1>6
<1> QED BY <1>3, <1>5, <1>7, <1>8, <1>9 DEF LastInv

LEMMA LastStep == ASSUME InputTypeOK, LastInv, InputNext PROVE LastInv'
<1> USE InputAssumption
<1>1. CASE Initializes
  BY <1>1 DEF Initializes, LastInv
<1>2. CASE FirstDown \/ Moves \/ LastUp \/ KeyClick
  <2>1. PICK c \in Calls : Injects(c)
    BY <1>2, CallsBegin
  <2>2. CASE mFifoFd = 0
    BY <2>1, <2>2 DEF Injects, LastInv
  <2>3. CASE mFifoFd # 0
    <3>1. /\ UNCHANGED <<mFifoFd, fifo, held, view, shown>>
          /\ out' = Records(c) /\ lastCall' = c /\ whole' = TRUE
      BY <2>1, <2>3 DEF Injects
    <3>2. fifo[mFifoFd] \in Seq(Event)
      BY <2>3 DEF InputTypeOK, Generations
    <3>3. Records(c) \in Seq(Event) /\ Left(Records(c), 0) = Records(c)
      BY RecordsType, LeftAll
    <3>4. OnItsWay(Records(c), 0, 0, Len(fifo[mFifoFd]))'
      BY <3>1, <3>2, <3>3, HeardNone DEF OnItsWay
    <3>5. Len(fifo[mFifoFd]) \in Nat /\ 0 \in 0 .. Len(Records(c))
      BY <3>2, <3>3
    <3>r. PICK r, n : r = Records(c) /\ n = Len(fifo[mFifoFd])
      OBVIOUS
    <3>6. OnItsWay(r, 0, 0, n)'
      <4>1. fifo' = fifo /\ mFifoFd' = mFifoFd
        BY <3>1
      <4> QED BY <3>4, <3>r, <4>1 DEF OnItsWay
    <3>7. Records(lastCall') = r /\ lastCall' \in Calls /\ mFifoFd' # 0
      BY <2>3, <3>1, <3>r
    <3>8. n \in Nat /\ 0 \in 0 .. Len(r) /\ 0 \in 0 .. 0
      BY <3>5, <3>r
    <3> QED BY <3>6, <3>7, <3>8 DEF LastInv
  <2> QED BY <2>2, <2>3
<1>3. CASE OtherFinger
  BY <1>3, LastKept DEF OtherFinger
<1>4. ASSUME whole', GuestOpens \/ WritesEvent \/ GuestReads
      PROVE  LastInv'
  <2>0. whole /\ UNCHANGED <<mFifoFd, lastCall>>
    BY <1>4 DEF GuestOpens, WritesEvent, GuestReads, InputTypeOK
  <2>c. mFifoFd # 0 /\ lastCall \in Calls /\ mFifoFd \in Generations
    BY <2>0 DEF LastInv, InputTypeOK, Generations
  <2>r. PICK r \in Seq(Event) : r = Records(lastCall)
    BY <2>c, RecordsType
  <2>q. Records(lastCall)' = r
    BY <2>0, <2>r DEF Records
  <2>k. PICK k \in 0 .. Len(r) : \E j \in 0 .. k, n \in Nat : OnItsWay(r, k, j, n)
    BY <2>0, <2>r DEF LastInv
  <2>j. PICK j \in 0 .. k, n \in Nat : OnItsWay(r, k, j, n)
    BY <2>k
  <2>s. ASSUME NEW l \in 0 .. Len(r), NEW i \in 0 .. l, NEW m \in Nat, OnItsWay(r, l, i, m)'
        PROVE  LastInv'
    <3>1. OnItsWay(Records(lastCall), l, i, m)'
      BY <2>s, <2>q DEF OnItsWay, Heard
    <3>2. l \in 0 .. Len(Records(lastCall)')
      BY <2>q
    <3> QED BY <2>0, <2>c, <3>1, <3>2 DEF LastInv
  <2>f. fifo[mFifoFd] \in Seq(Event)
    BY <2>c DEF InputTypeOK
  <2>1. CASE GuestOpens
    <3>1. /\ held # mFifoFd /\ UNCHANGED <<mFifoFd, out, view, shown>> /\ held' = mFifoFd
          /\ fifo'[mFifoFd] = fifo[mFifoFd]
      BY <2>1, <2>c DEF GuestOpens
    <3>2. OnItsWay(r, k, j, n)'
      BY <3>1, <2>j DEF OnItsWay, Heard
    <3> QED BY <3>2, <2>s
  <2>2. CASE WritesEvent
    <3>1. /\ UNCHANGED <<mFifoFd, held, view, shown>> /\ out # <<>> /\ out' = Tail(out)
          /\ fifo' = [fifo EXCEPT ![mFifoFd] = Append(@, Head(out))]
      BY <2>2, <1>4 DEF WritesEvent
    <3>2. /\ k + 1 \in 0 .. Len(r) /\ Head(out) = r[k + 1] /\ out' = Left(r, k + 1)
          /\ k + 1 \in 1 .. Len(r)
      BY <3>1, <2>j, LeftTail DEF OnItsWay
    <3>3. r[k + 1] \in Event
      BY <3>2
    <3>4. fifo'[mFifoFd] = Append(fifo[mFifoFd], r[k + 1])
      BY <3>1, <3>2, <2>c DEF InputTypeOK
    <3>5. /\ Len(fifo'[mFifoFd]) = n + (k + 1 - j)
          /\ \A i \in 1 .. k + 1 - j : fifo'[mFifoFd][n + i] = r[j + i]
      <4> DEFINE f == fifo[mFifoFd]
      <4>1. Len(f) = n + (k - j) /\ \A i \in 1 .. k - j : f[n + i] = r[j + i]
        BY <2>j DEF OnItsWay
      <4>2. /\ Len(fifo'[mFifoFd]) = Len(f) + 1 /\ fifo'[mFifoFd][Len(f) + 1] = r[k + 1]
            /\ \A i \in 1 .. Len(f) : fifo'[mFifoFd][i] = f[i]
        BY <3>3, <3>4, <2>f
      <4> HIDE DEF f
      <4>3. ASSUME NEW i \in 1 .. k - j PROVE fifo'[mFifoFd][n + i] = r[j + i]
        <5>1. n + i \in 1 .. Len(f)
          BY <4>1, <2>j, <2>k
        <5> QED BY <5>1, <4>1, <4>2
      <4>4. ASSUME NEW i \in 1 .. k + 1 - j, i \notin 1 .. k - j
            PROVE  fifo'[mFifoFd][n + i] = r[j + i]
        <5>1. n + i = Len(f) + 1 /\ j + i = k + 1
          BY <4>1, <4>4, <2>j, <2>k
        <5> QED BY <5>1, <4>2
      <4>5. \A i \in 1 .. k + 1 - j : fifo'[mFifoFd][n + i] = r[j + i]
        BY <4>3, <4>4
      <4>6. n + (k - j) + 1 = n + (k + 1 - j)
        BY k \in Int /\ j \in Int
      <4>7. Len(fifo'[mFifoFd]) = n + (k - j) + 1
        BY <4>1, <4>2
      <4> QED BY <4>5, <4>6, <4>7
    <3>6. OnItsWay(r, k + 1, j, n)'
      <4>1. Heard(r, j)' /\ (j > 0 => n = 0 /\ held = mFifoFd)'
        BY <3>1, <2>j DEF OnItsWay, Heard
      <4>2. /\ (out = Left(r, k + 1))'
            /\ (Len(fifo[mFifoFd]) = n + (k + 1 - j))'
            /\ (\A i \in 1 .. k + 1 - j : fifo[mFifoFd][n + i] = r[j + i])'
        BY <3>1, <3>2, <3>5
      <4> QED BY <4>1, <4>2 DEF OnItsWay
    <3>7. j \in 0 .. k + 1
      OBVIOUS
    <3> QED BY <3>2, <3>6, <3>7, <2>s
  <2>3. CASE GuestReads
    <3>1. /\ UNCHANGED <<mFifoFd, out, held>> /\ held # 0 /\ fifo[held] # <<>>
          /\ fifo' = [fifo EXCEPT ![held] = Tail(@)]
      BY <2>3 DEF GuestReads
    <3>2. CASE held # mFifoFd
      <4>1. j = 0 /\ fifo'[mFifoFd] = fifo[mFifoFd]
        BY <3>1, <3>2, <2>c, <2>j DEF OnItsWay, InputTypeOK
      <4>2. OnItsWay(r, k, j, n)'
        BY <4>1, <3>1, <2>j, HeardNone DEF OnItsWay
      <4> QED BY <4>2, <2>s
    <3>3. CASE held = mFifoFd
      <4>1. /\ fifo'[mFifoFd] = Tail(fifo[mFifoFd]) /\ fifo[mFifoFd] # <<>>
            /\ Len(fifo[mFifoFd]) > 0 /\ Len(fifo'[mFifoFd]) = Len(fifo[mFifoFd]) - 1
            /\ \A i \in 1 .. Len(fifo'[mFifoFd]) : fifo'[mFifoFd][i] = fifo[mFifoFd][i + 1]
        BY <3>1, <3>3, <2>c, <2>f DEF InputTypeOK
      <4>2. CASE n > 0
        <5>1. j = 0 /\ n - 1 \in Nat
          BY <4>2, <2>j DEF OnItsWay
        <5>2. /\ Len(fifo'[mFifoFd]) = (n - 1) + (k - j)
              /\ \A i \in 1 .. k - j : fifo'[mFifoFd][(n - 1) + i] = r[j + i]
          <6>1. /\ Len(fifo[mFifoFd]) = n + (k - j)
                /\ \A i \in 1 .. k - j : fifo[mFifoFd][n + i] = r[j + i]
            BY <2>j DEF OnItsWay
          <6>2. Len(fifo'[mFifoFd]) = (n - 1) + (k - j)
            BY <6>1, <4>1
          <6>3. ASSUME NEW i \in 1 .. k - j
                PROVE  fifo'[mFifoFd][(n - 1) + i] = r[j + i]
            <7>1. (n - 1) + i \in 1 .. Len(fifo'[mFifoFd]) /\ ((n - 1) + i) + 1 = n + i
              BY <6>2, <4>2
            <7> QED BY <7>1, <4>1, <6>1
          <6> QED BY <6>2, <6>3
        <5>3. OnItsWay(r, k, j, n - 1)'
          BY <5>1, <5>2, <3>1, <2>j, HeardNone DEF OnItsWay
        <5> QED BY <5>1, <5>3, <2>s
      <4>3. CASE n = 0
        <5>1. j + 1 \in 0 .. k /\ j + 1 \in 1 .. Len(r) /\ fifo[mFifoFd][1] = r[j + 1]
          BY <4>1, <4>3, <2>j DEF OnItsWay
        <5>2. /\ Len(fifo'[mFifoFd]) = 0 + (k - (j + 1))
              /\ \A i \in 1 .. k - (j + 1) : fifo'[mFifoFd][0 + i] = r[(j + 1) + i]
          BY <4>1, <4>3, <2>j DEF OnItsWay
        <5>e. Head(fifo[mFifoFd]) = r[j + 1] /\ r[j + 1] \in Event
          BY <5>1, <4>1, <2>f
        <5>3. Heard(r, j + 1)'
          <6>1. CASE r[j + 1].code = "syn"
            <7>1. shown' = view /\ view' = view
              BY <6>1, <5>e, <2>3, <3>3 DEF GuestReads
            <7> QED BY <6>1, <7>1, <2>j DEF OnItsWay, Heard
          <6>2. CASE r[j + 1].code # "syn"
            <7>1. view' = [view EXCEPT ![r[j + 1].code] = r[j + 1].value]
              BY <6>2, <5>e, <2>3, <3>3 DEF GuestReads
            <7>2. r[j + 1].code \in Axes \cup Keys /\ view \in View
              BY <5>e, <6>2 DEF Event, InputTypeOK
            <7>3. /\ view'[r[j + 1].code] = r[j + 1].value
                  /\ \A a : a # r[j + 1].code => view'[a] = view[a]
              BY <7>1, <7>2 DEF View
            <7>4. ASSUME NEW i \in 1 .. j + 1
                  PROVE  \/ r[i].code = "syn" \/ view'[r[i].code] = r[i].value
                         \/ \E m \in i + 1 .. j + 1 : r[m].code = r[i].code
              <8>1. CASE i = j + 1
                BY <7>3, <8>1
              <8>2. CASE i \in 1 .. j /\ r[i].code = r[j + 1].code
                BY <8>2
              <8>3. CASE i \in 1 .. j /\ r[i].code # r[j + 1].code
                BY <7>3, <8>3, <2>j DEF OnItsWay, Heard
              <8> QED BY <8>1, <8>2, <8>3
            <7> QED BY <6>2, <7>4 DEF Heard
          <6> QED BY <6>1, <6>2
        <5>4. OnItsWay(r, k, j + 1, 0)'
          BY <5>2, <5>3, <3>1, <3>3, <2>j DEF OnItsWay
        <5> QED BY <5>1, <5>4, <2>s
      <4> QED BY <4>2, <4>3
    <3> QED BY <3>2, <3>3
  <2> QED BY <1>4, <2>1, <2>2, <2>3
<1>5. ASSUME ~ whole' PROVE LastInv'
  BY <1>5 DEF LastInv
<1> QED BY <1>1, <1>2, <1>3, <1>4, <1>5 DEF InputNext, InputBegins

InputInv == InputTypeOK /\ LastInv

LEMMA InputInitial == ASSUME InputInit PROVE InputInv
<1> USE InputAssumption
<1>1. fifo \in [Generations -> Seq(Event)] /\ \A g \in Generations : Len(fifo[g]) = 0
  <2>1. <<>> \in Seq(Event) /\ Len(<<>>) = 0
    OBVIOUS
  <2> QED BY <2>1 DEF InputInit
<1>2. Untouched \in View
  BY DEF Untouched, View
<1>3. out \in Seq(Event)
  BY DEF InputInit
<1>4. InputTypeOK
  <2>1. mFifoFd \in 0 .. MaxInits /\ held \in 0 .. MaxInits /\ inits \in 0 .. MaxInits
        /\ touches \in 0 .. MaxTouches
    BY DEF InputInit
  <2>2. \A g \in Generations : Len(fifo[g]) <= FifoCap
    BY <1>1
  <2> QED BY <1>1, <1>2, <1>3, <2>1, <2>2 DEF InputInit, InputTypeOK
<1>5. LastInv
  BY DEF InputInit, LastInv
<1> QED BY <1>4, <1>5 DEF InputInv

LEMMA InputNextStep == ASSUME InputInv, [InputNext]_inputVars PROVE InputInv'
<1>1. CASE InputNext
  BY <1>1, InputTypeStep, LastStep DEF InputInv
<1>2. CASE UNCHANGED inputVars
  <2>1. InputTypeOK'
    BY <1>2 DEF InputInv, InputTypeOK, inputVars
  <2>2. LastInv'
    BY <1>2, LastKept DEF InputInv, inputVars
  <2> QED BY <2>1, <2>2 DEF InputInv
<1> QED BY <1>1, <1>2

LEMMA InputSafe == ASSUME InputInv PROVE LastCallShows
<1>1. SUFFICES ASSUME out = <<>>, whole, held = mFifoFd, fifo[held] = <<>>
               PROVE  Agrees(shown, lastCall)
  BY DEF LastCallShows
<1>2. lastCall \in Calls
  BY <1>1 DEF InputInv, LastInv
<1>3. PICK r \in Seq(Event) : r = Records(lastCall)
  BY <1>2, RecordsType
<1>4. PICK k \in 0 .. Len(r) : \E j \in 0 .. k, n \in Nat : OnItsWay(r, k, j, n)
  BY <1>1, <1>3 DEF InputInv, LastInv
<1>5. PICK j \in 0 .. k, n \in Nat : OnItsWay(r, k, j, n)
  BY <1>4
<1>6. k = Len(r)
  BY <1>1, <1>5, LeftNone DEF OnItsWay
<1>7. j = k
  <2>1. Len(fifo[mFifoFd]) = 0
    BY <1>1, Len(<<>>) = 0
  <2> QED BY <2>1, <1>5 DEF OnItsWay
<1>8. Heard(r, Len(r))
  BY <1>5, <1>6, <1>7 DEF OnItsWay
<1> QED BY <1>2, <1>3, <1>8, HeardAll DEF InputInv

-----------------------------------------------------------------------------
(* The names: every file of the power supplies and of the sensors is found where it is       *)
(* written.  Lists of pieces and of rules are joined without regard to what is in them.       *)

IsList(s) == s \in Seq({s[i] : i \in DOMAIN s})

LEMMA ListOf == ASSUME NEW S, NEW s \in Seq(S) PROVE IsList(s)
<1>1. s \in [1 .. Len(s) -> {s[i] : i \in DOMAIN s}] /\ Len(s) \in Nat
  OBVIOUS
<1> QED BY <1>1, SeqDef DEF IsList

LEMMA ListOf1 == ASSUME NEW a PROVE IsList(<<a>>) /\ Len(<<a>>) = 1 /\ <<a>>[1] = a
<1>1. <<a>> \in Seq({a})
  OBVIOUS
<1> QED BY <1>1, ListOf

LEMMA ListOf2 == ASSUME NEW a, NEW b PROVE IsList(<<a, b>>)
<1>1. <<a, b>> \in Seq({a, b})
  OBVIOUS
<1> QED BY <1>1, ListOf

LEMMA ListOf3 == ASSUME NEW a, NEW b, NEW c PROVE IsList(<<a, b, c>>)
<1>1. <<a, b, c>> \in Seq({a, b, c})
  OBVIOUS
<1> QED BY <1>1, ListOf

LEMMA ListOf4 == ASSUME NEW a, NEW b, NEW c, NEW d PROVE IsList(<<a, b, c, d>>)
<1>1. <<a, b, c, d>> \in Seq({a, b, c, d})
  OBVIOUS
<1> QED BY <1>1, ListOf

LEMMA ListOfFunction ==
  ASSUME NEW n \in Nat, NEW f, f = [i \in 1 .. n |-> f[i]] PROVE IsList(f) /\ Len(f) = n
<1>1. f \in [1 .. n -> {f[i] : i \in 1 .. n}]
  OBVIOUS
<1>2. f \in Seq({f[i] : i \in 1 .. n})
  BY <1>1, SeqDef
<1>3. Len(f) = n
  BY <1>1, <1>2, LenProperties
<1> QED BY <1>2, <1>3, ListOf

LEMMA ListJoin ==
  ASSUME NEW s, NEW t, IsList(s), IsList(t)
  PROVE  /\ IsList(s \o t) /\ Len(s) \in Nat /\ Len(t) \in Nat /\ Len(s \o t) = Len(s) + Len(t)
         /\ \A i \in 1 .. Len(s) + Len(t) :
              (s \o t)[i] = IF i <= Len(s) THEN s[i] ELSE t[i - Len(s)]
<1> DEFINE S == {s[i] : i \in DOMAIN s} \cup {t[i] : i \in DOMAIN t}
<1>1. s \in Seq(S) /\ t \in Seq(S)
  <2>1. \A A, B : A \subseteq B => Seq(A) \subseteq Seq(B)
    BY SeqDef
  <2> QED BY <2>1 DEF IsList
<1> HIDE DEF S
<1>2. /\ s \o t \in Seq(S) /\ Len(s) \in Nat /\ Len(t) \in Nat /\ Len(s \o t) = Len(s) + Len(t)
      /\ \A i \in 1 .. Len(s) + Len(t) :
           (s \o t)[i] = IF i <= Len(s) THEN s[i] ELSE t[i - Len(s)]
  BY <1>1, ConcatProperties
<1>3. IsList(s \o t)
  BY <1>2, ListOf
<1> QED BY <1>2, <1>3

LEMMA JoinStart ==
  ASSUME NEW s, NEW t, IsList(s), IsList(t), Len(s) >= 19
  PROVE  /\ IsList(s \o t) /\ Len(s \o t) \in Nat /\ Len(s \o t) >= 19
         /\ \A i \in 1 .. 19 : (s \o t)[i] = s[i]
<1>1. Len(s) \in Nat /\ Len(t) \in Nat /\ Len(s \o t) = Len(s) + Len(t)
  BY ListJoin
<1>2. \A i \in 1 .. 19 : i \in 1 .. Len(s)
  BY <1>1
<1> QED BY <1>1, <1>2, ListJoin

LEMMA ListAssociative ==
  ASSUME NEW s, NEW t, NEW u, IsList(s), IsList(t), IsList(u)
  PROVE  (s \o t) \o u = s \o (t \o u)
<1> DEFINE S == {s[i] : i \in DOMAIN s} \cup {t[i] : i \in DOMAIN t} \cup {u[i] : i \in DOMAIN u}
<1>1. s \in Seq(S) /\ t \in Seq(S) /\ u \in Seq(S)
  <2>1. \A A, B : A \subseteq B => Seq(A) \subseteq Seq(B)
    BY SeqDef
  <2> QED BY <2>1 DEF IsList
<1> HIDE DEF S
<1> QED BY <1>1, ConcatAssociative

LEMMA ListTail ==
  ASSUME NEW s, NEW t, IsList(s), IsList(t)
  PROVE  /\ IsPrefix(s, s \o t)
         /\ Rest(s, s \o t) = t
<1> DEFINE S == {s[i] : i \in DOMAIN s} \cup {t[i] : i \in DOMAIN t}
<1>1. s \in Seq(S) /\ t \in Seq(S)
  <2>1. \A A, B : A \subseteq B => Seq(A) \subseteq Seq(B)
    BY SeqDef
  <2> QED BY <2>1 DEF IsList
<1> HIDE DEF S
<1> DEFINE p == s \o t
<1>2. /\ p \in Seq(S) /\ Len(s) \in Nat /\ Len(t) \in Nat /\ Len(p) = Len(s) + Len(t)
      /\ \A i \in 1 .. Len(s) + Len(t) : p[i] = IF i <= Len(s) THEN s[i] ELSE t[i - Len(s)]
  BY <1>1, ConcatProperties
<1> HIDE DEF p
<1>3. SubSeq(s, 1, Len(s)) = SubSeq(p, 1, Len(s))
  BY <1>1, <1>2
<1>4. SubSeq(p, Len(s) + 1, Len(p)) = t
  <2>1. SubSeq(p, Len(s) + 1, Len(p)) \in Seq(S)
    BY <1>2
  <2>2. Len(SubSeq(p, Len(s) + 1, Len(p))) = Len(t)
    BY <1>2
  <2>3. \A i \in 1 .. Len(t) : SubSeq(p, Len(s) + 1, Len(p))[i] = t[i]
    BY <1>2
  <2> QED BY <1>1, <2>1, <2>2, <2>3, SeqEqual
<1> QED BY <1>2, <1>3, <1>4 DEF IsPrefix, Rest, p

LEMMA PrefixAgrees ==
  ASSUME NEW s, NEW p, IsList(s), IsList(p), IsPrefix(s, p), NEW i \in 1 .. Len(s)
  PROVE  s[i] = p[i]
<1>1. Len(s) \in Nat /\ Len(p) \in Nat /\ Len(s) <= Len(p)
  BY DEF IsPrefix, IsList
<1>2. SubSeq(s, 1, Len(s))[i] = s[i] /\ SubSeq(p, 1, Len(s))[i] = p[i]
  BY <1>1 DEF IsList
<1> QED BY <1>2 DEF IsPrefix

\* A rule whose first piece is another one than the path's does not match.
LEMMA OtherPiece ==
  ASSUME NEW rule, NEW p, IsList(rule.from), IsList(p), NEW i \in 1 .. Len(rule.from),
         rule.from[i] # p[i]
  PROVE  ~ Matches(rule, p)
<1>1. p # rule.from
  OBVIOUS
<1>2. ~ IsPrefix(rule.from, p)
  BY PrefixAgrees
<1> QED BY <1>1, <1>2 DEF Matches, Inside, IsStrictPrefix

\* A name that is not in /sys.
Outside(f) == IsList(f) /\ 1 \in 1 .. Len(f) /\ f[1] # "/sys"

LEMMA DevicesOutside ==
  /\ \A n : Outside(Dev(n)) /\ Outside(Socket(n))
  /\ Outside(Logdw) /\ Outside(Logdr)
  /\ Outside(<<"/proc", "/cmdline">>) /\ Outside(<<"/dev", "/graphics", "/fb0">>)
  /\ Outside(<<"/etc", "/resolv.conf">>) /\ Outside(<<"/etc", "/hosts">>)
<1>1. \A a, b : IsList(<<a, b>>) /\ Len(<<a, b>>) = 2 /\ <<a, b>>[1] = a
  BY ListOf2
<1>2. \A a, b, c : IsList(<<a, b, c>>) /\ Len(<<a, b, c>>) = 3 /\ <<a, b, c>>[1] = a
  BY ListOf3
<1>3. \A n : Outside(Dev(n)) /\ Outside(Socket(n)) /\ Len(Socket(n)) = 3
  BY <1>1, <1>2 DEF Outside, Dev, Socket
<1>4. ASSUME NEW n PROVE Outside(Socket("/logd") \o <<n>>)
  <2>1. IsList(<<n>>)
    BY ListOf1
  <2> QED BY <1>3, <2>1, ListJoin DEF Outside
<1>5. Outside(Logdw) /\ Outside(Logdr)
  BY <1>4 DEF Logdw, Logdr
<1>6. /\ Outside(<<"/proc", "/cmdline">>) /\ Outside(<<"/etc", "/resolv.conf">>)
      /\ Outside(<<"/etc", "/hosts">>)
  BY <1>1 DEF Outside
<1>7. Outside(<<"/dev", "/graphics", "/fb0">>)
  BY <1>2 DEF Outside
<1> QED BY <1>3, <1>5, <1>6, <1>7

LEMMA ProcAndDev ==
  /\ IsList(ProcAndDevRules) /\ Len(ProcAndDevRules) = 16
  /\ \A i \in 1 .. 16 : Outside(ProcAndDevRules[i].from)
<1>1. Len(ProcAndDevRules) = 16 /\ ProcAndDevRules = [i \in 1 .. 16 |-> ProcAndDevRules[i]]
  BY DEF ProcAndDevRules
<1>2. IsList(ProcAndDevRules)
  BY <1>1, ListOfFunction
<1>3. \A f, t : Is(f, t).from = f /\ Starts(f, t).from = f /\ Drops(f, t).from = f
  BY DEF Is, Starts, Drops
<1>4. \A i \in 1 .. 16 : \E f : Outside(f) /\ ProcAndDevRules[i].from = f
  BY <1>3, DevicesOutside DEF ProcAndDevRules
<1> QED BY <1>1, <1>2, <1>4

LEMMA Lists ==
  /\ IsList(SysRules) /\ Len(SysRules) = 3
  /\ IsList(VideoRules) /\ IsList(StorageRules) /\ IsList(NodeRules)
<1>1. Len(SysRules) = 3 /\ IsList(SysRules) /\ IsList(VideoRules)
  BY ListOf3 DEF SysRules, VideoRules
<1>2. IsList(StorageRules)
  <2> DEFINE both(from, to) == <<Is(from, to), Keeps(from, to)>>
  <2>1. \A from, to : IsList(both(from, to))
    BY ListOf2
  <2>2. \A s, t : IsList(s) /\ IsList(t) => IsList(s \o t)
    BY ListJoin
  <2> HIDE DEF both
  <2>3. \A a, b, c, d, e, f, a1, b1, c1, d1, e1, f1 :
          IsList(both(a, a1) \o both(b, b1) \o both(c, c1) \o both(d, d1) \o both(e, e1) \o both(f, f1))
    BY <2>1, <2>2
  <2> QED BY <2>3 DEF StorageRules, both
<1>3. IsList(NodeRules)
  <2>1. \A list : DOMAIN list = 1 .. 4 => IsList(Whole(list))
    BY ListOfFunction DEF Whole
  <2>2. IsList(Whole(<<<<"/proc", "/mounts">>, Socket("/rild"), Socket("/rild") \o <<"-debug">>,
                       Socket("/wpa_wlan0")>>))
    BY <2>1
  <2>3. IsList([i \in DOMAIN Nodes |-> Is(Dev(Nodes[i]), Tmp(Nodes[i]))])
    <3>1. DOMAIN Nodes = 1 .. 12
      BY DEF Nodes
    <3> QED BY <3>1, ListOfFunction
  <2>4. IsList(<<Is(Dev("/qfp-nodisplay"), Tmp("/fingerprint")), Is(Dev("/esfp0"), Tmp("/fingerprint")),
                 Is(<<"/dev", "/dri", "/card0">>, Tmp("/card0")),
                 Is(<<"/dev", "/dri", "/renderD128">>, Tmp("/renderD128"))>>)
    BY ListOf4
  <2> QED BY <2>2, <2>3, <2>4, ListJoin DEF NodeRules
<1> QED BY <1>1, <1>2, <1>3

\* Sixteen rules and the three of /sys.
Joins(p, s, t) ==
  /\ IsList(p) /\ Len(p) = 19
  /\ \A i \in 1 .. 16 : p[i] = s[i]
  /\ p[17] = t[1] /\ p[18] = t[2] /\ p[19] = t[3]

LEMMA JoinSys ==
  ASSUME NEW s, NEW t, IsList(s), IsList(t), Len(s) = 16, Len(t) = 3
  PROVE  Joins(s \o t, s, t)
<1> DEFINE p == s \o t
<1>1. IsList(p) /\ Len(p) = Len(s) + Len(t)
  BY ListJoin
<1>2. \A i \in 1 .. Len(s) + Len(t) : p[i] = IF i <= Len(s) THEN s[i] ELSE t[i - Len(s)]
  BY ListJoin
<1> HIDE DEF p
<1>3. IsList(p) /\ Len(p) = 19
  BY <1>1
<1>4. \A i \in 1 .. 16 : p[i] = s[i]
  BY <1>2
<1>5. p[17] = t[1] /\ p[18] = t[2] /\ p[19] = t[3]
  BY <1>2
<1>6. Joins(p, s, t)
  BY <1>3, <1>4, <1>5 DEF Joins
<1> QED BY <1>6 DEF p

LEMMA RulesOfSys ==
  /\ IsList(Rules) /\ Len(Rules) \in Nat /\ Len(Rules) >= 19 /\ DOMAIN Rules = 1 .. Len(Rules)
  /\ \A i \in 1 .. 16 : Outside(Rules[i].from) /\ Rules[i] = ProcAndDevRules[i]
  /\ Rules[17] = SysRules[1] /\ Rules[18] = SysRules[2] /\ Rules[19] = SysRules[3]
<1>b. PICK b : b = ProcAndDevRules \o SysRules
  OBVIOUS
<1>c. PICK c : c = b \o VideoRules
  OBVIOUS
<1>d. PICK d : d = c \o StorageRules
  OBVIOUS
<1>e. PICK e : e = d \o NodeRules
  OBVIOUS
<1>1. /\ IsList(b) /\ Len(b) = 19 /\ \A i \in 1 .. 16 : b[i] = ProcAndDevRules[i]
      /\ b[17] = SysRules[1] /\ b[18] = SysRules[2] /\ b[19] = SysRules[3]
  <2>1. PICK s : s = ProcAndDevRules
    OBVIOUS
  <2>2. PICK t : t = SysRules
    OBVIOUS
  <2>3. IsList(s) /\ Len(s) = 16 /\ IsList(t) /\ Len(t) = 3
    BY <2>1, <2>2, ProcAndDev, Lists
  <2>4. Joins(s \o t, s, t)
    BY <2>3, JoinSys
  <2>5. b = s \o t
    BY <2>1, <2>2, <1>b
  <2>6. Joins(b, s, t)
    BY <2>4, <2>5
  <2> QED BY <2>1, <2>2, <2>6 DEF Joins
<1>2. IsList(c) /\ Len(c) \in Nat /\ Len(c) >= 19 /\ \A i \in 1 .. 19 : c[i] = b[i]
  <2>1. Len(b) >= 19
    BY <1>1
  <2> QED BY <1>1, <1>c, <2>1, JoinStart, Lists
<1>3. IsList(d) /\ Len(d) \in Nat /\ Len(d) >= 19 /\ \A i \in 1 .. 19 : d[i] = b[i]
  <2>1. IsList(d) /\ Len(d) \in Nat /\ Len(d) >= 19 /\ \A i \in 1 .. 19 : d[i] = c[i]
    BY <1>2, <1>d, JoinStart, Lists
  <2> QED BY <1>2, <2>1
<1>4. IsList(e) /\ Len(e) \in Nat /\ Len(e) >= 19 /\ \A i \in 1 .. 19 : e[i] = b[i]
  <2>1. IsList(e) /\ Len(e) \in Nat /\ Len(e) >= 19 /\ \A i \in 1 .. 19 : e[i] = d[i]
    BY <1>3, <1>e, JoinStart, Lists
  <2> QED BY <1>3, <2>1
<1>5. Rules = e
  BY <1>b, <1>c, <1>d, <1>e DEF Rules
<1>6. DOMAIN e = 1 .. Len(e)
  BY <1>4 DEF IsList
<1>7. Rules[17] = SysRules[1] /\ Rules[18] = SysRules[2] /\ Rules[19] = SysRules[3]
  BY <1>1, <1>4, <1>5
<1>8. \A i \in 1 .. 16 : Outside(Rules[i].from) /\ Rules[i] = ProcAndDevRules[i]
  <2>1. \A i \in 1 .. 16 : i \in 1 .. 19
    OBVIOUS
  <2>2. \A i \in 1 .. 16 : Rules[i] = ProcAndDevRules[i]
    BY <1>1, <1>4, <1>5, <2>1
  <2> QED BY <2>2, ProcAndDev
<1> QED BY <1>4, <1>5, <1>6, <1>7, <1>8

LEMMA FirstMatch ==
  ASSUME NEW p, NEW m \in DOMAIN Rules, Matches(Rules[m], p), Rules[m].how = "keeps",
         \A i \in 1 .. m - 1 : ~ Matches(Rules[i], p)
  PROVE  Redirect(p) = Sandbox \o Rules[m].to \o Rest(Rules[m].from, p)
<1> DEFINE hits == {i \in DOMAIN Rules : Matches(Rules[i], p)}
<1>1. m \in hits /\ hits # {}
  OBVIOUS
<1>2. \A i \in hits : i \in Nat /\ m <= i
  <2>1. \A i \in DOMAIN Rules : i \in 1 .. Len(Rules)
    BY RulesOfSys
  <2>2. ASSUME NEW i \in hits PROVE i \in Nat /\ m <= i
    <3>1. i \in Nat /\ i >= 1 /\ m \in Nat
      BY <2>1
    <3>2. i \notin 1 .. m - 1
      OBVIOUS
    <3> QED BY <3>1, <3>2
  <2> QED BY <2>2
<1>3. Min(hits) = m
  <2>1. \E x \in hits : \A y \in hits : x <= y
    BY <1>1, <1>2
  <2>2. Min(hits) \in hits /\ \A y \in hits : Min(hits) <= y
    BY <2>1 DEF Min
  <2>3. PICK x : x = Min(hits)
    OBVIOUS
  <2>4. x \in Nat /\ m <= x /\ x <= m /\ m \in Nat
    BY <1>1, <1>2, <2>2, <2>3
  <2> QED BY <2>3, <2>4
<1> QED BY <1>1, <1>3 DEF Redirect

LEMMA SysRule ==
  ASSUME NEW from, NEW q, IsList(from), IsList(q), Len(q) >= 1, q[1] \notin Tails,
         NEW m \in DOMAIN Rules, Rules[m] = Keeps(from, from),
         \A i \in 1 .. m - 1 : ~ Matches(Rules[i], from \o q)
  PROVE  Redirect(from \o q) = Sandbox \o (from \o q)
<1>1. /\ IsPrefix(from, from \o q) /\ Rest(from, from \o q) = q
  BY ListTail
<1>2. from # from \o q /\ (from \o q)[Len(from) + 1] = q[1]
  <2> DEFINE p == from \o q
  <2>1. /\ Len(from) \in Nat /\ Len(q) \in Nat /\ Len(p) = Len(from) + Len(q)
        /\ \A i \in 1 .. Len(from) + Len(q) : p[i] = IF i <= Len(from) THEN from[i] ELSE q[i - Len(from)]
    BY ListJoin
  <2> HIDE DEF p
  <2>2. Len(p) # Len(from) /\ p[Len(from) + 1] = q[1]
    BY <2>1
  <2> QED BY <2>2 DEF p
<1>3. Rules[m].how = "keeps" /\ Rules[m].from = from /\ Rules[m].to = from
  BY DEF Keeps
<1>4. Matches(Rules[m], from \o q)
  BY <1>1, <1>2, <1>3 DEF Matches, Inside, IsStrictPrefix
<1>5. Redirect(from \o q) = Sandbox \o from \o q
  <2>1. PICK p : p = from \o q
    OBVIOUS
  <2>2. Matches(Rules[m], p) /\ \A i \in 1 .. m - 1 : ~ Matches(Rules[i], p)
    BY <1>4, <2>1
  <2>3. Redirect(p) = Sandbox \o Rules[m].to \o Rest(Rules[m].from, p)
    BY <1>3, <2>2, FirstMatch
  <2> QED BY <1>1, <1>3, <2>1, <2>3
<1>6. IsList(Sandbox)
  BY ListOf1 DEF Sandbox
<1>7. Sandbox \o from \o q = Sandbox \o (from \o q)
  BY <1>6, ListAssociative
<1> QED BY <1>5, <1>7

LEMMA SysNames ==
  /\ IsList(Power) /\ Len(Power) = 3 /\ Power[1] = "/sys" /\ Power[2] = "/class"
  /\ IsList(Iio) /\ Len(Iio) = 4 /\ Iio[1] = "/sys" /\ Iio[2] = "/bus"
<1>1. IsList(Power) /\ Len(Power) = 3
  BY ListOf3 DEF Power
<1>2. IsList(Iio) /\ Len(Iio) = 4
  BY ListOf4 DEF Iio
<1> QED BY <1>1, <1>2 DEF Power, Iio

LEMMA OutsideStays ==
  ASSUME NEW p, IsList(p), p[1] = "/sys", NEW i \in 1 .. 16
  PROVE  ~ Matches(Rules[i], p)
<1>1. Outside(Rules[i].from)
  BY RulesOfSys
<1> QED BY <1>1, OtherPiece DEF Outside

LEMMA RedirectPower ==
  ASSUME NEW q, IsList(q), Len(q) >= 1, q[1] \notin Tails
  PROVE  Redirect(Power \o q) = Sandbox \o (Power \o q)
<1> DEFINE p == Power \o q
<1>1. IsList(p) /\ p[1] = "/sys"
  BY ListJoin, SysNames
<1> HIDE DEF p
<1>2. \A i \in 1 .. 17 - 1 : ~ Matches(Rules[i], p)
  BY <1>1, OutsideStays
<1>3. 17 \in DOMAIN Rules /\ Rules[17] = Keeps(Power, Power)
  BY RulesOfSys DEF SysRules
<1> QED BY <1>2, <1>3, SysNames, SysRule DEF p

LEMMA RedirectIio ==
  ASSUME NEW q, IsList(q), Len(q) >= 1, q[1] \notin Tails
  PROVE  Redirect(Iio \o q) = Sandbox \o (Iio \o q)
<1> DEFINE p == Iio \o q
<1>1. IsList(p) /\ p[1] = "/sys" /\ p[2] = "/bus"
  <2>1. IsList(p) /\ \A i \in 1 .. Len(Iio) + Len(q) : p[i] = IF i <= Len(Iio) THEN Iio[i] ELSE q[i - Len(Iio)]
    BY ListJoin, SysNames
  <2>2. Len(q) \in Nat
    BY DEF IsList
  <2> HIDE DEF p
  <2> QED BY <2>1, <2>2, SysNames
<1> HIDE DEF p
<1>2. \A i \in 1 .. 16 : ~ Matches(Rules[i], p)
  BY <1>1, OutsideStays
<1>3. ~ Matches(Rules[17], p)
  <2>1. Rules[17].from = Power
    BY RulesOfSys DEF SysRules, Keeps
  <2> QED BY <1>1, <2>1, SysNames, OtherPiece
<1>4. ~ Matches(Rules[18], p)
  <2>1. PICK f : f = <<"/sys", "/devices", "/virtual", "/power_supply">>
    OBVIOUS
  <2>2. IsList(f) /\ Len(f) = 4 /\ f[2] = "/devices"
    BY <2>1, ListOf4
  <2>3. PICK rule : rule = Rules[18]
    OBVIOUS
  <2>4. rule.from = f
    BY <2>1, <2>3, RulesOfSys DEF SysRules, Keeps
  <2>5. 2 \in 1 .. Len(f) /\ f[2] # p[2]
    BY <1>1, <2>2
  <2>6. ~ Matches(rule, p)
    BY <1>1, <2>2, <2>4, <2>5, OtherPiece
  <2> QED BY <2>3, <2>6
<1>5. \A i \in 1 .. 19 - 1 : ~ Matches(Rules[i], p)
  BY <1>2, <1>3, <1>4
<1>6. 19 \in DOMAIN Rules /\ Rules[19] = Keeps(Iio, Iio)
  BY RulesOfSys DEF SysRules
<1> QED BY <1>5, <1>6, SysNames, SysRule DEF p

-----------------------------------------------------------------------------
(* The nodes of the bridges: each is found where it was written, and no two are one. *)

\* The two pieces that come after those of a directory.
Behind(q, base, a, b) ==
  IsList(q) /\ Len(q) = 2 /\ q[1] = a /\ q[2] = b /\ (base \o <<a>>) \o <<b>> = base \o q

LEMMA TwoPieces ==
  ASSUME NEW base, NEW a, NEW b, IsList(base) PROVE \E q : Behind(q, base, a, b)
<1>1. IsList(<<a>>) /\ Len(<<a>>) = 1 /\ <<a>>[1] = a /\ IsList(<<b>>) /\ Len(<<b>>) = 1 /\ <<b>>[1] = b
  BY ListOf1
<1>2. PICK s : s = <<a>>
  OBVIOUS
<1>3. PICK t : t = <<b>>
  OBVIOUS
<1>4. PICK q : q = s \o t
  OBVIOUS
<1>5. IsList(s) /\ Len(s) = 1 /\ s[1] = a /\ IsList(t) /\ Len(t) = 1 /\ t[1] = b
  BY <1>1, <1>2, <1>3
<1>6. /\ IsList(s \o t) /\ Len(s \o t) = Len(s) + Len(t)
      /\ \A i \in 1 .. Len(s) + Len(t) : (s \o t)[i] = IF i <= Len(s) THEN s[i] ELSE t[i - Len(s)]
  BY <1>5, ListJoin
<1>7. IsList(q) /\ Len(q) = 2 /\ q[1] = a /\ q[2] = b
  BY <1>4, <1>5, <1>6
<1>8. (base \o s) \o t = base \o q
  BY <1>4, <1>5, ListAssociative
<1> QED BY <1>2, <1>3, <1>7, <1>8 DEF Behind

LEMMA FileName ==
  ASSUME NEW base, NEW q, IsList(base), IsList(q), Len(base) \in Nat, Len(q) = 2
  PROVE  /\ IsFile(base \o q) /\ HostName(base \o q) = Sandbox \o (base \o q)
         /\ Len(HostName(base \o q)) = Len(base) + 3
         /\ HostName(base \o q)[Len(base) + 2] = q[1] /\ HostName(base \o q)[Len(base) + 3] = q[2]
<1>1. PICK p : p = base \o q
  OBVIOUS
<1>2. /\ IsList(p) /\ Len(p) = Len(base) + 2 /\ p[Len(base) + 1] = q[1] /\ p[Len(base) + 2] = q[2]
  <2>1. /\ IsList(p) /\ Len(p) = Len(base) + Len(q)
        /\ \A i \in 1 .. Len(base) + Len(q) :
             p[i] = IF i <= Len(base) THEN base[i] ELSE q[i - Len(base)]
    BY <1>1, ListJoin
  <2> QED BY <2>1
<1>3. IsFile(p) /\ HostName(p) = Sandbox \o p
  BY <1>2 DEF IsFile, HostName
<1>4. PICK s : s = Sandbox
  OBVIOUS
<1>5. IsList(s) /\ Len(s) = 1
  BY <1>4, ListOf1 DEF Sandbox
<1>6. PICK r : r = s \o p
  OBVIOUS
<1>7. /\ Len(r) = Len(s) + Len(p)
      /\ \A i \in 1 .. Len(s) + Len(p) : r[i] = IF i <= Len(s) THEN s[i] ELSE p[i - Len(s)]
  BY <1>2, <1>5, <1>6, ListJoin
<1>8. Len(r) = Len(base) + 3 /\ r[Len(base) + 2] = p[Len(base) + 1] /\ r[Len(base) + 3] = p[Len(base) + 2]
  BY <1>2, <1>5, <1>7
<1> QED BY <1>1, <1>2, <1>3, <1>4, <1>6, <1>8

\* A file of the bridges: found where it was written, and known by its last two pieces.
FileAt(node, n, a, b) ==
  /\ Found(node) = HostName(node)
  /\ Len(HostName(node)) = n + 3 /\ HostName(node)[n + 2] = a /\ HostName(node)[n + 3] = b

LEMMA PowerFile ==
  ASSUME NEW q, IsList(q), Len(q) = 2, q[1] \notin Tails PROVE FileAt(Power \o q, 3, q[1], q[2])
<1>f. /\ IsFile(Power \o q) /\ HostName(Power \o q) = Sandbox \o (Power \o q)
      /\ Len(HostName(Power \o q)) = Len(Power) + 3
      /\ HostName(Power \o q)[Len(Power) + 2] = q[1] /\ HostName(Power \o q)[Len(Power) + 3] = q[2]
  <2>1. IsList(Power) /\ Len(Power) \in Nat
    BY SysNames
  <2> QED BY <2>1, FileName
<1>l. Len(Power) = 3
  BY SysNames
<1>1. /\ IsFile(Power \o q) /\ HostName(Power \o q) = Sandbox \o (Power \o q)
      /\ Len(HostName(Power \o q)) = 3 + 3
      /\ HostName(Power \o q)[3 + 2] = q[1] /\ HostName(Power \o q)[3 + 3] = q[2]
  BY <1>f, <1>l
<1>2. Redirect(Power \o q) = Sandbox \o (Power \o q)
  <2>1. Len(q) >= 1
    OBVIOUS
  <2> QED BY <2>1, RedirectPower
<1> QED BY <1>1, <1>2 DEF FileAt, Found

LEMMA IioFile ==
  ASSUME NEW q, IsList(q), Len(q) = 2, q[1] \notin Tails PROVE FileAt(Iio \o q, 4, q[1], q[2])
<1>f. /\ IsFile(Iio \o q) /\ HostName(Iio \o q) = Sandbox \o (Iio \o q)
      /\ Len(HostName(Iio \o q)) = Len(Iio) + 3
      /\ HostName(Iio \o q)[Len(Iio) + 2] = q[1] /\ HostName(Iio \o q)[Len(Iio) + 3] = q[2]
  <2>1. IsList(Iio) /\ Len(Iio) \in Nat
    BY SysNames
  <2> QED BY <2>1, FileName
<1>l. Len(Iio) = 4
  BY SysNames
<1>1. /\ IsFile(Iio \o q) /\ HostName(Iio \o q) = Sandbox \o (Iio \o q)
      /\ Len(HostName(Iio \o q)) = 4 + 3
      /\ HostName(Iio \o q)[4 + 2] = q[1] /\ HostName(Iio \o q)[4 + 3] = q[2]
  BY <1>f, <1>l
<1>2. Redirect(Iio \o q) = Sandbox \o (Iio \o q)
  <2>1. Len(q) >= 1
    OBVIOUS
  <2> QED BY <2>1, RedirectIio
<1> QED BY <1>1, <1>2 DEF FileAt, Found

\* A list of nodes that has been written down name by name.
Numbered(labels, n) == DOMAIN labels = 1 .. n
ListsAll(s, n, labels, fields) ==
  /\ IsList(s) /\ Len(s) = n
  /\ \A i \in 1 .. n : s[i] = [node |-> labels[i], shows |-> fields[i]]

LEMMA ListedType ==
  ASSUME NEW n \in Nat, NEW labels, NEW fields, Numbered(labels, n)
  PROVE  ListsAll(Listed(labels, fields), n, labels, fields)
<1> DEFINE s == Listed(labels, fields)
<1>1. /\ s = [i \in 1 .. n |-> s[i]]
      /\ \A i \in 1 .. n : s[i] = [node |-> labels[i], shows |-> fields[i]]
  BY DEF Listed, Numbered
<1> HIDE DEF s
<1>2. Len(s) = n /\ IsList(s)
  BY <1>1, ListOfFunction
<1>3. ListsAll(s, n, labels, fields)
  BY <1>1, <1>2 DEF ListsAll
<1> QED BY <1>3 DEF s

\* The nodes, one by one.
LEMMA NodeTable ==
  /\ \A h \in Hals : IsList(NodesOf[h])
  /\ Len(NodesOf["battery"]) = 4 /\ Len(NodesOf["sensors"]) = 2
  /\ \A h \in Hals : \A i \in 1 .. Len(NodesOf[h]) : NodesOf[h][i].shows \subseteq Fields[h]
  /\ FileAt(NodesOf["battery"][1].node, 3, "/battery", "/capacity")
  /\ FileAt(NodesOf["battery"][2].node, 3, "/battery", "/uevent")
  /\ FileAt(NodesOf["battery"][3].node, 3, "/ac", "/online")
  /\ NodesOf["battery"][4].node = <<"persist.sys.battery.level">>
  /\ FileAt(NodesOf["sensors"][1].node, 4, "/iio:device0", "/in_accel_x_raw")
  /\ FileAt(NodesOf["sensors"][2].node, 4, "/iio:device0", "/in_proximity_input")
<1>1. \A b : FileAt(Battery \o <<b>>, 3, "/battery", b)
  <2> TAKE b
  <2>1. PICK q : Behind(q, Power, "/battery", b)
    BY SysNames, TwoPieces
  <2> QED BY <2>1, PowerFile, PowerAssumption DEF Behind, Battery
<1>2. \A b : FileAt(Device0 \o <<b>>, 4, "/iio:device0", b)
  <2> TAKE b
  <2>1. PICK q : Behind(q, Iio, "/iio:device0", b)
    BY SysNames, TwoPieces
  <2> QED BY <2>1, IioFile, PowerAssumption DEF Behind, Device0
<1>3. FileAt(Power \o <<"/ac", "/online">>, 3, "/ac", "/online")
  <2>1. PICK q : q = <<"/ac", "/online">>
    OBVIOUS
  <2>2. IsList(q) /\ Len(q) = 2 /\ q[1] = "/ac" /\ q[2] = "/online"
    BY <2>1, ListOf2
  <2> QED BY <2>1, <2>2, PowerFile, PowerAssumption
<1>4. PICK labels : labels = <<Battery \o <<"/capacity">>, Battery \o <<"/uevent">>,
                             Power \o <<"/ac", "/online">>, <<"persist.sys.battery.level">>>>
  OBVIOUS
<1>5. PICK fields : fields = <<{"capacity"}, {"capacity", "temp"}, {"ac"}, {"capacity"}>>
  OBVIOUS
<1>6. Numbered(labels, 4) /\ NodesOf["battery"] = Listed(labels, fields)
  BY <1>4, <1>5 DEF NodesOf, Numbered
<1>7. PICK places : places = <<Device0 \o <<"/in_accel_x_raw">>, Device0 \o <<"/in_proximity_input">>>>
  OBVIOUS
<1>8. PICK values : values = <<{"accel"}, {"proximity"}>>
  OBVIOUS
<1>9. Numbered(places, 2) /\ NodesOf["sensors"] = Listed(places, values)
  BY <1>7, <1>8 DEF NodesOf, Numbered
<1>10. /\ IsList(NodesOf["battery"]) /\ Len(NodesOf["battery"]) = 4
       /\ \A i \in 1 .. 4 : NodesOf["battery"][i] = [node |-> labels[i], shows |-> fields[i]]
  <2>1. ListsAll(NodesOf["battery"], 4, labels, fields)
    BY <1>6, ListedType
  <2> QED BY <2>1 DEF ListsAll
<1>11. /\ IsList(NodesOf["sensors"]) /\ Len(NodesOf["sensors"]) = 2
       /\ \A i \in 1 .. 2 : NodesOf["sensors"][i] = [node |-> places[i], shows |-> values[i]]
  <2>1. ListsAll(NodesOf["sensors"], 2, places, values)
    BY <1>9, ListedType
  <2> QED BY <2>1 DEF ListsAll
<1>12. \A h \in Hals : IsList(NodesOf[h])
  BY <1>10, <1>11 DEF Hals
<1>13. /\ NodesOf["battery"][1].node = Battery \o <<"/capacity">>
       /\ NodesOf["battery"][2].node = Battery \o <<"/uevent">>
       /\ NodesOf["battery"][3].node = Power \o <<"/ac", "/online">>
       /\ NodesOf["battery"][4].node = <<"persist.sys.battery.level">>
       /\ NodesOf["sensors"][1].node = Device0 \o <<"/in_accel_x_raw">>
       /\ NodesOf["sensors"][2].node = Device0 \o <<"/in_proximity_input">>
  <2>1. /\ NodesOf["battery"][1].node = labels[1] /\ NodesOf["battery"][2].node = labels[2]
        /\ NodesOf["battery"][3].node = labels[3] /\ NodesOf["battery"][4].node = labels[4]
        /\ NodesOf["sensors"][1].node = places[1] /\ NodesOf["sensors"][2].node = places[2]
    BY <1>10, <1>11
  <2>2. /\ labels[1] = Battery \o <<"/capacity">> /\ labels[2] = Battery \o <<"/uevent">>
        /\ labels[3] = Power \o <<"/ac", "/online">> /\ labels[4] = <<"persist.sys.battery.level">>
    BY <1>4
  <2>3. places[1] = Device0 \o <<"/in_accel_x_raw">> /\ places[2] = Device0 \o <<"/in_proximity_input">>
    BY <1>7
  <2> QED BY <2>1, <2>2, <2>3
<1>14. \A h \in Hals : \A i \in 1 .. Len(NodesOf[h]) : NodesOf[h][i].shows \subseteq Fields[h]
  <2>1. \A i \in 1 .. 4 : NodesOf["battery"][i].shows \subseteq Fields["battery"]
    BY <1>5, <1>10 DEF Fields
  <2>2. \A i \in 1 .. 2 : NodesOf["sensors"][i].shows \subseteq Fields["sensors"]
    BY <1>8, <1>11 DEF Fields
  <2> QED BY <1>10, <1>11, <2>1, <2>2 DEF Hals
<1> QED BY <1>1, <1>2, <1>3, <1>10, <1>11, <1>12, <1>13, <1>14

LEMMA NodesApart ==
  ASSUME NEW h \in Hals, NEW g \in Hals,
         NEW i \in 1 .. Len(NodesOf[h]), NEW j \in 1 .. Len(NodesOf[g]),
         HostName(NodesOf[h][i].node) = HostName(NodesOf[g][j].node)
  PROVE  h = g /\ i = j
<1> DEFINE at(x, n) == HostName(NodesOf[x][n].node)
<1>1. PICK a : a = at("battery", 1)
  OBVIOUS
<1>2. PICK b : b = at("battery", 2)
  OBVIOUS
<1>3. PICK c : c = at("battery", 3)
  OBVIOUS
<1>4. PICK d : d = at("battery", 4)
  OBVIOUS
<1>5. PICK e : e = at("sensors", 1)
  OBVIOUS
<1>6. PICK f : f = at("sensors", 2)
  OBVIOUS
<1>7. /\ Len(a) = 6 /\ a[5] = "/battery" /\ a[6] = "/capacity"
      /\ Len(b) = 6 /\ b[5] = "/battery" /\ b[6] = "/uevent"
      /\ Len(c) = 6 /\ c[5] = "/ac" /\ c[6] = "/online"
  BY <1>1, <1>2, <1>3, NodeTable DEF FileAt
<1>8. /\ Len(e) = 7 /\ e[7] = "/in_accel_x_raw" /\ Len(f) = 7 /\ f[7] = "/in_proximity_input"
  BY <1>5, <1>6, NodeTable DEF FileAt
<1>9. Len(d) = 1
  BY <1>4, NodeTable, ListOf1 DEF HostName, IsFile
<1>10. /\ a # b /\ a # c /\ a # d /\ a # e /\ a # f /\ b # c /\ b # d /\ b # e /\ b # f
       /\ c # d /\ c # e /\ c # f /\ d # e /\ d # f /\ e # f
  <2>1. a # b /\ a # c /\ b # c
    BY <1>7
  <2>2. a # d /\ b # d /\ c # d /\ d # e /\ d # f
    <3>1. \A s : s = d => Len(s) = 1
      BY <1>9
    <3>2. Len(a) # 1 /\ Len(b) # 1 /\ Len(c) # 1 /\ Len(e) # 1 /\ Len(f) # 1
      BY <1>7, <1>8
    <3> QED BY <3>1, <3>2, Zenon
  <2>3. a # e /\ a # f /\ b # e /\ b # f /\ c # e /\ c # f
    BY <1>7, <1>8
  <2>4. e # f
    BY <1>8
  <2> QED BY <2>1, <2>2, <2>3, <2>4
<1>11. (h = "battery" /\ i \in 1 .. 4) \/ (h = "sensors" /\ i \in 1 .. 2)
  BY NodeTable DEF Hals
<1>12. (g = "battery" /\ j \in 1 .. 4) \/ (g = "sensors" /\ j \in 1 .. 2)
  BY NodeTable DEF Hals
<1>13. at(h, i) = at(g, j)
  OBVIOUS
<1> HIDE DEF at
<1> QED BY <1>1, <1>2, <1>3, <1>4, <1>5, <1>6, <1>10, <1>11, <1>12, <1>13

\* Where the nodes are, and what is found there.
LEMMA NodePlaces ==
  ASSUME NEW h \in Hals
  PROVE  /\ DOMAIN NodesOf[h] = 1 .. Len(NodesOf[h]) /\ Len(NodesOf[h]) \in Nat
         /\ \A i \in 1 .. Len(NodesOf[h]) :
              /\ NodesOf[h][i].node \in AllNodes
              /\ HostName(NodesOf[h][i].node) \in {HostName(n) : n \in AllNodes}
              /\ Found(NodesOf[h][i].node) = HostName(NodesOf[h][i].node)
              /\ NodesOf[h][i].shows \subseteq Fields[h]
<1>1. DOMAIN NodesOf[h] = 1 .. Len(NodesOf[h]) /\ Len(NodesOf[h]) \in Nat
  BY NodeTable DEF IsList
<1>2. ASSUME NEW i \in 1 .. Len(NodesOf[h])
      PROVE  NodesOf[h][i].node \in AllNodes
  BY <1>1 DEF AllNodes
<1>3. ASSUME NEW i \in 1 .. Len(NodesOf[h])
      PROVE  Found(NodesOf[h][i].node) = HostName(NodesOf[h][i].node)
  <2>1. (h = "battery" /\ i \in 1 .. 4) \/ (h = "sensors" /\ i \in 1 .. 2)
    BY NodeTable DEF Hals
  <2>2. CASE h = "battery" /\ i = 4
    <3>1. Len(NodesOf[h][i].node) = 1
      BY <2>2, NodeTable, ListOf1
    <3> QED BY <3>1 DEF Found, HostName, IsFile
  <2>3. CASE h = "battery" /\ i = 1
    BY <2>3, NodeTable DEF FileAt
  <2>4. CASE h = "battery" /\ i = 2
    BY <2>4, NodeTable DEF FileAt
  <2>5. CASE h = "battery" /\ i = 3
    BY <2>5, NodeTable DEF FileAt
  <2>6. CASE h = "sensors" /\ i = 1
    BY <2>6, NodeTable DEF FileAt
  <2>7. CASE h = "sensors" /\ i = 2
    BY <2>7, NodeTable DEF FileAt
  <2> QED BY <2>1, <2>2, <2>3, <2>4, <2>5, <2>6, <2>7
<1> QED BY <1>1, <1>2, <1>3, NodeTable

LEMMA SyncedShows ==
  ASSUME NEW data, NEW h \in Hals, NEW i \in 1 .. Len(NodesOf[h])
  PROVE  Synced(data)[HostName(NodesOf[h][i].node)] = Told(NodesOf[h][i].shows, data[h])
<1> DEFINE n == HostName(NodesOf[h][i].node)
           x == CHOOSE x \in Hals : \E k \in DOMAIN NodesOf[x] : HostName(NodesOf[x][k].node) = n
           j == CHOOSE j \in DOMAIN NodesOf[x] : HostName(NodesOf[x][j].node) = n
<1>1. \E y \in Hals : \E k \in DOMAIN NodesOf[y] : HostName(NodesOf[y][k].node) = n
  BY NodePlaces
<1>2. x \in Hals /\ \E k \in DOMAIN NodesOf[x] : HostName(NodesOf[x][k].node) = n
  BY <1>1
<1>3. j \in DOMAIN NodesOf[x] /\ HostName(NodesOf[x][j].node) = n
  BY <1>2
<1>4. x = h /\ j = i
  <2>1. DOMAIN NodesOf[x] = 1 .. Len(NodesOf[x])
    BY <1>2, NodePlaces
  <2> HIDE DEF x, j
  <2>2. j \in 1 .. Len(NodesOf[x]) /\ HostName(NodesOf[x][j].node) = HostName(NodesOf[h][i].node)
    BY <1>3, <2>1
  <2> QED BY <1>2, <2>2, NodesApart
<1>5. n \in {HostName(m) : m \in AllNodes}
  BY NodePlaces
<1>6. Synced(data)[n] = Told(NodesOf[x][j].shows, data[x])
  BY <1>5 DEF Synced
<1> QED BY <1>4, <1>6

-----------------------------------------------------------------------------
(* The bridges and their callers.  A call that is being executed has some of the nodes of   *)
(* its bridge left to write.                                                                *)

PowerNext == UiBegins \/ LiveBoots \/ Settles \/ \E c \in HalCallers : PowerStep(c)

HalCall(h) == [hal : {h}, op : {"initialize", "update"}, data : [Fields[h] -> Int],
               left : {Left(NodesOf[h], k) : k \in 0 .. Len(NodesOf[h])}]
HalCalls   == UNION {HalCall(h) : h \in Hals}

\* A caller that has a bridge is executing a call of it; the UI's updates carry what it keeps.
QueueInv ==
  /\ todo \in [HalCallers -> Seq(HalCalls)]
  /\ \A h \in Hals : \A c, d \in owner[h] : c = d
  /\ \A h \in Hals : \A c \in owner[h] : todo[c] # <<>> /\ todo[c][1].hal = h /\ mInitialized[h]
  /\ \A i \in DOMAIN todo["ui"] :
       todo["ui"][i].op = "update" => todo["ui"][i].data = current[todo["ui"][i].hal]
  /\ \A i \in DOMAIN todo["live"] : todo["live"][i].op = "initialize"

\* A node of a bridge that is initialised shows its data, or is yet to be written.
NodesInv ==
  \A h \in Hals : mInitialized[h] => \A i \in 1 .. Len(NodesOf[h]) :
    \/ NodesOf[h][i].node \in lost
    \/ content[HostName(NodesOf[h][i].node)] = Told(NodesOf[h][i].shows, mInfo[h])
    \/ \E c \in owner[h] : i > Len(NodesOf[h]) - Len(todo[c][1].left)

Agree(h) == \A f \in Fields[h] : (f = "temp" /\ current[h][f] <= 0) \/ mInfo[h][f] = current[h][f]

\* An update of the UI has not begun.
Pending(h) == \E i \in DOMAIN todo["ui"] :
  /\ todo["ui"][i].hal = h /\ todo["ui"][i].op = "update"
  /\ ~ (i = 1 /\ "ui" \in owner[h])

MergedInv == \A h \in Hals : mInitialized[h] /\ ~ reset[h] => Agree(h) \/ Pending(h)

LEMMA LeftNodes ==
  ASSUME NEW h \in Hals
  PROVE  /\ Len(NodesOf[h]) \in Nat
         /\ Left(NodesOf[h], 0) = NodesOf[h]
         /\ Left(NodesOf[h], Len(NodesOf[h])) = <<>>
         /\ \A k \in 0 .. Len(NodesOf[h]) :
              /\ Len(Left(NodesOf[h], k)) = Len(NodesOf[h]) - k
              /\ Left(NodesOf[h], k) # <<>> =>
                   /\ k + 1 \in 1 .. Len(NodesOf[h])
                   /\ Head(Left(NodesOf[h], k)) = NodesOf[h][k + 1]
                   /\ Tail(Left(NodesOf[h], k)) = Left(NodesOf[h], k + 1)
<1> DEFINE s == NodesOf[h]
           S == {s[i] : i \in DOMAIN s}
<1>1. s \in Seq(S)
  BY NodeTable DEF IsList
<1> HIDE DEF s, S
<1>2. Len(s) \in Nat
  BY <1>1
<1>3. Left(s, 0) = s
  BY <1>1, LeftAll
<1>4. Left(s, Len(s)) = <<>>
  <2>1. Left(s, Len(s)) \in Seq(S) /\ Len(Left(s, Len(s))) = Len(s) - Len(s)
    BY <1>1, <1>2, LeftType
  <2> QED BY <1>2, <2>1
<1>5. ASSUME NEW k \in 0 .. Len(s)
      PROVE  /\ Len(Left(s, k)) = Len(s) - k
             /\ Left(s, k) # <<>> => /\ k + 1 \in 1 .. Len(s)
                                     /\ Head(Left(s, k)) = s[k + 1]
                                     /\ Tail(Left(s, k)) = Left(s, k + 1)
  BY <1>1, LeftType, LeftTail
<1> QED BY <1>2, <1>3, <1>4, <1>5 DEF s

LEMMA CallOf ==
  ASSUME NEW k \in HalCalls
  PROVE  /\ k.hal \in Hals /\ k \in HalCall(k.hal)
         /\ k.op \in {"initialize", "update"} /\ k.data \in [Fields[k.hal] -> Int]
         /\ \E n \in 0 .. Len(NodesOf[k.hal]) : k.left = Left(NodesOf[k.hal], n)
<1>1. PICK h \in Hals : k \in HalCall(h)
  BY DEF HalCalls
<1>2. k.hal = h
  BY <1>1 DEF HalCall
<1> QED BY <1>1, <1>2 DEF HalCall

LEMMA NewCalls ==
  ASSUME NEW h \in Hals
  PROVE  /\ Initialize(h) \in HalCalls
         /\ \A r \in [Fields[h] -> Int] : Update(h, r) \in HalCalls
<1>1. Factory[h] \in [Fields[h] -> Int]
  BY PowerAssumption
<1>2. <<>> \in {Left(NodesOf[h], k) : k \in 0 .. Len(NodesOf[h])}
  BY LeftNodes
<1>3. Initialize(h) \in HalCall(h) /\ \A r \in [Fields[h] -> Int] : Update(h, r) \in HalCall(h)
  BY <1>1, <1>2 DEF Initialize, Update, HalCall
<1> QED BY <1>3 DEF HalCalls

LEMMA FirstCall ==
  ASSUME QueueInv, NEW c \in HalCallers, todo[c] # <<>>
  PROVE  /\ todo[c] \in Seq(HalCalls) /\ Len(todo[c]) \in Nat /\ Len(todo[c]) >= 1
         /\ DOMAIN todo[c] = 1 .. Len(todo[c])
         /\ Head(todo[c]) = todo[c][1] /\ todo[c][1] \in HalCalls /\ todo[c][1].hal \in Hals
<1>1. todo[c] \in Seq(HalCalls)
  BY DEF QueueInv
<1>2. /\ Len(todo[c]) \in Nat /\ Len(todo[c]) >= 1 /\ DOMAIN todo[c] = 1 .. Len(todo[c])
      /\ Head(todo[c]) = todo[c][1] /\ todo[c][1] \in HalCalls
  BY <1>1
<1> QED BY <1>1, <1>2, CallOf

\* The nodes a call has left are set, and nothing else.
WithLeft(q, left) == [q EXCEPT ![1].left = left]
LeftOf(h, left)   == \E k \in 0 .. Len(NodesOf[h]) : left = Left(NodesOf[h], k)

LEMMA SetsLeft ==
  ASSUME NEW q \in Seq(HalCalls), q # <<>>, NEW left, LeftOf(q[1].hal, left),
         NEW r, r = WithLeft(q, left)
  PROVE  /\ r \in Seq(HalCalls) /\ Len(r) = Len(q) /\ r # <<>> /\ DOMAIN r = DOMAIN q
         /\ r[1].left = left
         /\ \A i \in DOMAIN q : r[i].hal = q[i].hal /\ r[i].op = q[i].op /\ r[i].data = q[i].data
<1>1. Len(q) \in Nat /\ Len(q) >= 1 /\ DOMAIN q = 1 .. Len(q) /\ \A i \in 1 .. Len(q) : q[i] \in HalCalls
  OBVIOUS
<1>2. DOMAIN r = 1 .. Len(q) /\ r[1] = [q[1] EXCEPT !.left = left]
      /\ \A i \in 1 .. Len(q) : i # 1 => r[i] = q[i]
  BY <1>1 DEF WithLeft
<1>3. PICK h \in Hals : q[1] \in HalCall(h) /\ q[1].hal = h
  BY <1>1, CallOf
<1>4. /\ r[1] \in HalCall(h) /\ r[1].left = left
      /\ r[1].hal = q[1].hal /\ r[1].op = q[1].op /\ r[1].data = q[1].data
  <2>1. PICK k : k = q[1]
    OBVIOUS
  <2>2. PICK m : m = [k EXCEPT !.left = left]
    OBVIOUS
  <2>3. k \in HalCall(h) /\ left \in {Left(NodesOf[h], n) : n \in 0 .. Len(NodesOf[h])}
    BY <1>3, <2>1 DEF LeftOf
  <2>4. m \in HalCall(h) /\ m.left = left /\ m.hal = k.hal /\ m.op = k.op /\ m.data = k.data
    BY <2>2, <2>3 DEF HalCall
  <2> QED BY <1>2, <2>1, <2>2, <2>4
<1>5. \A i \in 1 .. Len(q) : r[i] \in HalCalls
  BY <1>1, <1>2, <1>4 DEF HalCalls
<1>6. r = [i \in 1 .. Len(q) |-> r[i]]
  BY <1>1 DEF WithLeft
<1>7. r \in [1 .. Len(q) -> HalCalls]
  BY <1>5, <1>6
<1>8. r \in Seq(HalCalls) /\ Len(r) = Len(q)
  <2>1. r \in Seq(HalCalls)
    BY <1>1, <1>7, SeqDef
  <2> QED BY <1>1, <1>2, <2>1, LenProperties
<1>9. r # <<>>
  BY <1>1, <1>8
<1>10. \A i \in DOMAIN q : r[i].hal = q[i].hal /\ r[i].op = q[i].op /\ r[i].data = q[i].data
  BY <1>1, <1>2, <1>4
<1> QED BY <1>1, <1>2, <1>4, <1>8, <1>9, <1>10

LEMMA TailCalls ==
  ASSUME NEW q \in Seq(HalCalls), q # <<>>
  PROVE  /\ Tail(q) \in Seq(HalCalls) /\ Len(q) \in Nat /\ DOMAIN q = 1 .. Len(q)
         /\ DOMAIN Tail(q) = 1 .. Len(q) - 1
         /\ \A i \in 1 .. Len(q) - 1 : Tail(q)[i] = q[i + 1]
  OBVIOUS

\* The calls q are handed to the bridges: an update of all that changes in what the UI keeps.
Hands(q) ==
  /\ todo' = [todo EXCEPT !["ui"] = q]
  /\ q \in Seq(HalCalls)
  /\ \A i \in DOMAIN q : q[i].op = "update" => q[i].data = current'[q[i].hal]
  /\ DOMAIN current' = Hals
  /\ \A h \in Hals : /\ current'[h] \in [Fields[h] -> Int]
                     /\ \/ current'[h] = current[h]
                        \/ \E i \in DOMAIN q : q[i].hal = h /\ q[i].op = "update"

\* What a handler of the UI comes to: it begins when the handlers before it are done.
UiActs(q) ==
  /\ todo["ui"] = <<>> /\ UNCHANGED <<bridgeNow, content, owner, lost, resets>>
  /\ Hands(q)
  /\ isAutoSync' \in [Hals -> BOOLEAN] /\ listening' \in [Hals -> BOOLEAN]
  /\ settling' \in Nat /\ updates' \in 0 .. MaxUpdates

LEMMA ReadingsType ==
  ASSUME NEW h \in Hals, NEW r \in Readings[h] PROVE r \in [Fields[h] -> Int]
  BY PowerAssumption

\* A reading that is kept and handed over.
LEMMA KeepsOne ==
  ASSUME PowerTypeOK, NEW h \in Hals, NEW r \in [Fields[h] -> Int], KeepsReading(h, r)
  PROVE  \E q : Hands(q)
<1> DEFINE q == <<Update(h, r)>>
<1>1. Update(h, r) \in HalCalls /\ Update(h, r).hal = h /\ Update(h, r).op = "update"
      /\ Update(h, r).data = r
  BY NewCalls DEF Update
<1>2. q \in Seq(HalCalls) /\ DOMAIN q = {1} /\ q[1] = Update(h, r)
  BY <1>1
<1> HIDE DEF q
<1>3. todo' = [todo EXCEPT !["ui"] = q] /\ current' = [current EXCEPT ![h] = r]
  BY DEF KeepsReading, q
<1>4. DOMAIN current' = Hals /\ current'[h] = r /\ \A g \in Hals : g # h => current'[g] = current[g]
  BY <1>3 DEF PowerTypeOK
<1>5. \A g \in Hals : current'[g] \in [Fields[g] -> Int]
  BY <1>4 DEF PowerTypeOK
<1>6. \A i \in DOMAIN q : q[i].op = "update" => q[i].data = current'[q[i].hal]
  BY <1>1, <1>2, <1>4
<1>7. \A g \in Hals : \/ current'[g] = current[g]
                      \/ \E i \in DOMAIN q : q[i].hal = g /\ q[i].op = "update"
  BY <1>1, <1>2, <1>4
<1>8. Hands(q)
  BY <1>2, <1>3, <1>4, <1>5, <1>6, <1>7 DEF Hands
<1> QED BY <1>8

\* Nothing that is kept changes.
LEMMA KeepsNone ==
  ASSUME PowerTypeOK, QueueInv, todo["ui"] = <<>>, UNCHANGED <<current, todo>>
  PROVE  \E q : Hands(q)
<1>q. PICK q : q = <<>>
  OBVIOUS
<1>0. q \in Seq(HalCalls) /\ DOMAIN q = {}
  BY <1>q
<1>1. todo' = [todo EXCEPT !["ui"] = q]
  BY <1>q DEF QueueInv, HalCallers
<1>2. DOMAIN current' = Hals
      /\ \A g \in Hals : current'[g] \in [Fields[g] -> Int] /\ current'[g] = current[g]
  BY DEF PowerTypeOK
<1>3. Hands(q)
  BY <1>0, <1>1, <1>2 DEF Hands
<1> QED BY <1>3

LEMMA PretendsType ==
  ASSUME PowerTypeOK, NEW r \in Readings["sensors"], NEW f \in Fields["sensors"]
  PROVE  [current["sensors"] EXCEPT ![f] = r[f]] \in [Fields["sensors"] -> Int]
<1>1. r \in [Fields["sensors"] -> Int] /\ current["sensors"] \in [Fields["sensors"] -> Int]
  BY ReadingsType DEF PowerTypeOK, Hals
<1> QED BY <1>1

LEMMA UiActsSomehow ==
  ASSUME PowerTypeOK, QueueInv, UiBegins \/ Settles
  PROVE  \E q : UiActs(q)
<1>h. "battery" \in Hals /\ "sensors" \in Hals /\ "accel" \in Fields["sensors"]
      /\ "proximity" \in Fields["sensors"]
  BY DEF Hals, Fields
<1>u. Handles => todo["ui"] = <<>> /\ updates' \in 0 .. MaxUpdates
  BY PowerAssumption DEF Handles, PowerTypeOK
<1>t. /\ isAutoSync \in [Hals -> BOOLEAN] /\ listening \in [Hals -> BOOLEAN] /\ settling \in Nat
      /\ updates \in 0 .. MaxUpdates
  BY DEF PowerTypeOK
<1>1. ASSUME NEW h \in Hals, HostMeasures(h) PROVE \E q : UiActs(q)
  <2>1. PICK r \in Readings[h] : KeepsReading(h, r)
    BY <1>1 DEF HostMeasures
  <2>2. PICK q : Hands(q)
    BY <2>1, KeepsOne, ReadingsType
  <2> QED BY <1>1, <1>u, <1>t, <2>2 DEF HostMeasures, UiActs
<1>2. ASSUME NEW h \in Hals, Pretends(h) PROVE \E q : UiActs(q)
  <2>1. PICK r \in Readings[h] :
          KeepsReading(h, IF h = "battery" THEN r ELSE [current[h] EXCEPT !["accel"] = r["accel"]])
    BY <1>2 DEF Pretends
  <2>2. PICK d : d = IF h = "battery" THEN r ELSE [current[h] EXCEPT !["accel"] = r["accel"]]
    OBVIOUS
  <2>3. d \in [Fields[h] -> Int]
    BY <1>h, <2>2, ReadingsType, PretendsType DEF Hals
  <2>4. KeepsReading(h, d)
    BY <2>1, <2>2
  <2>5. PICK q : Hands(q)
    BY <2>3, <2>4, KeepsOne
  <2>6. isAutoSync' \in [Hals -> BOOLEAN]
    BY <1>2, <1>t DEF Pretends
  <2> QED BY <1>2, <1>u, <1>t, <2>5, <2>6 DEF Pretends, UiActs
<1>3. CASE PretendsNear
  <2>1. PICK r \in Readings["sensors"] :
          KeepsReading("sensors", [current["sensors"] EXCEPT !["proximity"] = r["proximity"]])
    BY <1>3 DEF PretendsNear
  <2>2. PICK d : d = [current["sensors"] EXCEPT !["proximity"] = r["proximity"]]
    OBVIOUS
  <2>3. d \in [Fields["sensors"] -> Int] /\ KeepsReading("sensors", d)
    BY <1>h, <2>1, <2>2, PretendsType
  <2>4. PICK q : Hands(q)
    BY <1>h, <2>3, KeepsOne
  <2> QED BY <1>3, <1>u, <1>t, <2>4 DEF PretendsNear, UiActs
<1>4. CASE Shakes
  <2>1. PICK d : d = [current["sensors"] EXCEPT !["accel"] = Jolt]
    OBVIOUS
  <2>2. d \in [Fields["sensors"] -> Int] /\ KeepsReading("sensors", d)
    <3>1. current["sensors"] \in [Fields["sensors"] -> Int]
      BY <1>h DEF PowerTypeOK
    <3>2. KeepsReading("sensors", d)
      BY <1>4, <2>1 DEF Shakes
    <3> QED BY <1>h, <2>1, <3>1, <3>2 DEF Jolt
  <2>3. settling' \in Nat /\ isAutoSync' \in [Hals -> BOOLEAN]
    <3>1. settling' = settling + 1 /\ isAutoSync' = [isAutoSync EXCEPT !["sensors"] = FALSE]
      BY <1>4 DEF Shakes
    <3>2. settling' \in Nat
      BY <1>t, <3>1
    <3> QED BY <1>t, <3>1, <3>2
  <2>4. PICK q : Hands(q)
    BY <1>h, <2>2, KeepsOne
  <2> QED BY <1>4, <1>u, <1>t, <2>3, <2>4 DEF Shakes, UiActs
<1>5. CASE Settles
  <2>1. PICK d : d = [current["sensors"] EXCEPT !["accel"] = 0]
    OBVIOUS
  <2>2. d \in [Fields["sensors"] -> Int] /\ KeepsReading("sensors", d)
    <3>1. current["sensors"] \in [Fields["sensors"] -> Int]
      BY <1>h DEF PowerTypeOK
    <3>2. KeepsReading("sensors", d)
      BY <1>5, <2>1 DEF Settles
    <3> QED BY <1>h, <2>1, <3>1, <3>2
  <2>3. settling' \in Nat /\ isAutoSync' \in [Hals -> BOOLEAN] /\ updates' \in 0 .. MaxUpdates
    <3>1. /\ settling > 0 /\ settling' = settling - 1
          /\ isAutoSync' = [isAutoSync EXCEPT !["sensors"] = FALSE] /\ updates' = updates
      BY <1>5 DEF Settles
    <3>2. settling' \in Nat
      BY <1>t, <3>1
    <3>3. isAutoSync' \in [Hals -> BOOLEAN]
      BY <1>t, <3>1
    <3> QED BY <1>t, <3>1, <3>2, <3>3
  <2>4. PICK q : Hands(q)
    BY <1>h, <2>2, KeepsOne
  <2> QED BY <1>5, <1>t, <2>3, <2>4 DEF Settles, UiActs
<1>6. ASSUME NEW h \in Hals, Follows(h) PROVE \E q : UiActs(q)
  <2>1. CASE h = "battery"
    <3>1. PICK r \in Readings[h] : KeepsReading(h, r)
      BY <1>6, <2>1 DEF Follows
    <3>2. PICK q : Hands(q)
      BY <3>1, KeepsOne, ReadingsType
    <3>3. isAutoSync' \in [Hals -> BOOLEAN] /\ listening' = listening
      BY <1>6, <1>t, <2>1 DEF Follows
    <3> QED BY <1>6, <1>u, <1>t, <3>2, <3>3 DEF Follows, UiActs
  <2>2. CASE h # "battery"
    <3>1. /\ UNCHANGED <<current, todo>>
          /\ isAutoSync' \in [Hals -> BOOLEAN] /\ listening' \in [Hals -> BOOLEAN]
      BY <1>6, <1>t, <2>2 DEF Follows
    <3>2. PICK q : Hands(q)
      BY <1>6, <1>u, <3>1, KeepsNone DEF Follows
    <3> QED BY <1>6, <1>u, <1>t, <3>1, <3>2 DEF Follows, UiActs
  <2> QED BY <2>1, <2>2
<1>7. CASE Reopens
  <2>u. /\ UNCHANGED <<bridgeNow, content, owner, isAutoSync, settling, lost, resets>>
        /\ todo["ui"] = <<>> /\ updates' \in 0 .. MaxUpdates
    BY <1>7, <1>u DEF Reopens
  <2>c. /\ Initialize("battery") \in HalCalls /\ Initialize("sensors") \in HalCalls
        /\ Initialize("battery").op = "initialize" /\ Initialize("sensors").op = "initialize"
    BY <1>h, NewCalls DEF Initialize
  <2>1. CASE /\ ~ isAutoSync["battery"] /\ UNCHANGED current
             /\ todo' = [todo EXCEPT !["ui"] = <<Initialize("battery"), Initialize("sensors")>>]
             /\ listening' = [h \in Hals |-> TRUE]
    <3>1. PICK q : q = <<Initialize("battery"), Initialize("sensors")>>
      OBVIOUS
    <3>2. q \in Seq(HalCalls) /\ \A i \in DOMAIN q : q[i].op # "update"
      BY <2>c, <3>1
    <3>3. DOMAIN current' = Hals
          /\ \A g \in Hals : current'[g] \in [Fields[g] -> Int] /\ current'[g] = current[g]
      BY <2>1 DEF PowerTypeOK
    <3>4. listening' \in [Hals -> BOOLEAN]
      BY <2>1
    <3>5. Hands(q)
      BY <2>1, <3>1, <3>2, <3>3 DEF Hands
    <3> QED BY <1>t, <2>u, <3>4, <3>5 DEF UiActs
  <2>2. CASE /\ isAutoSync["battery"]
             /\ \E r \in Readings["battery"] :
                  /\ current' = [current EXCEPT !["battery"] = r]
                  /\ todo' = [todo EXCEPT !["ui"] = <<Initialize("battery"), Update("battery", r),
                                                      Initialize("sensors")>>]
             /\ listening' = [h \in Hals |-> TRUE]
    <3>1. PICK r \in Readings["battery"] :
                  /\ current' = [current EXCEPT !["battery"] = r]
                  /\ todo' = [todo EXCEPT !["ui"] = <<Initialize("battery"), Update("battery", r),
                                                      Initialize("sensors")>>]
      BY <2>2
    <3>2. PICK q : q = <<Initialize("battery"), Update("battery", r), Initialize("sensors")>>
      OBVIOUS
    <3>3. /\ Update("battery", r) \in HalCalls /\ Update("battery", r).hal = "battery"
          /\ Update("battery", r).op = "update" /\ Update("battery", r).data = r
          /\ r \in [Fields["battery"] -> Int]
      BY <1>h, NewCalls, ReadingsType DEF Update
    <3>4. /\ q \in Seq(HalCalls) /\ DOMAIN q = 1 .. 3 /\ q[1].op # "update" /\ q[3].op # "update"
          /\ q[2] = Update("battery", r)
      BY <2>c, <3>2, <3>3
    <3>5. /\ DOMAIN current' = Hals /\ current'["battery"] = r
          /\ \A g \in Hals : g # "battery" => current'[g] = current[g]
      BY <1>h, <3>1 DEF PowerTypeOK
    <3>6. \A g \in Hals : current'[g] \in [Fields[g] -> Int]
      BY <3>3, <3>5 DEF PowerTypeOK
    <3>7. \A i \in DOMAIN q : q[i].op = "update" => q[i].data = current'[q[i].hal]
      <4>1. \A i \in 1 .. 3 : i = 1 \/ i = 2 \/ i = 3
        OBVIOUS
      <4> QED BY <4>1, <3>3, <3>4, <3>5
    <3>8. \A g \in Hals : \/ current'[g] = current[g]
                          \/ \E i \in DOMAIN q : q[i].hal = g /\ q[i].op = "update"
      BY <3>3, <3>4, <3>5
    <3>9. listening' \in [Hals -> BOOLEAN]
      BY <2>2
    <3>10. Hands(q)
      BY <3>1, <3>2, <3>4, <3>5, <3>6, <3>7, <3>8 DEF Hands
    <3> QED BY <1>t, <2>u, <3>9, <3>10 DEF UiActs
  <2>3. CASE listening' = [h \in Hals |-> FALSE] /\ UNCHANGED <<current, todo>>
    <3>1. listening' \in [Hals -> BOOLEAN]
      BY <2>3
    <3>2. PICK q : Hands(q)
      BY <2>u, <2>3, KeepsNone
    <3> QED BY <1>t, <2>u, <3>1, <3>2 DEF UiActs
  <2> QED BY <1>7, <2>1, <2>2, <2>3 DEF Reopens
<1> QED BY <1>1, <1>2, <1>3, <1>4, <1>5, <1>6, <1>7 DEF UiBegins

LEMMA FewOwners == ASSUME NEW o, \A c, d \in o : c = d PROVE Cardinality(o) <= 1
<1>1. CASE o = {}
  <2>1. Cardinality(o) = 0
    BY <1>1, FS_EmptySet, Zenon
  <2> QED BY <2>1
<1>2. CASE \E c : c \in o
  <2>1. PICK c : c \in o
    BY <1>2
  <2>2. o = {c}
    BY <2>1
  <2>3. Cardinality(o) = 1
    BY <2>2, FS_Singleton, Zenon
  <2> QED BY <2>3
<1> QED BY <1>1, <1>2

LEMMA MergedType ==
  ASSUME NEW h \in Hals, NEW old \in [Fields[h] -> Int], NEW new \in [Fields[h] -> Int]
  PROVE  Merged(h, old, new) \in [Fields[h] -> Int]
  BY DEF Merged

PowerInv == PowerTypeOK /\ QueueInv /\ NodesInv /\ MergedInv

\* The type invariant without what the queues say of the owners.
StateOK ==
  /\ DOMAIN mInfo = Hals /\ DOMAIN current = Hals
  /\ \A h \in Hals : mInfo[h] \in [Fields[h] -> Int] /\ current[h] \in [Fields[h] -> Int]
  /\ mInitialized \in [Hals -> BOOLEAN] /\ isAutoSync \in [Hals -> BOOLEAN]
  /\ listening \in [Hals -> BOOLEAN] /\ owner \in [Hals -> SUBSET HalCallers]
  /\ DOMAIN content = {HostName(n) : n \in AllNodes} /\ lost \subseteq AllNodes
  /\ settling \in Nat /\ reset \in [Hals -> BOOLEAN]
  /\ updates \in 0 .. MaxUpdates /\ resets \in 0 .. MaxResets

LEMMA StateTyped == ASSUME PowerInv PROVE StateOK
  BY DEF PowerInv, PowerTypeOK, StateOK

LEMMA PowerTypeFrom == ASSUME QueueInv', StateOK' PROVE PowerTypeOK'
<1>1. \A h \in Hals : Cardinality(owner'[h]) <= 1
  BY FewOwners DEF QueueInv
<1> QED BY <1>1 DEF PowerTypeOK, StateOK

\* A caller that is about to begin a call has no bridge.
LEMMA Beginner ==
  ASSUME QueueInv, NEW c \in HalCallers, todo[c] # <<>>, ~ Working(c), NEW g \in Hals
  PROVE  c \notin owner[g]
<1>1. SUFFICES ASSUME c \in owner[g] PROVE FALSE
  OBVIOUS
<1>2. Head(todo[c]).hal = g
  BY <1>1, FirstCall DEF QueueInv
<1> QED BY <1>1, <1>2 DEF Working

LEMMA NodesKept ==
  ASSUME NodesInv, UNCHANGED <<mInfo, mInitialized, content, owner, lost>>,
         \A h \in Hals : \A d \in owner[h] : todo'[d] = todo[d]
  PROVE  NodesInv'
<1>1. SUFFICES ASSUME NEW h \in Hals, mInitialized[h], NEW i \in 1 .. Len(NodesOf[h])
               PROVE  \/ NodesOf[h][i].node \in lost
                      \/ content[HostName(NodesOf[h][i].node)] = Told(NodesOf[h][i].shows, mInfo[h])
                      \/ \E d \in owner[h] : i > Len(NodesOf[h]) - Len(todo'[d][1].left)
  BY DEF NodesInv
<1>2. CASE \E d \in owner[h] : i > Len(NodesOf[h]) - Len(todo[d][1].left)
  BY <1>2
<1>3. CASE ~ \E d \in owner[h] : i > Len(NodesOf[h]) - Len(todo[d][1].left)
  BY <1>1, <1>3 DEF NodesInv
<1> QED BY <1>2, <1>3

LEMMA RefusesStep ==
  ASSUME PowerInv, NEW c \in HalCallers, BeginsCall(c), todo[c] # <<>>,
         todo[c][1].op = "update", ~ mInitialized[todo[c][1].hal]
  PROVE  PowerInv'
<1>1. /\ todo' = [todo EXCEPT ![c] = Tail(@)] /\ ~ Working(c)
      /\ UNCHANGED <<mInfo, mInitialized, reset, owner, content, current, isAutoSync, listening,
                     settling, lost, updates, resets>>
  BY FirstCall DEF BeginsCall, PowerInv, bridgeNow, uiKeeps
<1>2. /\ todo \in [HalCallers -> Seq(HalCalls)]
      /\ todo[c] \in Seq(HalCalls) /\ Tail(todo[c]) \in Seq(HalCalls) /\ Len(todo[c]) \in Nat
      /\ DOMAIN todo[c] = 1 .. Len(todo[c]) /\ DOMAIN Tail(todo[c]) = 1 .. Len(todo[c]) - 1
      /\ \A i \in 1 .. Len(todo[c]) - 1 : Tail(todo[c])[i] = todo[c][i + 1]
  BY TailCalls DEF PowerInv, QueueInv
<1>3. /\ todo' \in [HalCallers -> Seq(HalCalls)]
      /\ todo'[c] = Tail(todo[c]) /\ \A d \in HalCallers : d # c => todo'[d] = todo[d]
  BY <1>1, <1>2
<1>4. \A g \in Hals : c \notin owner[g] /\ \A d \in owner[g] : todo'[d] = todo[d]
  <2>1. \A g \in Hals : owner[g] \subseteq HalCallers
    BY DEF PowerInv, PowerTypeOK
  <2> QED BY <1>1, <1>3, <2>1, Beginner DEF PowerInv
<1>5. "ui" \in HalCallers /\ "live" \in HalCallers
  BY DEF HalCallers
<1>6. ASSUME NEW d \in HalCallers, NEW i \in DOMAIN todo'[d]
      PROVE  \E j \in DOMAIN todo[d] : todo'[d][i] = todo[d][j]
  <2>1. CASE d = c
    <3>1. i \in 1 .. Len(todo[c]) - 1
      BY <1>2, <1>3, <2>1
    <3>2. i + 1 \in DOMAIN todo[c]
      BY <1>2, <3>1
    <3>3. todo'[d][i] = todo[c][i + 1]
      BY <1>2, <1>3, <2>1, <3>1
    <3> QED BY <2>1, <3>2, <3>3
  <2>2. CASE d # c
    BY <1>3, <2>2
  <2> QED BY <2>1, <2>2
<1>7. QueueInv'
  <2>1. \A h \in Hals : \A d, e \in owner'[h] : d = e
    BY <1>1 DEF PowerInv, QueueInv
  <2>2. \A h \in Hals : \A d \in owner'[h] : todo'[d] # <<>> /\ todo'[d][1].hal = h /\ mInitialized'[h]
    BY <1>1, <1>4 DEF PowerInv, QueueInv
  <2>3. \A i \in DOMAIN todo'["ui"] :
          todo'["ui"][i].op = "update" => todo'["ui"][i].data = current'[todo'["ui"][i].hal]
    BY <1>1, <1>5, <1>6 DEF PowerInv, QueueInv
  <2>4. \A i \in DOMAIN todo'["live"] : todo'["live"][i].op = "initialize"
    BY <1>5, <1>6 DEF PowerInv, QueueInv
  <2> QED BY <1>3, <2>1, <2>2, <2>3, <2>4 DEF QueueInv
<1>8. PowerTypeOK'
  <2>1. StateOK'
    BY <1>1, StateTyped DEF StateOK
  <2> QED BY <1>7, <2>1, PowerTypeFrom
<1>9. NodesInv'
  BY <1>1, <1>4, NodesKept DEF PowerInv
<1>10. MergedInv'
  <2>1. SUFFICES ASSUME NEW g \in Hals, mInitialized[g], ~ reset[g], ~ Agree(g)'
                 PROVE  Pending(g)'
    BY <1>1 DEF MergedInv
  <2>2. ~ Agree(g)
    BY <1>1, <2>1 DEF Agree
  <2>3. Pending(g)
    BY <2>1, <2>2 DEF PowerInv, MergedInv
  <2>4. PICK i \in DOMAIN todo["ui"] : /\ todo["ui"][i].hal = g /\ todo["ui"][i].op = "update"
                                       /\ ~ (i = 1 /\ "ui" \in owner[g])
    BY <2>3 DEF Pending
  <2>5. CASE c # "ui"
    BY <1>1, <1>3, <1>5, <2>4, <2>5 DEF Pending
  <2>6. CASE c = "ui"
    <3>1. i # 1
      BY <2>1, <2>4, <2>6
    <3>2. i - 1 \in DOMAIN todo'["ui"] /\ todo'["ui"][i - 1] = todo["ui"][i]
      BY <1>2, <1>3, <2>4, <2>6, <3>1
    <3>3. "ui" \notin owner'[g]
      BY <1>1, <1>4, <2>6
    <3> QED BY <2>4, <3>2, <3>3 DEF Pending
  <2> QED BY <2>5, <2>6
<1> QED BY <1>7, <1>8, <1>9, <1>10 DEF PowerInv

LEMMA AcceptsStep ==
  ASSUME PowerInv, NEW c \in HalCallers, BeginsCall(c), todo[c] # <<>>,
         ~ (todo[c][1].op = "update" /\ ~ mInitialized[todo[c][1].hal])
  PROVE  PowerInv'
<1>k. PICK k \in HalCalls : k = todo[c][1]
  BY FirstCall DEF PowerInv
<1>h. PICK h \in Hals : h = k.hal
  BY CallOf
<1>u. UNCHANGED <<content, current, isAutoSync, listening, settling, lost, updates, resets>>
  BY DEF BeginsCall, uiKeeps
<1>1. /\ ~ Working(c) /\ owner[h] = {}
      /\ mInfo' = [mInfo EXCEPT ![h] = IF k.op = "update" THEN Merged(h, @, k.data) ELSE k.data]
      /\ mInitialized' = [mInitialized EXCEPT ![h] = TRUE]
      /\ reset' = [reset EXCEPT ![h] = k.op = "initialize"]
      /\ owner' = [owner EXCEPT ![h] = {c}]
      /\ todo' = [todo EXCEPT ![c][1].left = NodesOf[h]]
  BY <1>k, <1>h, FirstCall DEF BeginsCall, PowerInv
<1>2. k.data \in [Fields[h] -> Int] /\ k.op \in {"initialize", "update"}
  BY <1>h, CallOf
<1>q. PICK q : q = WithLeft(todo[c], NodesOf[h])
  OBVIOUS
<1>3. /\ q \in Seq(HalCalls) /\ q # <<>> /\ DOMAIN q = DOMAIN todo[c] /\ q[1].left = NodesOf[h]
      /\ \A i \in DOMAIN todo[c] : /\ q[i].hal = todo[c][i].hal /\ q[i].op = todo[c][i].op
                                   /\ q[i].data = todo[c][i].data
  <2>1. LeftOf(todo[c][1].hal, NodesOf[h])
    <3>1. 0 \in 0 .. Len(NodesOf[h]) /\ Left(NodesOf[h], 0) = NodesOf[h]
      BY LeftNodes
    <3> QED BY <1>k, <1>h, <3>1 DEF LeftOf
  <2>2. todo[c] \in Seq(HalCalls)
    BY DEF PowerInv, QueueInv
  <2> QED BY <1>q, <2>1, <2>2, SetsLeft
<1>4. todo[c][1].hal = h /\ 1 \in DOMAIN todo[c] /\ 1 \in DOMAIN q
  BY <1>k, <1>h, <1>3, FirstCall DEF PowerInv
<1>5. /\ todo' \in [HalCallers -> Seq(HalCalls)]
      /\ todo'[c] = q /\ \A d \in HalCallers : d # c => todo'[d] = todo[d]
  <2>1. todo \in [HalCallers -> Seq(HalCalls)] /\ todo' = [todo EXCEPT ![c] = q]
    BY <1>1, <1>q DEF PowerInv, QueueInv, WithLeft
  <2> QED BY <1>3, <2>1
<1>6. \A g \in Hals : c \notin owner[g] /\ owner[g] \subseteq HalCallers
  BY <1>1, Beginner DEF PowerInv, PowerTypeOK
<1>7. /\ owner' \in [Hals -> SUBSET HalCallers] /\ owner'[h] = {c}
      /\ \A g \in Hals : g # h => owner'[g] = owner[g]
  BY <1>1 DEF PowerInv, PowerTypeOK
<1>8. /\ mInitialized' \in [Hals -> BOOLEAN] /\ mInitialized'[h] = TRUE
      /\ \A g \in Hals : g # h => mInitialized'[g] = mInitialized[g]
  BY <1>1 DEF PowerInv, PowerTypeOK
<1>9. /\ DOMAIN mInfo' = Hals /\ \A g \in Hals : g # h => mInfo'[g] = mInfo[g]
      /\ k.op = "update" => mInfo'[h] = Merged(h, mInfo[h], k.data)
      /\ k.op # "update" => mInfo'[h] = k.data
  BY <1>1 DEF PowerInv, PowerTypeOK
<1>10. \A g \in Hals : mInfo'[g] \in [Fields[g] -> Int]
  <2>1. \A g \in Hals : mInfo[g] \in [Fields[g] -> Int]
    BY DEF PowerInv, PowerTypeOK
  <2>2. mInfo'[h] \in [Fields[h] -> Int]
    BY <1>2, <1>9, <2>1, MergedType
  <2> QED BY <1>9, <2>1, <2>2
<1>11. /\ reset' \in [Hals -> BOOLEAN] /\ \A g \in Hals : g # h => reset'[g] = reset[g]
       /\ k.op = "initialize" => reset'[h]
  <2>1. reset \in [Hals -> BOOLEAN]
    BY DEF PowerInv, PowerTypeOK
  <2>2. CASE k.op = "initialize"
    <3>1. reset' = [reset EXCEPT ![h] = TRUE]
      BY <1>1, <2>2
    <3> QED BY <2>1, <3>1
  <2>3. CASE k.op # "initialize"
    <3>1. reset' = [reset EXCEPT ![h] = FALSE]
      BY <1>1, <2>3
    <3> QED BY <2>1, <2>3, <3>1
  <2> QED BY <2>2, <2>3
<1>12. "ui" \in HalCallers /\ "live" \in HalCallers
  BY DEF HalCallers
<1>13. QueueInv'
  <2>1. \A g \in Hals : \A d, e \in owner'[g] : d = e
    BY <1>7 DEF PowerInv, QueueInv
  <2>2. ASSUME NEW g \in Hals, NEW d \in owner'[g]
        PROVE  todo'[d] # <<>> /\ todo'[d][1].hal = g /\ mInitialized'[g]
    <3>1. CASE g = h
      <4>1. d = c
        BY <1>7, <2>2, <3>1
      <4>2. todo'[c] # <<>> /\ todo'[c][1].hal = h
        BY <1>3, <1>4, <1>5
      <4> QED BY <1>8, <3>1, <4>1, <4>2
    <3>2. CASE g # h
      <4>1. d \in owner[g] /\ d \in HalCallers /\ d # c
        BY <1>6, <1>7, <2>2, <3>2
      <4>2. todo[d] # <<>> /\ todo[d][1].hal = g /\ mInitialized[g]
        BY <4>1 DEF PowerInv, QueueInv
      <4>3. todo'[d] = todo[d]
        BY <1>5, <4>1
      <4>4. mInitialized'[g]
        BY <1>8, <3>2, <4>2
      <4> QED BY <4>2, <4>3, <4>4
    <3> QED BY <3>1, <3>2
  <2>3. ASSUME NEW d \in HalCallers, NEW i \in DOMAIN todo'[d]
        PROVE  /\ i \in DOMAIN todo[d] /\ todo'[d][i].hal = todo[d][i].hal
               /\ todo'[d][i].op = todo[d][i].op /\ todo'[d][i].data = todo[d][i].data
    BY <1>3, <1>5
  <2>4. \A i \in DOMAIN todo'["ui"] :
          todo'["ui"][i].op = "update" => todo'["ui"][i].data = current'[todo'["ui"][i].hal]
    BY <1>u, <1>12, <2>3 DEF PowerInv, QueueInv
  <2>5. \A i \in DOMAIN todo'["live"] : todo'["live"][i].op = "initialize"
    <3>1. \A i \in DOMAIN todo["live"] : todo["live"][i].op = "initialize"
      BY DEF PowerInv, QueueInv
    <3> QED BY <1>12, <2>3, <3>1
  <2> QED BY <1>5, <2>1, <2>2, <2>4, <2>5 DEF QueueInv
<1>14. PowerTypeOK'
  <2>1. StateOK'
    BY <1>u, <1>7, <1>8, <1>9, <1>10, <1>11, StateTyped DEF StateOK
  <2> QED BY <1>13, <2>1, PowerTypeFrom
<1>15. NodesInv'
  <2>1. SUFFICES ASSUME NEW g \in Hals, mInitialized'[g], NEW i \in 1 .. Len(NodesOf[g])
                 PROVE  \/ NodesOf[g][i].node \in lost
                        \/ content[HostName(NodesOf[g][i].node)] = Told(NodesOf[g][i].shows, mInfo'[g])
                        \/ \E d \in owner'[g] : i > Len(NodesOf[g]) - Len(todo'[d][1].left)
    BY <1>u DEF NodesInv
  <2>2. CASE g = h
    <3>1. Len(NodesOf[h]) \in Nat
      BY LeftNodes
    <3>2. i > Len(NodesOf[h]) - Len(todo'[c][1].left)
      <4>1. todo'[c][1].left = NodesOf[h]
        BY <1>3, <1>5
      <4> QED BY <2>2, <3>1, <4>1
    <3> QED BY <1>7, <2>2, <3>2
  <2>3. CASE g # h
    <3>1. /\ mInitialized[g] /\ mInfo'[g] = mInfo[g] /\ owner'[g] = owner[g]
          /\ \A d \in owner[g] : todo'[d] = todo[d]
      BY <1>5, <1>6, <1>7, <1>8, <1>9, <2>1, <2>3
    <3>2. \/ NodesOf[g][i].node \in lost
          \/ content[HostName(NodesOf[g][i].node)] = Told(NodesOf[g][i].shows, mInfo[g])
          \/ \E d \in owner[g] : i > Len(NodesOf[g]) - Len(todo[d][1].left)
      BY <3>1 DEF PowerInv, NodesInv
    <3> QED BY <3>1, <3>2
  <2> QED BY <2>2, <2>3
<1>16. MergedInv'
  <2>1. SUFFICES ASSUME NEW g \in Hals, mInitialized'[g], ~ reset'[g], ~ Agree(g)'
                 PROVE  Pending(g)'
    BY DEF MergedInv
  <2>2. CASE g = h
    <3>1. k.op = "update"
      BY <1>2, <1>11, <2>1, <2>2
    <3>2. c = "ui"
      <4>1. c = "live" => k.op = "initialize"
        BY <1>k, <1>4 DEF PowerInv, QueueInv
      <4> QED BY <3>1, <4>1 DEF HalCallers
    <3>3. k.data = current[h]
      BY <1>k, <1>4, <3>1, <3>2 DEF PowerInv, QueueInv
    <3>4. mInfo'[h] = Merged(h, mInfo[h], current[h])
      BY <1>9, <3>1, <3>3
    <3>5. Agree(h)'
      BY <1>u, <3>4 DEF Agree, Merged
    <3> QED BY <2>1, <2>2, <3>5
  <2>3. CASE g # h
    <3>1. mInitialized[g] /\ ~ reset[g] /\ ~ Agree(g)
      BY <1>u, <1>8, <1>9, <1>11, <2>1, <2>3 DEF Agree
    <3>2. PICK i \in DOMAIN todo["ui"] : /\ todo["ui"][i].hal = g /\ todo["ui"][i].op = "update"
                                         /\ ~ (i = 1 /\ "ui" \in owner[g])
      BY <3>1 DEF PowerInv, MergedInv, Pending
    <3>3. /\ i \in DOMAIN todo'["ui"] /\ todo'["ui"][i].hal = todo["ui"][i].hal
          /\ todo'["ui"][i].op = todo["ui"][i].op
      BY <1>3, <1>5, <1>12, <3>2
    <3>4. owner'[g] = owner[g]
      BY <1>7, <2>3
    <3> QED BY <3>2, <3>3, <3>4 DEF Pending
  <2> QED BY <2>2, <2>3
<1> QED BY <1>13, <1>14, <1>15, <1>16 DEF PowerInv

LEMMA BeginsStep == ASSUME PowerInv, NEW c \in HalCallers, BeginsCall(c) PROVE PowerInv'
<1>1. todo[c] # <<>>
  BY DEF BeginsCall
<1> QED BY <1>1, RefusesStep, AcceptsStep

LEMMA WritesStep == ASSUME PowerInv, NEW c \in HalCallers, WritesNode(c) PROVE PowerInv'
<1>0. todo[c] # <<>> /\ Working(c)
  BY DEF WritesNode, Working
<1>f. /\ todo[c] \in Seq(HalCalls) /\ Head(todo[c]) = todo[c][1] /\ todo[c][1] \in HalCalls
      /\ DOMAIN todo[c] = 1 .. Len(todo[c]) /\ Len(todo[c]) \in Nat /\ Len(todo[c]) >= 1
  BY <1>0, FirstCall DEF PowerInv
<1>h. PICK h \in Hals : h = todo[c][1].hal
  BY <1>f, CallOf
<1>m. PICK m \in 0 .. Len(NodesOf[h]) : todo[c][1].left = Left(NodesOf[h], m)
  BY <1>f, <1>h, CallOf
<1>i. PICK j : j = m + 1
  OBVIOUS
<1>1. /\ Len(NodesOf[h]) \in Nat /\ j \in 1 .. Len(NodesOf[h])
      /\ Head(todo[c][1].left) = NodesOf[h][j] /\ Tail(todo[c][1].left) = Left(NodesOf[h], j)
      /\ Len(todo[c][1].left) = Len(NodesOf[h]) - m
      /\ Len(Left(NodesOf[h], j)) = Len(NodesOf[h]) - j
  <2>1. todo[c][1].left # <<>>
    BY <1>f DEF WritesNode
  <2>2. j \in 1 .. Len(NodesOf[h])
    BY <1>m, <1>i, <2>1, LeftNodes
  <2>3. j \in 0 .. Len(NodesOf[h])
    BY <2>2
  <2> QED BY <1>m, <1>i, <2>1, <2>2, <2>3, LeftNodes
<1>n. PICK node : node = NodesOf[h][j].node
  OBVIOUS
<1>2. /\ c \in owner[h]
      /\ UNCHANGED <<mInfo, mInitialized, reset, owner, current, isAutoSync, listening, settling,
                     updates, resets>>
  BY <1>0, <1>f, <1>h DEF WritesNode, Working, bridgeNow, uiKeeps
<1>3. \/ /\ content' = [content EXCEPT ![HostName(node)] = Told(NodesOf[h][j].shows, mInfo[h])]
         /\ lost' = lost \ {node}
      \/ /\ content' \in {content, [content EXCEPT ![HostName(node)] = Blank]}
         /\ lost' = lost \cup {node}
  BY <1>f, <1>h, <1>1, <1>n DEF WritesNode
<1>q. PICK q : q = WithLeft(todo[c], Left(NodesOf[h], j))
  OBVIOUS
<1>4. /\ q \in Seq(HalCalls) /\ q # <<>> /\ DOMAIN q = DOMAIN todo[c]
      /\ q[1].left = Left(NodesOf[h], j)
      /\ \A i \in DOMAIN todo[c] : /\ q[i].hal = todo[c][i].hal /\ q[i].op = todo[c][i].op
                                   /\ q[i].data = todo[c][i].data
  <2>1. LeftOf(todo[c][1].hal, Left(NodesOf[h], j))
    <3>1. j \in 0 .. Len(NodesOf[h])
      BY <1>1
    <3> QED BY <1>h, <3>1 DEF LeftOf
  <2> QED BY <1>0, <1>f, <1>q, <2>1, SetsLeft
<1>5. 1 \in DOMAIN todo[c] /\ 1 \in DOMAIN q
  BY <1>f, <1>4
<1>6. /\ todo' \in [HalCallers -> Seq(HalCalls)]
      /\ todo'[c] = q /\ \A d \in HalCallers : d # c => todo'[d] = todo[d]
  <2>1. todo \in [HalCallers -> Seq(HalCalls)]
    BY DEF PowerInv, QueueInv
  <2>2. todo' = [todo EXCEPT ![c][1].left = Tail(@)]
    BY DEF WritesNode
  <2>3. todo' = [todo EXCEPT ![c] = WithLeft(todo[c], Tail(todo[c][1].left))]
    BY <1>f, <2>1, <2>2 DEF WithLeft
  <2>4. todo' = [todo EXCEPT ![c] = q]
    BY <1>1, <1>q, <2>3
  <2> QED BY <1>4, <2>1, <2>4
<1>7. \A d \in HalCallers : \A i \in DOMAIN todo'[d] :
        /\ i \in DOMAIN todo[d] /\ todo'[d][i].hal = todo[d][i].hal
        /\ todo'[d][i].op = todo[d][i].op /\ todo'[d][i].data = todo[d][i].data
  BY <1>4, <1>6
<1>8. "ui" \in HalCallers /\ "live" \in HalCallers /\ \A g \in Hals : owner[g] \subseteq HalCallers
  BY DEF HalCallers, PowerInv, PowerTypeOK
<1>9. QueueInv'
  <2>1. \A g \in Hals : \A d, e \in owner'[g] : d = e
    BY <1>2 DEF PowerInv, QueueInv
  <2>2. ASSUME NEW g \in Hals, NEW d \in owner'[g]
        PROVE  todo'[d] # <<>> /\ todo'[d][1].hal = g /\ mInitialized'[g]
    <3>1. d \in owner[g] /\ d \in HalCallers
      BY <1>2, <1>8, <2>2
    <3>2. todo[d] # <<>> /\ todo[d][1].hal = g /\ mInitialized[g]
      BY <3>1 DEF PowerInv, QueueInv
    <3>3. todo'[d] # <<>> /\ todo'[d][1].hal = todo[d][1].hal
      BY <1>4, <1>5, <1>6, <3>1, <3>2
    <3> QED BY <1>2, <3>2, <3>3
  <2>3. \A i \in DOMAIN todo'["ui"] :
          todo'["ui"][i].op = "update" => todo'["ui"][i].data = current'[todo'["ui"][i].hal]
    <3>1. \A i \in DOMAIN todo["ui"] :
             todo["ui"][i].op = "update" => todo["ui"][i].data = current[todo["ui"][i].hal]
      BY DEF PowerInv, QueueInv
    <3>2. current' = current
      BY <1>2
    <3> QED BY <1>7, <1>8, <3>1, <3>2
  <2>4. \A i \in DOMAIN todo'["live"] : todo'["live"][i].op = "initialize"
    BY <1>7, <1>8 DEF PowerInv, QueueInv
  <2> QED BY <1>6, <2>1, <2>2, <2>3, <2>4 DEF QueueInv
<1>10. PowerTypeOK'
  <2>1. DOMAIN content' = DOMAIN content
    BY <1>3
  <2>2. lost' \subseteq AllNodes
    <3>1. node \in AllNodes
      BY <1>1, <1>n, NodePlaces
    <3>2. lost \subseteq AllNodes
      BY DEF PowerInv, PowerTypeOK
    <3> QED BY <1>3, <3>1, <3>2
  <2>3. StateOK'
    BY <1>2, <2>1, <2>2, StateTyped DEF StateOK
  <2> QED BY <1>9, <2>3, PowerTypeFrom
<1>11. NodesInv'
  <2>1. SUFFICES ASSUME NEW g \in Hals, mInitialized[g], NEW i \in 1 .. Len(NodesOf[g])
                 PROVE  \/ NodesOf[g][i].node \in lost'
                        \/ content'[HostName(NodesOf[g][i].node)] = Told(NodesOf[g][i].shows, mInfo[g])
                        \/ \E d \in owner[g] : i > Len(NodesOf[g]) - Len(todo'[d][1].left)
    BY <1>2 DEF NodesInv
  <2>2. HostName(NodesOf[g][i].node) \in DOMAIN content
    BY NodePlaces DEF PowerInv, PowerTypeOK
  <2>3. CASE g = h /\ i = j
    <3>1. CASE lost' = lost \cup {node}
      BY <1>n, <2>3, <3>1
    <3>2. CASE content' = [content EXCEPT ![HostName(node)] = Told(NodesOf[h][j].shows, mInfo[h])]
      BY <1>n, <2>2, <2>3, <3>2
    <3> QED BY <1>3, <3>1, <3>2
  <2>4. CASE ~ (g = h /\ i = j)
    <3>1. HostName(NodesOf[g][i].node) # HostName(node)
      <4>1. NodesOf[h][j].node = node /\ j \in 1 .. Len(NodesOf[h])
        BY <1>1, <1>n
      <4>2. HostName(NodesOf[g][i].node) = HostName(NodesOf[h][j].node) => g = h /\ i = j
        BY <4>1, NodesApart
      <4> QED BY <2>4, <4>1, <4>2
    <3>2. NodesOf[g][i].node # node
      BY <3>1
    <3>3. content'[HostName(NodesOf[g][i].node)] = content[HostName(NodesOf[g][i].node)]
      BY <1>3, <2>2, <3>1
    <3>4. NodesOf[g][i].node \in lost => NodesOf[g][i].node \in lost'
      BY <1>3, <3>2
    <3>5. ASSUME NEW d \in owner[g], i > Len(NodesOf[g]) - Len(todo[d][1].left)
          PROVE  i > Len(NodesOf[g]) - Len(todo'[d][1].left)
      <4>1. CASE d = c
        <5>1. g = h
          BY <1>h, <3>5, <4>1 DEF PowerInv, QueueInv
        <5>2. i > m
          <6>1. Len(todo[d][1].left) = Len(NodesOf[g]) - m
            BY <1>1, <4>1, <5>1
          <6> QED BY <1>1, <1>m, <3>5, <5>1, <6>1
        <5>3. i > j
          BY <1>i, <2>4, <5>1, <5>2
        <5>4. Len(todo'[c][1].left) = Len(NodesOf[h]) - j
          BY <1>1, <1>4, <1>6
        <5> QED BY <1>1, <4>1, <5>1, <5>3, <5>4
      <4>2. CASE d # c
        <5>1. todo'[d] = todo[d]
          BY <1>6, <1>8, <4>2
        <5> QED BY <3>5, <5>1
      <4> QED BY <4>1, <4>2
    <3> QED BY <2>1, <3>3, <3>4, <3>5 DEF PowerInv, NodesInv
  <2> QED BY <2>3, <2>4
<1>12. MergedInv'
  <2>1. SUFFICES ASSUME NEW g \in Hals, mInitialized[g], ~ reset[g], ~ Agree(g)
                 PROVE  Pending(g)'
    BY <1>2 DEF MergedInv, Agree
  <2>2. PICK i \in DOMAIN todo["ui"] : /\ todo["ui"][i].hal = g /\ todo["ui"][i].op = "update"
                                       /\ ~ (i = 1 /\ "ui" \in owner[g])
    BY <2>1 DEF PowerInv, MergedInv, Pending
  <2>3. /\ i \in DOMAIN todo'["ui"] /\ todo'["ui"][i].hal = todo["ui"][i].hal
        /\ todo'["ui"][i].op = todo["ui"][i].op
    BY <1>4, <1>6, <1>8, <2>2
  <2> QED BY <1>2, <2>2, <2>3 DEF Pending
<1> QED BY <1>9, <1>10, <1>11, <1>12 DEF PowerInv

LEMMA EndsStep == ASSUME PowerInv, NEW c \in HalCallers, EndsCall(c) PROVE PowerInv'
<1>0. todo[c] # <<>> /\ Working(c)
  BY DEF EndsCall, Working
<1>f. /\ todo[c] \in Seq(HalCalls) /\ Head(todo[c]) = todo[c][1] /\ todo[c][1].hal \in Hals
  BY <1>0, FirstCall DEF PowerInv
<1>h. PICK h \in Hals : h = todo[c][1].hal
  BY <1>f
<1>1. /\ todo' = [todo EXCEPT ![c] = Tail(@)] /\ owner' = [owner EXCEPT ![h] = {}]
      /\ c \in owner[h] /\ todo[c][1].left = <<>>
      /\ UNCHANGED <<mInfo, mInitialized, reset, content, current, isAutoSync, listening,
                     settling, lost, updates, resets>>
  BY <1>0, <1>f, <1>h DEF EndsCall, Working, bridgeNow, uiKeeps
<1>2. /\ todo \in [HalCallers -> Seq(HalCalls)]
      /\ todo[c] \in Seq(HalCalls) /\ Tail(todo[c]) \in Seq(HalCalls) /\ Len(todo[c]) \in Nat
      /\ DOMAIN todo[c] = 1 .. Len(todo[c]) /\ DOMAIN Tail(todo[c]) = 1 .. Len(todo[c]) - 1
      /\ \A i \in 1 .. Len(todo[c]) - 1 : Tail(todo[c])[i] = todo[c][i + 1]
  BY <1>0, TailCalls DEF PowerInv, QueueInv
<1>3. /\ todo' \in [HalCallers -> Seq(HalCalls)]
      /\ todo'[c] = Tail(todo[c]) /\ \A d \in HalCallers : d # c => todo'[d] = todo[d]
  BY <1>1, <1>2
<1>4. /\ owner' \in [Hals -> SUBSET HalCallers] /\ owner'[h] = {}
      /\ \A g \in Hals : g # h => owner'[g] = owner[g]
  BY <1>1 DEF PowerInv, PowerTypeOK
<1>5. \A g \in Hals : \A d \in owner[g] : d \in HalCallers /\ (d = c => g = h)
  <2>1. \A g \in Hals : owner[g] \subseteq HalCallers
    BY DEF PowerInv, PowerTypeOK
  <2>2. \A g \in Hals : \A d \in owner[g] : d = c => g = h
    BY <1>h DEF PowerInv, QueueInv
  <2> QED BY <2>1, <2>2
<1>6. \A g \in Hals : \A d \in owner'[g] : g # h /\ d \in owner[g] /\ d # c /\ todo'[d] = todo[d]
  BY <1>3, <1>4, <1>5
<1>7. "ui" \in HalCallers /\ "live" \in HalCallers
  BY DEF HalCallers
<1>8. ASSUME NEW d \in HalCallers, NEW i \in DOMAIN todo'[d]
      PROVE  \E j \in DOMAIN todo[d] : todo'[d][i] = todo[d][j]
  <2>1. CASE d = c
    <3>1. i \in 1 .. Len(todo[c]) - 1
      BY <1>2, <1>3, <2>1
    <3>2. i + 1 \in DOMAIN todo[c]
      BY <1>2, <3>1
    <3>3. todo'[d][i] = todo[c][i + 1]
      BY <1>2, <1>3, <2>1, <3>1
    <3> QED BY <2>1, <3>2, <3>3
  <2>2. CASE d # c
    BY <1>3, <2>2
  <2> QED BY <2>1, <2>2
<1>9. QueueInv'
  <2>1. \A g \in Hals : \A d, e \in owner'[g] : d = e
    BY <1>6 DEF PowerInv, QueueInv
  <2>2. \A g \in Hals : \A d \in owner'[g] : todo'[d] # <<>> /\ todo'[d][1].hal = g /\ mInitialized'[g]
    BY <1>1, <1>6 DEF PowerInv, QueueInv
  <2>3. \A i \in DOMAIN todo'["ui"] :
          todo'["ui"][i].op = "update" => todo'["ui"][i].data = current'[todo'["ui"][i].hal]
    BY <1>1, <1>7, <1>8 DEF PowerInv, QueueInv
  <2>4. \A i \in DOMAIN todo'["live"] : todo'["live"][i].op = "initialize"
    BY <1>7, <1>8 DEF PowerInv, QueueInv
  <2> QED BY <1>3, <2>1, <2>2, <2>3, <2>4 DEF QueueInv
<1>10. PowerTypeOK'
  <2>1. StateOK'
    BY <1>1, <1>4, StateTyped DEF StateOK
  <2> QED BY <1>9, <2>1, PowerTypeFrom
<1>11. NodesInv'
  <2>1. SUFFICES ASSUME NEW g \in Hals, mInitialized[g], NEW i \in 1 .. Len(NodesOf[g])
                 PROVE  \/ NodesOf[g][i].node \in lost
                        \/ content[HostName(NodesOf[g][i].node)] = Told(NodesOf[g][i].shows, mInfo[g])
                        \/ \E d \in owner'[g] : i > Len(NodesOf[g]) - Len(todo'[d][1].left)
    BY <1>1 DEF NodesInv
  <2>2. CASE g = h
    <3>1. ASSUME NEW d \in owner[h] PROVE ~ i > Len(NodesOf[h]) - Len(todo[d][1].left)
      <4>1. d = c
        BY <1>1, <3>1 DEF PowerInv, QueueInv
      <4>2. Len(todo[d][1].left) = 0 /\ Len(NodesOf[h]) \in Nat
        BY <1>1, <4>1, Len(<<>>) = 0, LeftNodes
      <4> QED BY <2>2, <4>2
    <3> QED BY <2>1, <2>2, <3>1 DEF PowerInv, NodesInv
  <2>3. CASE g # h
    <3>1. owner'[g] = owner[g] /\ \A d \in owner[g] : todo'[d] = todo[d]
      BY <1>4, <1>6, <2>3
    <3> QED BY <2>1, <3>1 DEF PowerInv, NodesInv
  <2> QED BY <2>2, <2>3
<1>12. MergedInv'
  <2>1. SUFFICES ASSUME NEW g \in Hals, mInitialized[g], ~ reset[g], ~ Agree(g)
                 PROVE  Pending(g)'
    BY <1>1 DEF MergedInv, Agree
  <2>2. PICK i \in DOMAIN todo["ui"] : /\ todo["ui"][i].hal = g /\ todo["ui"][i].op = "update"
                                       /\ ~ (i = 1 /\ "ui" \in owner[g])
    BY <2>1 DEF PowerInv, MergedInv, Pending
  <2>3. CASE c # "ui"
    <3>1. todo'["ui"] = todo["ui"]
      BY <1>3, <1>7, <2>3
    <3>2. "ui" \in owner'[g] => "ui" \in owner[g]
      BY <1>6
    <3> QED BY <2>2, <3>1, <3>2 DEF Pending
  <2>4. CASE c = "ui"
    <3>1. i # 1
      BY <1>1, <1>h, <2>2, <2>4
    <3>2. i - 1 \in DOMAIN todo'["ui"] /\ todo'["ui"][i - 1] = todo["ui"][i]
      BY <1>2, <1>3, <2>2, <2>4, <3>1
    <3>3. "ui" \notin owner'[g]
      BY <1>6, <2>4
    <3> QED BY <2>2, <3>2, <3>3 DEF Pending
  <2> QED BY <2>3, <2>4
<1> QED BY <1>9, <1>10, <1>11, <1>12 DEF PowerInv

\* Nobody executes a call of which a caller with nothing to do would be the one.
LEMMA IdleOwnsNothing ==
  ASSUME QueueInv, NEW c \in HalCallers, todo[c] = <<>>, NEW h \in Hals PROVE c \notin owner[h]
  BY DEF QueueInv

LEMMA UiStep == ASSUME PowerInv, NEW q, UiActs(q) PROVE PowerInv'
<1>1. /\ todo["ui"] = <<>> /\ todo' = [todo EXCEPT !["ui"] = q] /\ q \in Seq(HalCalls)
      /\ UNCHANGED <<mInfo, mInitialized, reset, content, owner, lost, resets>>
  BY DEF UiActs, Hands, bridgeNow
<1>2. "ui" \in HalCallers /\ "live" \in HalCallers
  BY DEF HalCallers
<1>3. /\ todo' \in [HalCallers -> Seq(HalCalls)]
      /\ todo'["ui"] = q /\ \A d \in HalCallers : d # "ui" => todo'[d] = todo[d]
  <2>1. todo \in [HalCallers -> Seq(HalCalls)]
    BY DEF PowerInv, QueueInv
  <2> QED BY <1>1, <1>2, <2>1
<1>4. \A h \in Hals : "ui" \notin owner[h] /\ \A d \in owner[h] : todo'[d] = todo[d]
  <2>1. \A h \in Hals : owner[h] \subseteq HalCallers
    BY DEF PowerInv, PowerTypeOK
  <2> QED BY <1>1, <1>2, <1>3, <2>1, IdleOwnsNothing DEF PowerInv
<1>5. QueueInv'
  <2>1. \A g \in Hals : \A d, e \in owner'[g] : d = e
    BY <1>1 DEF PowerInv, QueueInv
  <2>2. \A g \in Hals : \A d \in owner'[g] : todo'[d] # <<>> /\ todo'[d][1].hal = g /\ mInitialized'[g]
    BY <1>1, <1>4 DEF PowerInv, QueueInv
  <2>3. \A i \in DOMAIN todo'["ui"] :
          todo'["ui"][i].op = "update" => todo'["ui"][i].data = current'[todo'["ui"][i].hal]
    BY <1>3 DEF UiActs, Hands
  <2>4. \A i \in DOMAIN todo'["live"] : todo'["live"][i].op = "initialize"
    BY <1>2, <1>3 DEF PowerInv, QueueInv
  <2> QED BY <1>3, <2>1, <2>2, <2>3, <2>4 DEF QueueInv
<1>6. PowerTypeOK'
  <2>1. StateOK'
    BY <1>1, StateTyped DEF StateOK, UiActs, Hands
  <2> QED BY <1>5, <2>1, PowerTypeFrom
<1>7. NodesInv'
  BY <1>1, <1>4, NodesKept DEF PowerInv
<1>8. MergedInv'
  <2>1. SUFFICES ASSUME NEW g \in Hals, mInitialized[g], ~ reset[g], ~ Agree(g)'
                 PROVE  Pending(g)'
    BY <1>1 DEF MergedInv
  <2>2. ~ Pending(g)
    BY <1>1 DEF Pending
  <2>3. Agree(g)
    BY <2>1, <2>2 DEF PowerInv, MergedInv
  <2>4. current'[g] # current[g]
    BY <1>1, <2>1, <2>3 DEF Agree
  <2>5. PICK i \in DOMAIN q : q[i].hal = g /\ q[i].op = "update"
    BY <2>4 DEF UiActs, Hands
  <2>6. "ui" \notin owner'[g]
    BY <1>1, <1>4
  <2> QED BY <1>3, <2>5, <2>6 DEF Pending
<1> QED BY <1>5, <1>6, <1>7, <1>8 DEF PowerInv

LEMMA LiveStep == ASSUME PowerInv, LiveBoots PROVE PowerInv'
<1>q. PICK q : q = <<Initialize("battery"), Initialize("sensors")>>
  OBVIOUS
<1>0. q \in Seq(HalCalls) /\ \A i \in DOMAIN q : q[i].op = "initialize"
  <2>1. /\ Initialize("battery") \in HalCalls /\ Initialize("sensors") \in HalCalls
        /\ Initialize("battery").op = "initialize" /\ Initialize("sensors").op = "initialize"
    BY NewCalls DEF Initialize, Hals
  <2> QED BY <1>q, <2>1
<1>1. /\ todo["live"] = <<>> /\ todo' = [todo EXCEPT !["live"] = q] /\ resets' \in 0 .. MaxResets
      /\ UNCHANGED <<mInfo, mInitialized, reset, content, owner, current, isAutoSync, listening,
                     settling, lost, updates>>
  BY <1>q, PowerAssumption DEF LiveBoots, bridgeNow, uiKeeps, PowerInv, PowerTypeOK
<1>2. "ui" \in HalCallers /\ "live" \in HalCallers /\ "ui" # "live"
  BY DEF HalCallers
<1>3. /\ todo' \in [HalCallers -> Seq(HalCalls)]
      /\ todo'["live"] = q /\ \A d \in HalCallers : d # "live" => todo'[d] = todo[d]
  <2>1. todo \in [HalCallers -> Seq(HalCalls)]
    BY DEF PowerInv, QueueInv
  <2> QED BY <1>0, <1>1, <1>2, <2>1
<1>4. \A h \in Hals : \A d \in owner[h] : todo'[d] = todo[d]
  <2>1. \A h \in Hals : owner[h] \subseteq HalCallers
    BY DEF PowerInv, PowerTypeOK
  <2> QED BY <1>1, <1>2, <1>3, <2>1, IdleOwnsNothing DEF PowerInv
<1>5. todo'["ui"] = todo["ui"]
  BY <1>2, <1>3
<1>6. QueueInv'
  <2>1. \A g \in Hals : \A d, e \in owner'[g] : d = e
    BY <1>1 DEF PowerInv, QueueInv
  <2>2. \A g \in Hals : \A d \in owner'[g] : todo'[d] # <<>> /\ todo'[d][1].hal = g /\ mInitialized'[g]
    BY <1>1, <1>4 DEF PowerInv, QueueInv
  <2>3. \A i \in DOMAIN todo'["ui"] :
          todo'["ui"][i].op = "update" => todo'["ui"][i].data = current'[todo'["ui"][i].hal]
    BY <1>1, <1>5 DEF PowerInv, QueueInv
  <2>4. \A i \in DOMAIN todo'["live"] : todo'["live"][i].op = "initialize"
    BY <1>0, <1>3
  <2> QED BY <1>3, <2>1, <2>2, <2>3, <2>4 DEF QueueInv
<1>7. PowerTypeOK'
  <2>1. StateOK'
    BY <1>1, StateTyped DEF StateOK
  <2> QED BY <1>6, <2>1, PowerTypeFrom
<1>8. NodesInv'
  BY <1>1, <1>4, NodesKept DEF PowerInv
<1>9. MergedInv'
  BY <1>1, <1>5 DEF PowerInv, MergedInv, Agree, Pending
<1> QED BY <1>6, <1>7, <1>8, <1>9 DEF PowerInv

LEMMA PowerNextStep == ASSUME PowerInv, [PowerNext]_powerVars PROVE PowerInv'
<1>1. CASE UiBegins \/ Settles
  <2>1. PICK q : UiActs(q)
    BY <1>1, UiActsSomehow DEF PowerInv
  <2> QED BY <2>1, UiStep
<1>2. CASE LiveBoots
  BY <1>2, LiveStep
<1>3. ASSUME NEW c \in HalCallers, PowerStep(c) PROVE PowerInv'
  BY <1>3, BeginsStep, WritesStep, EndsStep DEF PowerStep
<1>4. CASE UNCHANGED powerVars
  <2>1. UNCHANGED <<mInfo, mInitialized, content, owner, todo, current, isAutoSync, listening,
                    settling, reset, lost, updates, resets>>
    BY <1>4 DEF powerVars, bridgeNow, uiKeeps
  <2>2. PowerTypeOK' /\ QueueInv'
    BY <2>1 DEF PowerInv, PowerTypeOK, QueueInv
  <2>3. NodesInv'
    BY <2>1 DEF PowerInv, NodesInv
  <2>4. MergedInv'
    BY <2>1 DEF PowerInv, MergedInv, Agree, Pending
  <2> QED BY <2>2, <2>3, <2>4 DEF PowerInv
<1> QED BY <1>1, <1>2, <1>3, <1>4 DEF PowerNext

LEMMA PowerInitial == ASSUME PowerInit PROVE PowerInv
<1>1. PICK done \in BOOLEAN :
        /\ mInitialized = [h \in Hals |-> done] /\ listening = mInitialized
        /\ content = IF done THEN Synced(Factory)
                     ELSE [n \in {HostName(m) : m \in AllNodes} |-> Blank]
  BY DEF PowerInit
<1>2. /\ mInfo = Factory /\ current = Factory /\ owner = [h \in Hals |-> {}]
      /\ todo = [c \in HalCallers |-> <<>>] /\ isAutoSync = [h \in Hals |-> TRUE] /\ settling = 0
      /\ reset = [h \in Hals |-> FALSE] /\ lost = {} /\ updates = 0 /\ resets = 0
  BY DEF PowerInit
<1>3. DOMAIN Factory = Hals /\ \A h \in Hals : Factory[h] \in [Fields[h] -> Int]
  BY PowerAssumption
<1>4. \A h \in Hals : owner[h] = {}
  BY <1>2
<1>5. todo["ui"] = <<>> /\ todo["live"] = <<>> /\ DOMAIN todo["ui"] = {} /\ DOMAIN todo["live"] = {}
  <2>1. todo["ui"] = <<>> /\ todo["live"] = <<>>
    BY <1>2 DEF HalCallers
  <2> QED BY <2>1
<1>6. QueueInv
  <2>1. todo \in [HalCallers -> Seq(HalCalls)]
    BY <1>2
  <2> QED BY <1>4, <1>5, <2>1 DEF QueueInv
<1>7. DOMAIN content = {HostName(m) : m \in AllNodes}
  BY <1>1 DEF Synced
<1>8. PowerTypeOK
  <2>1. \A h \in Hals : Cardinality(owner[h]) <= 1
    BY <1>4, FewOwners
  <2>2. owner \in [Hals -> SUBSET HalCallers] /\ lost \subseteq AllNodes
    BY <1>2
  <2>3. /\ mInitialized \in [Hals -> BOOLEAN] /\ isAutoSync \in [Hals -> BOOLEAN]
        /\ listening \in [Hals -> BOOLEAN] /\ reset \in [Hals -> BOOLEAN]
    BY <1>1, <1>2
  <2>4. settling \in Nat /\ updates \in 0 .. MaxUpdates /\ resets \in 0 .. MaxResets
    BY <1>2, PowerAssumption
  <2> QED BY <1>2, <1>3, <1>7, <2>1, <2>2, <2>3, <2>4 DEF PowerTypeOK
<1>9. NodesInv
  <2>1. SUFFICES ASSUME NEW h \in Hals, mInitialized[h], NEW i \in 1 .. Len(NodesOf[h])
                 PROVE  content[HostName(NodesOf[h][i].node)] = Told(NodesOf[h][i].shows, mInfo[h])
    BY DEF NodesInv
  <2>2. done
    BY <1>1, <2>1
  <2>3. content = Synced(Factory)
    BY <1>1, <2>2
  <2> QED BY <1>2, <2>3, SyncedShows
<1>10. MergedInv
  BY <1>2 DEF MergedInv, Agree
<1> QED BY <1>6, <1>8, <1>9, <1>10 DEF PowerInv

LEMMA PowerSafe == ASSUME PowerInv PROVE GuestSeesWhatTheUserSees
<1>1. SUFFICES ASSUME NEW h \in Hals, owner[h] = {}, mInitialized[h], ~ reset[h],
                      \A i \in DOMAIN todo["ui"] : todo["ui"][i].hal # h,
                      NEW i \in DOMAIN NodesOf[h]
               PROVE  LET n == NodesOf[h][i]
                          seen == {f \in n.shows : ~ (f = "temp" /\ current[h][f] <= 0)}
                      IN n.node \in lost
                         \/ /\ Found(n.node) \in DOMAIN content
                            /\ Told(seen, content[Found(n.node)]) = Told(seen, current[h])
  BY DEF GuestSeesWhatTheUserSees
<1> DEFINE n == NodesOf[h][i]
           seen == {f \in n.shows : ~ (f = "temp" /\ current[h][f] <= 0)}
<1>2. Agree(h)
  BY <1>1 DEF PowerInv, MergedInv, Pending
<1>3. i \in 1 .. Len(NodesOf[h])
  BY <1>1, NodePlaces
<1>4. /\ Found(n.node) = HostName(n.node) /\ n.shows \subseteq Fields[h]
      /\ HostName(n.node) \in {HostName(x) : x \in AllNodes}
  BY <1>3, NodePlaces
<1>5. Found(n.node) \in DOMAIN content
  BY <1>4 DEF PowerInv, PowerTypeOK
<1>6. n.node \in lost \/ content[HostName(n.node)] = Told(n.shows, mInfo[h])
  BY <1>1, <1>3 DEF PowerInv, NodesInv
<1>7. ASSUME content[HostName(n.node)] = Told(n.shows, mInfo[h])
      PROVE  Told(seen, content[Found(n.node)]) = Told(seen, current[h])
  <2>1. \A f \in seen : f \in n.shows /\ f \in Fields[h] /\ mInfo[h][f] = current[h][f]
    BY <1>2, <1>4 DEF Agree
  <2>2. \A f \in seen : content[Found(n.node)][f] = current[h][f]
    BY <1>4, <1>7, <2>1 DEF Told
  <2> HIDE DEF seen, n
  <2> QED BY <2>2 DEF Told
<1> QED BY <1>5, <1>6, <1>7

-----------------------------------------------------------------------------
(* The names of the shared storage: whichever alias is used, the rules that match agree on    *)
(* the file, so that their order among themselves does not matter.                            *)

LEMMA LeastOf ==
  ASSUME NEW T, T \subseteq Nat, T # {}
  PROVE  \E x \in T : \A y \in T : x <= y
<1> DEFINE R == OpToRel(<, Nat)
<1>1. IsWellFoundedOn(R, Nat)
  BY NatLessThanWellFounded
<1>2. \A x, y \in Nat : x < y => <<x, y>> \in R
  BY DEF OpToRel
<1> HIDE DEF R
<1>3. PICK x \in T : \A y \in T : <<y, x>> \notin R
  BY <1>1, WFMin
<1>4. \A y \in T : ~(y < x)
  BY <1>2, <1>3
<1> QED BY <1>3, <1>4

\* What is left of a path behind its beginning.
LEMMA Parts ==
  ASSUME NEW s, NEW p, IsList(s), IsList(p), IsPrefix(s, p)
  PROVE  /\ IsList(Rest(s, p)) /\ p = s \o Rest(s, p)
         /\ s = p => Rest(s, p) = <<>>
         /\ s # p => Len(Rest(s, p)) >= 1 /\ Rest(s, p)[1] = p[Len(s) + 1]
<1> DEFINE S == {s[i] : i \in DOMAIN s} \cup {p[i] : i \in DOMAIN p}
           t == SubSeq(p, Len(s) + 1, Len(p))
<1>1. s \in Seq(S) /\ p \in Seq(S)
  <2>1. \A A, B : A \subseteq B => Seq(A) \subseteq Seq(B)
    BY SeqDef
  <2> QED BY <2>1 DEF IsList
<1> HIDE DEF S
<1>2. Len(s) \in Nat /\ Len(p) \in Nat /\ Len(s) <= Len(p)
  BY <1>1, LenProperties DEF IsPrefix
<1>3. /\ t \in Seq(S) /\ Len(t) = Len(p) - Len(s)
      /\ \A i \in 1 .. Len(t) : t[i] = p[Len(s) + i]
  BY <1>1, <1>2
<1>4. \A i \in 1 .. Len(s) : s[i] = p[i]
  BY PrefixAgrees
<1> DEFINE q == s \o t
<1>5. /\ q \in Seq(S) /\ Len(q) = Len(s) + Len(t)
      /\ \A i \in 1 .. Len(s) + Len(t) : q[i] = IF i <= Len(s) THEN s[i] ELSE t[i - Len(s)]
  BY <1>1, <1>3, ConcatProperties
<1> HIDE DEF t, q
<1>6. \A i \in 1 .. Len(p) : q[i] = p[i]
  <2> SUFFICES ASSUME NEW i \in 1 .. Len(p) PROVE q[i] = p[i]
    OBVIOUS
  <2>1. CASE i <= Len(s)
    BY <1>2, <1>3, <1>4, <1>5, <2>1
  <2>2. CASE ~(i <= Len(s))
    <3>1. i - Len(s) \in 1 .. Len(t) /\ Len(s) + (i - Len(s)) = i /\ i \in 1 .. Len(s) + Len(t)
      BY <1>2, <1>3, <2>2
    <3> QED BY <1>3, <1>5, <2>2, <3>1
  <2> QED BY <2>1, <2>2
<1>7. Len(q) = Len(p)
  BY <1>2, <1>3, <1>5
<1>8. q = p
  BY <1>1, <1>5, <1>6, <1>7, SeqEqual
<1>9. s = p => t = <<>>
  BY <1>2, <1>3, EmptySeq
<1>10. ASSUME s # p PROVE Len(t) >= 1 /\ t[1] = p[Len(s) + 1]
  <2>1. Len(t) # 0
    <3> SUFFICES ASSUME Len(t) = 0 PROVE FALSE
      OBVIOUS
    <3>1. Len(s) = Len(p)
      BY <1>2, <1>3
    <3> QED BY <1>1, <1>4, <1>10, <3>1, SeqEqual
  <2>2. Len(t) \in Nat
    BY <1>2, <1>3
  <2> QED BY <1>3, <2>1, <2>2
<1>11. IsList(t)
  BY <1>3, ListOf
<1> QED BY <1>8, <1>9, <1>10, <1>11 DEF Rest, t, q

Elems(s) == {s[i] : i \in DOMAIN s}

LEMMA ElemsJoin ==
  ASSUME NEW s, NEW t, IsList(s), IsList(t) PROVE Elems(s \o t) = Elems(s) \cup Elems(t)
<1> DEFINE p == s \o t
<1>1. /\ IsList(p) /\ Len(s) \in Nat /\ Len(t) \in Nat /\ Len(p) = Len(s) + Len(t)
      /\ \A i \in 1 .. Len(s) + Len(t) : p[i] = IF i <= Len(s) THEN s[i] ELSE t[i - Len(s)]
  BY ListJoin
<1> HIDE DEF p
<1>2. DOMAIN s = 1 .. Len(s) /\ DOMAIN t = 1 .. Len(t) /\ DOMAIN p = 1 .. Len(p)
  BY <1>1 DEF IsList
<1>3. ASSUME NEW i \in DOMAIN p PROVE p[i] \in Elems(s) \cup Elems(t)
  <2>1. CASE i <= Len(s)
    BY <1>1, <1>2, <2>1 DEF Elems
  <2>2. CASE ~(i <= Len(s))
    <3>1. i - Len(s) \in DOMAIN t
      BY <1>1, <1>2, <2>2
    <3> QED BY <1>1, <1>2, <2>2, <3>1 DEF Elems
  <2> QED BY <2>1, <2>2
<1>4. ASSUME NEW i \in DOMAIN s PROVE s[i] \in Elems(p)
  <2>1. i \in DOMAIN p /\ p[i] = s[i]
    BY <1>1, <1>2
  <2> QED BY <2>1 DEF Elems
<1>5. ASSUME NEW i \in DOMAIN t PROVE t[i] \in Elems(p)
  <2>1. Len(s) + i \in DOMAIN p /\ p[Len(s) + i] = t[i]
    <3>1. Len(s) + i \in 1 .. Len(s) + Len(t) /\ ~(Len(s) + i <= Len(s)) /\ (Len(s) + i) - Len(s) = i
      BY <1>1, <1>2
    <3> QED BY <1>1, <1>2, <3>1
  <2> QED BY <2>1 DEF Elems
<1>6. Elems(p) = Elems(s) \cup Elems(t)
  BY <1>3, <1>4, <1>5 DEF Elems
<1> QED BY <1>6 DEF p

\* Where a rule sends a path that it matches.
Target(rule, p) == Sandbox \o rule.to \o (IF rule.how = "keeps" THEN Rest(rule.from, p) ELSE <<>>)

LEMMA RedirectFirst ==
  ASSUME NEW p
  PROVE  \/ (\A r \in Elems(Rules) : ~ Matches(r, p)) /\ Redirect(p) = p
         \/ \E m \in DOMAIN Rules :
              /\ Matches(Rules[m], p) /\ \A i \in 1 .. m - 1 : ~ Matches(Rules[i], p)
              /\ Redirect(p) = Target(Rules[m], p)
<1> DEFINE hits == {i \in DOMAIN Rules : Matches(Rules[i], p)}
<1>1. DOMAIN Rules \subseteq Nat /\ \A m \in DOMAIN Rules : \A i \in 1 .. m - 1 : i \in DOMAIN Rules
  <2> DEFINE n == Len(Rules)
  <2>1. DOMAIN Rules = 1 .. n /\ n \in Nat
    BY RulesOfSys
  <2> HIDE DEF n
  <2>2. \A m \in 1 .. n : m \in Nat /\ \A i \in 1 .. m - 1 : i \in 1 .. n
    BY <2>1
  <2> QED BY <2>1, <2>2
<1>2. CASE hits = {}
  BY <1>2 DEF Redirect, Elems
<1>3. CASE hits # {}
  <2>1. hits \subseteq Nat
    BY <1>1
  <2>2. \E x \in hits : \A y \in hits : x <= y
    BY <1>3, <2>1, LeastOf
  <2>3. PICK m : m = Min(hits)
    OBVIOUS
  <2>4. m \in hits /\ \A y \in hits : m <= y
    BY <2>2, <2>3 DEF Min
  <2>5. ASSUME NEW i \in 1 .. m - 1 PROVE ~ Matches(Rules[i], p)
    <3>1. i \in DOMAIN Rules /\ ~(m <= i)
      BY <1>1, <2>1, <2>4
    <3> QED BY <2>4, <3>1
  <2>6. Redirect(p) = Target(Rules[m], p)
    BY <1>3, <2>3 DEF Redirect, Target
  <2> QED BY <2>4, <2>5, <2>6
<1> QED BY <1>2, <1>3

\* A name outside the shared storage, and a rule that has nothing to do with it.
Foreign(f) == IsList(f) /\ 1 \in 1 .. Len(f) /\ f[1] \in {"/proc", "/dev", "/etc", "/sys", "/tmp"}
Elsewhere(r) == Foreign(r.from) /\ Foreign(r.to)

LEMMA ForeignNames ==
  /\ \A n : Foreign(Dev(n)) /\ Foreign(Socket(n)) /\ Foreign(Tmp(n))
  /\ \A n, m : Foreign(Dev(n) \o <<m>>) /\ Foreign(Socket(n) \o <<m>>)
  /\ Foreign(Power) /\ Foreign(Iio)
  /\ \A a : Foreign(<<"/proc", a>>) /\ Foreign(<<"/etc", a>>)
  /\ \A a, b : Foreign(<<"/dev", a, b>>)
  /\ Foreign(<<"/sys", "/devices", "/virtual", "/power_supply">>)
<1>1. \A a, b : IsList(<<a, b>>) /\ Len(<<a, b>>) = 2 /\ <<a, b>>[1] = a
  BY ListOf2
<1>2. \A a, b, c : IsList(<<a, b, c>>) /\ Len(<<a, b, c>>) = 3 /\ <<a, b, c>>[1] = a
  BY ListOf3
<1>3. \A a, b, c, d : IsList(<<a, b, c, d>>) /\ Len(<<a, b, c, d>>) = 4 /\ <<a, b, c, d>>[1] = a
  BY ListOf4
<1>4. \A n : Foreign(Dev(n)) /\ Foreign(Socket(n)) /\ Foreign(Tmp(n))
  BY <1>1, <1>2 DEF Foreign, Dev, Socket, Tmp
<1>5. ASSUME NEW f, Foreign(f), NEW m PROVE Foreign(f \o <<m>>)
  <2>1. PICK t : t = <<m>>
    OBVIOUS
  <2>2. IsList(t) /\ Len(t) = 1
    BY <2>1, ListOf1
  <2>3. /\ IsList(f \o t) /\ Len(f) \in Nat /\ Len(f \o t) = Len(f) + 1
        /\ \A i \in 1 .. Len(f) + 1 : (f \o t)[i] = IF i <= Len(f) THEN f[i] ELSE t[i - Len(f)]
    BY <1>5, <2>2, ListJoin DEF Foreign
  <2>4. 1 \in 1 .. Len(f)
    BY <1>5 DEF Foreign
  <2>5. 1 \in 1 .. Len(f) + 1 /\ 1 <= Len(f)
    BY <2>3, <2>4
  <2>6. (f \o t)[1] = f[1] /\ 1 \in 1 .. Len(f \o t)
    BY <2>3, <2>5
  <2> QED BY <1>5, <2>1, <2>3, <2>6 DEF Foreign
<1>6. Foreign(Power) /\ Foreign(<<"/sys", "/devices", "/virtual", "/power_supply">>) /\ Foreign(Iio)
  BY <1>2, <1>3 DEF Foreign, Power, Iio
<1>7. /\ \A a : Foreign(<<"/proc", a>>) /\ Foreign(<<"/etc", a>>)
      /\ \A a, b : Foreign(<<"/dev", a, b>>)
  BY <1>1, <1>2 DEF Foreign
<1> QED BY <1>4, <1>5, <1>6, <1>7

\* All the rules but those of the storage.
LEMMA ElsewhereRules ==
  \A r \in Elems(ProcAndDevRules) \cup Elems(SysRules) \cup Elems(VideoRules) \cup Elems(NodeRules) :
    Elsewhere(r)
<1>1. \A f, t : Foreign(f) /\ Foreign(t) =>
        /\ Elsewhere(Is(f, t)) /\ Elsewhere(Starts(f, t))
        /\ Elsewhere(Drops(f, t)) /\ Elsewhere(Keeps(f, t))
  BY DEF Elsewhere, Is, Starts, Drops, Keeps
<1>2. Foreign(Logdw) /\ Foreign(Logdr)
  BY ForeignNames DEF Logdw, Logdr
<1>3. \A r \in Elems(ProcAndDevRules) : Elsewhere(r)
  <2>0. \A f, t : /\ Is(f, t).from = f /\ Starts(f, t).from = f /\ Drops(f, t).from = f
                 /\ Is(f, t).to = t /\ Starts(f, t).to = t /\ Drops(f, t).to = t
    BY DEF Is, Starts, Drops
  <2>1. \A i \in 1 .. 16 : Elsewhere(ProcAndDevRules[i])
    <3>1. /\ \A n : Foreign(Dev(n)) /\ Foreign(Socket(n)) /\ Foreign(Tmp(n))
          /\ Foreign(<<"/proc", "/cmdline">>) /\ Foreign(<<"/dev", "/graphics", "/fb0">>)
          /\ Foreign(<<"/etc", "/resolv.conf">>) /\ Foreign(<<"/etc", "/hosts">>)
      BY ForeignNames
    <3>2. \A i \in 1 .. 16 : \E f : Foreign(f) /\ ProcAndDevRules[i].from = f
      BY <1>2, <2>0, <3>1 DEF ProcAndDevRules
    <3>3. \A i \in 1 .. 16 : \E f : Foreign(f) /\ ProcAndDevRules[i].to = f
      BY <1>2, <2>0, <3>1 DEF ProcAndDevRules
    <3> QED BY <3>2, <3>3 DEF Elsewhere
  <2>2. DOMAIN ProcAndDevRules = 1 .. 16
    BY DEF ProcAndDevRules
  <2> QED BY <2>1, <2>2 DEF Elems
<1>4. \A r \in Elems(SysRules) : Elsewhere(r)
  <2>1. \A i \in 1 .. 3 : Elsewhere(SysRules[i])
    BY <1>1, ForeignNames DEF SysRules
  <2>2. DOMAIN SysRules = 1 .. 3
    BY DEF SysRules
  <2> QED BY <2>1, <2>2 DEF Elems
<1>5. \A r \in Elems(VideoRules) : Elsewhere(r)
  <2>1. \A i \in 1 .. 3 : Elsewhere(VideoRules[i])
    BY <1>1, ForeignNames DEF VideoRules
  <2>2. DOMAIN VideoRules = 1 .. 3
    BY DEF VideoRules
  <2> QED BY <2>1, <2>2 DEF Elems
<1>6. \A r \in Elems(NodeRules) : Elsewhere(r)
  <2> DEFINE wholes == <<<<"/proc", "/mounts">>, Socket("/rild"), Socket("/rild") \o <<"-debug">>,
                         Socket("/wpa_wlan0")>>
             nodes == [i \in DOMAIN Nodes |-> Is(Dev(Nodes[i]), Tmp(Nodes[i]))]
             others == <<Is(Dev("/qfp-nodisplay"), Tmp("/fingerprint")),
                         Is(Dev("/esfp0"), Tmp("/fingerprint")),
                         Is(<<"/dev", "/dri", "/card0">>, Tmp("/card0")),
                         Is(<<"/dev", "/dri", "/renderD128">>, Tmp("/renderD128"))>>
  <2>1. DOMAIN wholes = 1 .. 4 /\ \A i \in 1 .. 4 : Foreign(wholes[i])
    <3>1. /\ Foreign(<<"/proc", "/mounts">>) /\ Foreign(Socket("/rild"))
          /\ Foreign(Socket("/rild") \o <<"-debug">>) /\ Foreign(Socket("/wpa_wlan0"))
      BY ForeignNames
    <3>2. \A a, b, c, d : Foreign(a) /\ Foreign(b) /\ Foreign(c) /\ Foreign(d) =>
            DOMAIN <<a, b, c, d>> = 1 .. 4 /\ \A i \in 1 .. 4 : Foreign(<<a, b, c, d>>[i])
      OBVIOUS
    <3> QED BY <3>1, <3>2
  <2>2. IsList(Whole(wholes)) /\ \A r \in Elems(Whole(wholes)) : Elsewhere(r)
    <3> HIDE DEF wholes
    <3> QED BY <1>1, <2>1, ListOfFunction DEF Whole, Elems
  <2>3. DOMAIN Nodes = 1 .. 12
    BY DEF Nodes
  <2>4. IsList(nodes) /\ \A r \in Elems(nodes) : Elsewhere(r)
    BY <1>1, <2>3, ForeignNames, ListOfFunction DEF Elems
  <2>5. IsList(others)
    BY ListOf4
  <2>6. \A i \in 1 .. 4 : Elsewhere(others[i])
    BY <1>1, ForeignNames
  <2>7. DOMAIN others = 1 .. 4
    OBVIOUS
  <2> HIDE DEF wholes, nodes, others
  <2>8. \A r \in Elems(others) : Elsewhere(r)
    BY <2>6, <2>7 DEF Elems
  <2>9. NodeRules = (Whole(wholes) \o nodes) \o others
    BY DEF NodeRules, wholes, nodes, others
  <2>10. /\ IsList(Whole(wholes) \o nodes)
         /\ Elems(Whole(wholes) \o nodes) = Elems(Whole(wholes)) \cup Elems(nodes)
    BY <2>2, <2>4, ListJoin, ElemsJoin
  <2>11. Elems(NodeRules) = Elems(Whole(wholes)) \cup Elems(nodes) \cup Elems(others)
    BY <2>5, <2>9, <2>10, ElemsJoin
  <2> QED BY <2>2, <2>4, <2>8, <2>11
<1> QED BY <1>3, <1>4, <1>5, <1>6

\* The two rules of an alias of the storage.
Both(f, t) == {Is(f, t), Keeps(f, t)}

LEMMA StorageElems ==
  Elems(StorageRules) =
    Both(<<"/sdcard">>, Media0) \cup Both(Emulated \o <<"/0">>, Media0)
    \cup Both(<<"/storage", "/self", "/primary">>, Media0)
    \cup Both(Media0, Media0) \cup Both(Media, Media) \cup Both(Emulated, Media)
<1> DEFINE both(from, to) == <<Is(from, to), Keeps(from, to)>>
<1>1. \A from, to : IsList(both(from, to)) /\ Elems(both(from, to)) = Both(from, to)
  <2> SUFFICES ASSUME NEW from, NEW to
               PROVE  IsList(both(from, to)) /\ Elems(both(from, to)) = Both(from, to)
    OBVIOUS
  <2>1. \A x, y : Elems(<<x, y>>) = {x, y}
    <3> SUFFICES ASSUME NEW x, NEW y PROVE Elems(<<x, y>>) = {x, y}
      OBVIOUS
    <3>1. DOMAIN <<x, y>> = {1, 2} /\ <<x, y>>[1] = x /\ <<x, y>>[2] = y
      OBVIOUS
    <3> QED BY <3>1 DEF Elems
  <2>2. \A x, y : IsList(<<x, y>>)
    BY ListOf2
  <2> QED BY <2>1, <2>2 DEF Both
<1> HIDE DEF both
<1>2. \A s, t : IsList(s) /\ IsList(t) => IsList(s \o t) /\ Elems(s \o t) = Elems(s) \cup Elems(t)
  BY ListJoin, ElemsJoin
<1>3. ASSUME NEW a, NEW b, NEW c, NEW d, NEW e, NEW f,
             IsList(a), IsList(b), IsList(c), IsList(d), IsList(e), IsList(f)
      PROVE  Elems(a \o b \o c \o d \o e \o f) =
               Elems(a) \cup Elems(b) \cup Elems(c) \cup Elems(d) \cup Elems(e) \cup Elems(f)
  <2>1. IsList(a \o b) /\ Elems(a \o b) = Elems(a) \cup Elems(b)
    BY <1>2, <1>3
  <2>2. IsList(a \o b \o c) /\ Elems(a \o b \o c) = Elems(a \o b) \cup Elems(c)
    BY <1>2, <1>3, <2>1
  <2>3. IsList(a \o b \o c \o d) /\ Elems(a \o b \o c \o d) = Elems(a \o b \o c) \cup Elems(d)
    BY <1>2, <1>3, <2>2
  <2>4. IsList(a \o b \o c \o d \o e) /\ Elems(a \o b \o c \o d \o e) = Elems(a \o b \o c \o d) \cup Elems(e)
    BY <1>2, <1>3, <2>3
  <2>5. Elems(a \o b \o c \o d \o e \o f) = Elems(a \o b \o c \o d \o e) \cup Elems(f)
    BY <1>2, <1>3, <2>4
  <2> QED BY <2>1, <2>2, <2>3, <2>4, <2>5
<1>4. StorageRules =
        both(<<"/sdcard">>, Media0) \o both(Emulated \o <<"/0">>, Media0)
        \o both(<<"/storage", "/self", "/primary">>, Media0)
        \o both(Media0, Media0) \o both(Media, Media) \o both(Emulated, Media)
  BY DEF StorageRules, both
<1> QED BY <1>1, <1>3, <1>4

LEMMA AllRules ==
  \A r : r \in Elems(Rules) <=> r \in Elems(ProcAndDevRules) \cup Elems(SysRules) \cup Elems(VideoRules)
                                     \cup Elems(StorageRules) \cup Elems(NodeRules)
<1>b. PICK b : b = ProcAndDevRules \o SysRules
  OBVIOUS
<1>c. PICK c : c = b \o VideoRules
  OBVIOUS
<1>d. PICK d : d = c \o StorageRules
  OBVIOUS
<1>1. IsList(b) /\ Elems(b) = Elems(ProcAndDevRules) \cup Elems(SysRules)
  BY <1>b, Lists, ProcAndDev, ListJoin, ElemsJoin
<1>2. IsList(c) /\ Elems(c) = Elems(b) \cup Elems(VideoRules)
  BY <1>1, <1>c, Lists, ListJoin, ElemsJoin
<1>3. IsList(d) /\ Elems(d) = Elems(c) \cup Elems(StorageRules)
  BY <1>2, <1>d, Lists, ListJoin, ElemsJoin
<1>4. Elems(Rules) = Elems(d) \cup Elems(NodeRules)
  BY <1>3, <1>b, <1>c, <1>d, Lists, ElemsJoin DEF Rules
<1> QED BY <1>1, <1>2, <1>3, <1>4

\* The file of the sandbox a rule names.
Sends(r, p) == r.to \o (IF r.how = "keeps" THEN Rest(r.from, p) ELSE <<>>)

\* No piece or one that begins a name.
AtMostOne(s) == s = <<>> \/ (Len(s) = 1 /\ s[1] \notin Tails)

\* Where a rule for part of a mounted directory sends what it matches.
LEMMA MountRule ==
  ASSUME NEW at, NEW of, NEW s, NEW p, IsList(at), IsList(of), IsList(s), IsList(p),
         AtMostOne(s),
         NEW r \in Both(at \o s, of \o s), Matches(r, p)
  PROVE  /\ at = p \/ Inside(at, p)
         /\ Sends(r, p) = of \o Rest(at, p)
<1> DEFINE f == at \o s
           v == IF r.how = "keeps" THEN Rest(r.from, p) ELSE <<>>
<1>1. r.from = f /\ r.to = of \o s /\ (r.how = "is" \/ r.how = "keeps")
  BY DEF Both, Is, Keeps
<1>2. IsList(f)
  BY ListJoin
<1>3. IsList(<<>>) /\ Len(<<>>) = 0
  BY EmptySeq, ListOf
<1> HIDE DEF f
<1>4. IsList(v) /\ p = f \o v /\ (v = <<>> \/ (Len(v) >= 1 /\ v[1] \notin Tails))
  <2>1. CASE r.how = "is"
    <3>1. p = f /\ v = <<>>
      BY <1>1, <2>1 DEF Matches
    <3>2. f \o <<>> = f
      BY <1>2, ConcatEmptySeq DEF IsList
    <3> QED BY <1>3, <3>1, <3>2
  <2>2. CASE r.how = "keeps"
    <3>1. Inside(f, p) /\ v = Rest(f, p)
      BY <1>1, <2>2 DEF Matches
    <3>2. IsPrefix(f, p) /\ f # p /\ p[Len(f) + 1] \notin Tails
      BY <3>1 DEF Inside, IsStrictPrefix
    <3> HIDE DEF v
    <3>3. IsList(v) /\ p = f \o v /\ Len(v) >= 1 /\ v[1] = p[Len(f) + 1]
      BY <1>2, <3>1, <3>2, Parts
    <3> QED BY <3>2, <3>3
  <2> QED BY <1>1, <2>1, <2>2
<1>5. r.to \o v = (of \o s) \o v
  BY <1>1
<1> HIDE DEF v
<1> DEFINE w == s \o v
<1>6. IsList(w) /\ p = at \o w /\ r.to \o v = of \o w
  <2>1. IsList(w)
    BY <1>4, ListJoin
  <2>2. (at \o s) \o v = at \o w /\ (of \o s) \o v = of \o w
    <3>1. IsList(v)
      BY <1>4
    <3>2. (at \o s) \o v = at \o w
      <4>1. (at \o s) \o v = at \o (s \o v)
        BY <3>1, ListAssociative
      <4> QED BY <4>1 DEF w
    <3>3. (of \o s) \o v = of \o w
      <4>1. (of \o s) \o v = of \o (s \o v)
        BY <3>1, ListAssociative
      <4> QED BY <4>1 DEF w
    <3> QED BY <3>2, <3>3
  <2>3. p = (at \o s) \o v
    BY <1>4 DEF f
  <2> HIDE DEF w
  <2> QED BY <1>5, <2>1, <2>2, <2>3
<1>7. w = <<>> \/ (Len(w) >= 1 /\ w[1] \notin Tails)
  <2>1. CASE s = <<>>
    <3>1. w = v
      BY <1>4, <2>1, ConcatEmptySeq DEF IsList
    <3> QED BY <1>4, <3>1
  <2>2. CASE Len(s) = 1 /\ s[1] \notin Tails
    <3>1. /\ Len(s) \in Nat /\ Len(v) \in Nat /\ Len(w) = Len(s) + Len(v)
          /\ \A i \in 1 .. Len(s) + Len(v) : w[i] = IF i <= Len(s) THEN s[i] ELSE v[i - Len(s)]
      BY <1>4, ListJoin
    <3> HIDE DEF w
    <3>2. 1 \in 1 .. Len(s) + Len(v) /\ Len(w) >= 1 /\ 1 <= Len(s)
      BY <2>2, <3>1
    <3>3. w[1] = s[1]
      BY <3>1, <3>2
    <3> QED BY <2>2, <3>2, <3>3
  <2> QED BY <2>1, <2>2 DEF AtMostOne
<1> HIDE DEF w
<1>8. IsPrefix(at, p) /\ Rest(at, p) = w
  BY <1>6, ListTail
<1>9. at = p \/ Inside(at, p)
  <2>1. CASE w = <<>>
    <3>1. at \o <<>> = at
      BY ConcatEmptySeq DEF IsList
    <3> QED BY <1>6, <2>1, <3>1
  <2>2. CASE Len(w) >= 1 /\ w[1] \notin Tails
    <3>1. /\ Len(at) \in Nat /\ Len(w) \in Nat /\ Len(p) = Len(at) + Len(w)
          /\ \A i \in 1 .. Len(at) + Len(w) : p[i] = IF i <= Len(at) THEN at[i] ELSE w[i - Len(at)]
      BY <1>6, ListJoin
    <3>2. /\ Len(p) # Len(at) /\ Len(at) + 1 \in 1 .. Len(at) + Len(w)
          /\ ~(Len(at) + 1 <= Len(at)) /\ (Len(at) + 1) - Len(at) = 1
      BY <2>2, <3>1
    <3>3. p[Len(at) + 1] = w[1]
      BY <3>1, <3>2
    <3> QED BY <1>8, <2>2, <3>2, <3>3 DEF Inside, IsStrictPrefix
  <2> QED BY <1>7, <2>1, <2>2
<1> QED BY <1>6, <1>8, <1>9 DEF v, Sends

Mount(at, of) == [at |-> at, of |-> of]

LEMMA MountsAre ==
  /\ ToSet(Mounts) = {Mount(<<"/sdcard">>, Media0), Mount(<<"/storage", "/self", "/primary">>, Media0),
                      Mount(Emulated, Media), Mount(Media, Media)}
  /\ \A at, of : Mount(at, of).at = at /\ Mount(at, of).of = of
  /\ IsList(<<"/sdcard">>) /\ IsList(<<"/storage", "/self", "/primary">>)
  /\ IsList(Emulated) /\ IsList(Media) /\ IsList(Media0) /\ IsList(<<"/0">>) /\ Len(<<"/0">>) = 1
<1>1. \A a, b, c, d : {<<a, b, c, d>>[i] : i \in DOMAIN <<a, b, c, d>>} = {a, b, c, d}
  <2> SUFFICES ASSUME NEW a, NEW b, NEW c, NEW d
               PROVE  {<<a, b, c, d>>[i] : i \in DOMAIN <<a, b, c, d>>} = {a, b, c, d}
    OBVIOUS
  <2>1. PICK s : s = <<a, b, c, d>>
    OBVIOUS
  <2>2. DOMAIN s = {1, 2, 3, 4} /\ s[1] = a /\ s[2] = b /\ s[3] = c /\ s[4] = d
    BY <2>1
  <2>3. {s[i] : i \in DOMAIN s} = {a, b, c, d}
    BY <2>2
  <2> QED BY <2>1, <2>3
<1>2. IsList(<<"/sdcard">>) /\ IsList(<<"/storage", "/self", "/primary">>)
  BY ListOf1, ListOf3
<1>3. IsList(Emulated) /\ IsList(Media) /\ IsList(<<"/0">>) /\ Len(<<"/0">>) = 1
  BY ListOf1, ListOf2 DEF Emulated, Media
<1>4. IsList(Media0)
  BY <1>3, ListJoin DEF Media0
<1>5. ToSet(Mounts) = {Mount(<<"/sdcard">>, Media0), Mount(<<"/storage", "/self", "/primary">>, Media0),
                       Mount(Emulated, Media), Mount(Media, Media)}
  <2>1. Mounts = <<Mount(<<"/sdcard">>, Media0), Mount(<<"/storage", "/self", "/primary">>, Media0),
                   Mount(Emulated, Media), Mount(Media, Media)>>
    BY DEF Mounts, Mount
  <2>2. ToSet(Mounts) = {Mounts[i] : i \in DOMAIN Mounts}
    BY DEF ToSet
  <2> QED BY <1>1, <2>1, <2>2
<1> QED BY <1>2, <1>3, <1>4, <1>5 DEF Mount

\* The places at which the shared storage is mounted, of which a name is in one at most.
Mounted(x, p) == x.at = p \/ Inside(x.at, p)

LEMMA OneMount ==
  ASSUME NEW p, IsList(p), NEW x \in ToSet(Mounts), Mounted(x, p)
  PROVE  /\ p[1] \in {"/sdcard", "/storage", "/data"}
         /\ \A y \in ToSet(Mounts) : Mounted(y, p) => y = x
<1>1. \A y \in ToSet(Mounts) : /\ IsList(y.at) /\ (Mounted(y, p) => IsPrefix(y.at, p))
  <2> SUFFICES ASSUME NEW y \in ToSet(Mounts)
               PROVE  IsList(y.at) /\ (Mounted(y, p) => IsPrefix(y.at, p))
    OBVIOUS
  <2>1. IsList(y.at)
    BY MountsAre
  <2>2. ASSUME y.at = p PROVE IsPrefix(y.at, p)
    BY <2>1, <2>2 DEF IsPrefix, IsList
  <2>3. ASSUME Inside(y.at, p) PROVE IsPrefix(y.at, p)
    BY <2>3 DEF Inside, IsStrictPrefix
  <2> QED BY <2>1, <2>2, <2>3 DEF Mounted
<1>2. \A y \in ToSet(Mounts) : Mounted(y, p) => \A i \in 1 .. Len(y.at) : y.at[i] = p[i]
  BY <1>1, PrefixAgrees
<1> DEFINE sd == Mount(<<"/sdcard">>, Media0)
           pr == Mount(<<"/storage", "/self", "/primary">>, Media0)
           em == Mount(Emulated, Media)
           me == Mount(Media, Media)
<1>3. /\ 1 \in 1 .. Len(sd.at) /\ sd.at[1] = "/sdcard"
      /\ 1 \in 1 .. Len(pr.at) /\ 2 \in 1 .. Len(pr.at) /\ pr.at[1] = "/storage" /\ pr.at[2] = "/self"
      /\ 1 \in 1 .. Len(em.at) /\ 2 \in 1 .. Len(em.at) /\ em.at[1] = "/storage" /\ em.at[2] = "/emulated"
      /\ 1 \in 1 .. Len(me.at) /\ me.at[1] = "/data"
  BY ListOf1, ListOf2, ListOf3 DEF Mount, Emulated, Media
<1>4. ToSet(Mounts) = {sd, pr, em, me}
  BY MountsAre
<1> HIDE DEF sd, pr, em, me
<1>5. /\ Mounted(sd, p) => p[1] = "/sdcard"
      /\ Mounted(pr, p) => p[1] = "/storage" /\ p[2] = "/self"
      /\ Mounted(em, p) => p[1] = "/storage" /\ p[2] = "/emulated"
      /\ Mounted(me, p) => p[1] = "/data"
  BY <1>2, <1>3, <1>4
<1> QED BY <1>4, <1>5

\* A rule of the storage that matches a name sends it to the file the name stands for.
LEMMA StorageRight ==
  ASSUME NEW p, IsList(p), NEW r \in Elems(StorageRules), Matches(r, p)
  PROVE  \E x \in ToSet(Mounts) :
           /\ Mounted(x, p)
           /\ Sends(r, p) = x.of \o Rest(x.at, p)
<1> DEFINE Sent(x) ==
             /\ Mounted(x, p)
             /\ Sends(r, p) = x.of \o Rest(x.at, p)
<1>1. \A at, of : IsList(at) /\ IsList(of) /\ r \in Both(at, of) => Sent(Mount(at, of))
  <2> SUFFICES ASSUME NEW at, NEW of, IsList(at), IsList(of), r \in Both(at, of)
               PROVE  Sent(Mount(at, of))
    OBVIOUS
  <2>1. PICK s : s = <<>>
    OBVIOUS
  <2>2. IsList(s) /\ at \o s = at /\ of \o s = of
    BY <2>1, EmptySeq, ListOf, ConcatEmptySeq DEF IsList
  <2>3. r \in Both(at \o s, of \o s)
    BY <2>1, <2>2
  <2>4. AtMostOne(s)
    BY <2>1 DEF AtMostOne
  <2> HIDE DEF Sent
  <2>5. /\ at = p \/ Inside(at, p)
        /\ Sends(r, p) = of \o Rest(at, p)
    BY <2>2, <2>3, <2>4, MountRule, Zenon
  <2> QED BY <2>5, MountsAre DEF Mounted, Sent
<1>2. \A at, of : IsList(at) /\ IsList(of) /\ r \in Both(at \o <<"/0">>, of \o <<"/0">>) =>
        Sent(Mount(at, of))
  <2> SUFFICES ASSUME NEW at, NEW of, IsList(at), IsList(of), r \in Both(at \o <<"/0">>, of \o <<"/0">>)
               PROVE  Sent(Mount(at, of))
    OBVIOUS
  <2>1. PICK s : s = <<"/0">>
    OBVIOUS
  <2>2. IsList(s) /\ AtMostOne(s)
    BY <2>1, ListOf1, TailsAssumption DEF AtMostOne
  <2>3. r \in Both(at \o s, of \o s)
    BY <2>1, <2>2
  <2>4. /\ at = p \/ Inside(at, p)
        /\ Sends(r, p) = of \o Rest(at, p)
    BY <2>1, <2>2, <2>3, MountRule
  <2> QED BY <2>4, MountsAre DEF Mounted
<1> HIDE DEF Sent
<1>3. \E x \in ToSet(Mounts) : Sent(x)
  <2>1. \/ r \in Both(<<"/sdcard">>, Media0) \/ r \in Both(Emulated \o <<"/0">>, Media0)
        \/ r \in Both(<<"/storage", "/self", "/primary">>, Media0)
        \/ r \in Both(Media0, Media0) \/ r \in Both(Media, Media) \/ r \in Both(Emulated, Media)
    BY StorageElems
  <2>2. CASE r \in Both(<<"/sdcard">>, Media0)
    BY <1>1, <2>2, MountsAre
  <2>3. CASE r \in Both(Emulated \o <<"/0">>, Media0)
    BY <1>2, <2>3, MountsAre DEF Media0
  <2>4. CASE r \in Both(<<"/storage", "/self", "/primary">>, Media0)
    BY <1>1, <2>4, MountsAre
  <2>5. CASE r \in Both(Media0, Media0)
    BY <1>2, <2>5, MountsAre DEF Media0
  <2>6. CASE r \in Both(Media, Media)
    BY <1>1, <2>6, MountsAre
  <2>7. CASE r \in Both(Emulated, Media)
    BY <1>1, <2>7, MountsAre
  <2> QED BY <2>1, <2>2, <2>3, <2>4, <2>5, <2>6, <2>7
<1> QED BY <1>3 DEF Sent

\* Every name of the storage has a rule.
LEMMA StorageFound ==
  ASSUME NEW p, NEW x \in ToSet(Mounts), Mounted(x, p)
  PROVE  \E r \in Elems(StorageRules) : Matches(r, p)
<1>1. Both(x.at, x.of) \subseteq Elems(StorageRules)
  <2>1. \/ x = Mount(<<"/sdcard">>, Media0) \/ x = Mount(<<"/storage", "/self", "/primary">>, Media0)
        \/ x = Mount(Emulated, Media) \/ x = Mount(Media, Media)
    BY MountsAre
  <2> QED BY <2>1, MountsAre, StorageElems
<1>2. Is(x.at, x.of) \in Both(x.at, x.of) /\ Keeps(x.at, x.of) \in Both(x.at, x.of)
  BY DEF Both
<1>3. ASSUME x.at = p PROVE Matches(Is(x.at, x.of), p)
  BY <1>3 DEF Matches, Is
<1>4. ASSUME Inside(x.at, p) PROVE Matches(Keeps(x.at, x.of), p)
  BY <1>4 DEF Matches, Keeps
<1> QED BY <1>1, <1>2, <1>3, <1>4 DEF Mounted

LEMMA RulesAreLists == \A r \in Elems(Rules) : IsList(r.from) /\ IsList(r.to)
<1>1. \A r : Elsewhere(r) => IsList(r.from) /\ IsList(r.to)
  BY DEF Elsewhere, Foreign
<1>2. \A f, t : IsList(f) /\ IsList(t) => \A r \in Both(f, t) : IsList(r.from) /\ IsList(r.to)
  BY DEF Both, Is, Keeps
<1>3. IsList(Emulated \o <<"/0">>)
  BY MountsAre, ListJoin
<1>4. \A r \in Elems(StorageRules) : IsList(r.from) /\ IsList(r.to)
  <2> SUFFICES ASSUME NEW r \in Elems(StorageRules) PROVE IsList(r.from) /\ IsList(r.to)
    OBVIOUS
  <2>1. \/ r \in Both(<<"/sdcard">>, Media0) \/ r \in Both(Emulated \o <<"/0">>, Media0)
        \/ r \in Both(<<"/storage", "/self", "/primary">>, Media0)
        \/ r \in Both(Media0, Media0) \/ r \in Both(Media, Media) \/ r \in Both(Emulated, Media)
    BY StorageElems
  <2> QED BY <1>2, <1>3, <2>1, MountsAre
<1> QED BY <1>1, <1>4, AllRules, ElsewhereRules

LEMMA SandboxInFront ==
  ASSUME NEW a, NEW b, IsList(a), IsList(b)
  PROVE  (Sandbox \o a) \o b = Sandbox \o (a \o b)
<1>1. IsList(Sandbox)
  BY ListOf1 DEF Sandbox
<1> HIDE DEF Sandbox
<1> QED BY <1>1, ListAssociative

LEMMA TargetIs ==
  ASSUME NEW r, NEW p, IsList(r.from), IsList(r.to), IsList(p), Matches(r, p)
  PROVE  /\ IsList(Sends(r, p)) /\ Target(r, p) = Sandbox \o Sends(r, p)
         /\ 1 \in 1 .. Len(r.to) => 1 \in 1 .. Len(Sends(r, p)) /\ Sends(r, p)[1] = r.to[1]
<1> DEFINE v == IF r.how = "keeps" THEN Rest(r.from, p) ELSE <<>>
           to == r.to
<1>1. IsList(v)
  <2>1. CASE r.how = "keeps"
    <3>1. Inside(r.from, p)
      BY <2>1 DEF Matches
    <3> QED BY <2>1, <3>1, Parts DEF Inside, IsStrictPrefix
  <2>2. CASE r.how # "keeps"
    <3>1. IsList(<<>>)
      BY EmptySeq, ListOf
    <3> QED BY <2>2, <3>1
  <2> QED BY <2>1, <2>2
<1>2. Target(r, p) = (Sandbox \o to) \o v /\ Sends(r, p) = to \o v
  BY DEF Target, Sends
<1>3. IsList(Sandbox) /\ IsList(to)
  BY ListOf1 DEF Sandbox
<1> HIDE DEF v, to
<1>4. (Sandbox \o to) \o v = Sandbox \o (to \o v)
  BY <1>1, <1>3, SandboxInFront
<1>5. /\ IsList(to \o v) /\ Len(to) \in Nat /\ Len(v) \in Nat /\ Len(to \o v) = Len(to) + Len(v)
      /\ \A i \in 1 .. Len(to) + Len(v) : (to \o v)[i] = IF i <= Len(to) THEN to[i] ELSE v[i - Len(to)]
  BY <1>1, <1>3, ListJoin
<1>6. ASSUME 1 \in 1 .. Len(to) PROVE 1 \in 1 .. Len(to \o v) /\ (to \o v)[1] = to[1]
  <2> DEFINE m == Len(to)
             n == Len(v)
  <2>1. m \in Nat /\ n \in Nat /\ 1 \in 1 .. m
    BY <1>5, <1>6
  <2> HIDE DEF m, n
  <2>2. 1 \in 1 .. m + n /\ 1 <= m
    BY <2>1
  <2> QED BY <1>5, <2>2 DEF m, n
<1> QED BY <1>2, <1>4, <1>5, <1>6 DEF to

LEMMA InSandbox ==
  ASSUME NEW s, IsList(s)
  PROVE  /\ IsList(Sandbox \o s) /\ Len(Sandbox \o s) = Len(s) + 1 /\ Len(s) \in Nat
         /\ (Sandbox \o s)[1] = "$" /\ \A i \in 1 .. Len(s) : (Sandbox \o s)[i + 1] = s[i]
<1> DEFINE u == Sandbox \o s
           n == Len(s)
<1>1. IsList(Sandbox) /\ Len(Sandbox) = 1 /\ Sandbox[1] = "$"
  BY ListOf1 DEF Sandbox
<1>2. /\ IsList(u) /\ n \in Nat /\ Len(u) = Len(Sandbox) + n
      /\ \A i \in 1 .. Len(Sandbox) + n : u[i] = IF i <= Len(Sandbox) THEN Sandbox[i] ELSE s[i - Len(Sandbox)]
  BY <1>1, ListJoin
<1> HIDE DEF u, n
<1>3. Len(u) = n + 1 /\ \A i \in 1 .. n + 1 : u[i] = IF i <= 1 THEN Sandbox[i] ELSE s[i - 1]
  BY <1>1, <1>2
<1>4. u[1] = "$"
  BY <1>1, <1>2, <1>3
<1>5. \A i \in 1 .. n : i + 1 \in 1 .. n + 1 /\ ~(i + 1 <= 1) /\ (i + 1) - 1 = i
  BY <1>2
<1>6. \A i \in 1 .. n : u[i + 1] = s[i]
  BY <1>3, <1>5
<1> QED BY <1>2, <1>3, <1>4, <1>6 DEF u, n

\* What NamesMeet says of open() and of connect().
OpensRight(p, to) ==
  /\ StorageFile(p) = {} => ~ IsPrefix(Sandbox \o Media, to)
  /\ \A f \in StorageFile(p) : to = Sandbox \o f

LEMMA OpenMeets == ASSUME NEW p \in Names PROVE OpensRight(p, Redirect(p))
<1>0. IsList(p) /\ \A i \in DOMAIN p : p[i] # "$"
  BY NamesAssumption, ListOf
<1>1. ASSUME NEW m \in DOMAIN Rules, Matches(Rules[m], p)
      PROVE  LET r == Rules[m]
             IN  /\ Elsewhere(r) \/ r \in Elems(StorageRules)
                 /\ IsList(r.from) /\ IsList(r.to)
  <2>1. Rules[m] \in Elems(Rules)
    BY DEF Elems
  <2> QED BY <2>1, AllRules, ElsewhereRules, RulesAreLists
<1>2. CASE \E x \in ToSet(Mounts) : Mounted(x, p)
  <2>1. PICK x \in ToSet(Mounts) : Mounted(x, p)
    BY <1>2
  <2>2. p[1] \in {"/sdcard", "/storage", "/data"} /\ \A y \in ToSet(Mounts) : Mounted(y, p) => y = x
    BY <1>0, <2>1, OneMount
  <2>3. StorageFile(p) = {x.of \o Rest(x.at, p)}
    BY <2>1, <2>2 DEF StorageFile, Mounted
  <2>4. \E r \in Elems(Rules) : Matches(r, p)
    BY <2>1, StorageFound, AllRules
  <2>5. PICK m \in DOMAIN Rules : Matches(Rules[m], p) /\ Redirect(p) = Target(Rules[m], p)
    BY <2>4, RedirectFirst
  <2>6. PICK r : r = Rules[m]
    OBVIOUS
  <2>7. /\ Elsewhere(r) \/ r \in Elems(StorageRules)
        /\ IsList(r.from) /\ IsList(r.to) /\ Matches(r, p) /\ Redirect(p) = Target(r, p)
    BY <1>1, <2>5, <2>6
  <2>8. ~ Elsewhere(r)
    <3> SUFFICES ASSUME Elsewhere(r) PROVE FALSE
      OBVIOUS
    <3>1. 1 \in 1 .. Len(r.from) /\ r.from[1] \in {"/proc", "/dev", "/etc", "/sys", "/tmp"}
      BY DEF Elsewhere, Foreign
    <3>2. r.from[1] # p[1]
      BY <2>2, <3>1
    <3> QED BY <1>0, <2>7, <3>1, <3>2, OtherPiece
  <2>9. Sends(r, p) = x.of \o Rest(x.at, p)
    BY <1>0, <2>2, <2>7, <2>8, StorageRight
  <2>10. Redirect(p) = Sandbox \o Sends(r, p)
    BY <1>0, <2>7, TargetIs
  <2> QED BY <2>3, <2>9, <2>10 DEF OpensRight
<1>3. CASE ~ \E x \in ToSet(Mounts) : Mounted(x, p)
  <2>1. StorageFile(p) = {}
    BY <1>3 DEF StorageFile, Mounted
  <2> DEFINE q == Sandbox \o Media
  <2>2. IsList(q) /\ 1 \in 1 .. Len(q) /\ 2 \in 1 .. Len(q) /\ q[1] = "$" /\ q[2] = "/data"
    <3>1. IsList(Media) /\ Len(Media) = 2 /\ Media[1] = "/data"
      BY ListOf2 DEF Media
    <3>2. /\ IsList(q) /\ Len(q) = 2 + 1 /\ q[1] = "$"
          /\ \A i \in 1 .. 2 : q[i + 1] = Media[i]
      BY <3>1, InSandbox
    <3> HIDE DEF q
    <3>3. q[1 + 1] = Media[1]
      BY <3>2
    <3> QED BY <3>1, <3>2, <3>3
  <2> HIDE DEF q
  <2>3. ~ IsPrefix(q, Redirect(p))
    <3>1. CASE Redirect(p) = p
      <4> SUFFICES ASSUME IsPrefix(q, p) PROVE FALSE
        BY <3>1
      <4>1. q[1] = p[1]
        BY <1>0, <2>2, PrefixAgrees
      <4>2. Len(q) <= Len(p) /\ Len(q) \in Nat /\ Len(p) \in Nat /\ DOMAIN p = 1 .. Len(p)
        BY <1>0, <2>2 DEF IsPrefix, IsList
      <4>3. 1 \in DOMAIN p
        <5> DEFINE m == Len(q)
                   n == Len(p)
        <5>1. m \in Nat /\ n \in Nat /\ m <= n /\ 1 \in 1 .. m
          BY <2>2, <4>2
        <5> HIDE DEF m, n
        <5>2. 1 \in 1 .. n
          BY <5>1
        <5> QED BY <4>2, <5>2 DEF n
      <4> QED BY <1>0, <2>2, <4>1, <4>3
    <3>2. ASSUME NEW m \in DOMAIN Rules, Matches(Rules[m], p), Redirect(p) = Target(Rules[m], p)
          PROVE  ~ IsPrefix(q, Redirect(p))
      <4>1. PICK r : r = Rules[m]
        OBVIOUS
      <4>2. /\ Elsewhere(r) \/ r \in Elems(StorageRules)
            /\ IsList(r.from) /\ IsList(r.to) /\ Matches(r, p) /\ Redirect(p) = Target(r, p)
        BY <1>1, <3>2, <4>1
      <4>3. Elsewhere(r)
        BY <1>0, <1>3, <4>2, StorageRight
      <4>4. PICK s : s = Sends(r, p)
        OBVIOUS
      <4>5. /\ 1 \in 1 .. Len(s) /\ s[1] \in {"/proc", "/dev", "/etc", "/sys", "/tmp"}
            /\ IsList(s) /\ Redirect(p) = Sandbox \o s
        BY <1>0, <4>2, <4>3, <4>4, TargetIs DEF Elsewhere, Foreign
      <4>6. PICK u : u = Sandbox \o s
        OBVIOUS
      <4>7. IsList(u) /\ u[2] = s[1]
        <5>1. IsList(u) /\ u[1 + 1] = s[1]
          BY <4>5, <4>6, InSandbox
        <5> QED BY <5>1
      <4>8. ~ IsPrefix(q, u)
        <5> SUFFICES ASSUME IsPrefix(q, u) PROVE FALSE
          OBVIOUS
        <5>1. q[2] = u[2]
          BY <2>2, <4>7, PrefixAgrees
        <5> QED BY <2>2, <4>5, <4>7, <5>1
      <4> QED BY <4>5, <4>6, <4>8
    <3> QED BY <3>1, <3>2, RedirectFirst
  <2> QED BY <2>1, <2>3 DEF OpensRight, q
<1> QED BY <1>2, <1>3

\* A device's name is looked for anywhere in a socket's, and found at its beginning.
LEMMA FoundAtStart ==
  ASSUME NEW p \in Sockets, NEW f, IsList(f), 1 \in 1 .. Len(f), f[1] = "/dev"
  PROVE  /\ IsList(p)
         /\ Holds(p, f) <=> IsPrefix(f, p)
         /\ HoldsDir(p, f) <=> Inside(f, p)
<1>1. p \in Seq(STRING) /\ IsList(p) /\ \A i \in DOMAIN p : p[i] = "/dev" => i = 1
  BY NamesAssumption, ListOf
<1>2. Len(p) \in Nat /\ DOMAIN p = 1 .. Len(p) /\ SubSeq(p, 1, Len(p)) = p
  BY <1>1
<1>3. ASSUME NEW i \in 1 .. Len(p), IsPrefix(f, SubSeq(p, i, Len(p)))
      PROVE  i = 1
  <2> DEFINE q == SubSeq(p, i, Len(p))
  <2>1. q \in Seq(STRING) /\ Len(q) = Len(p) - i + 1 /\ q[1] = p[i]
    BY <1>1, <1>2
  <2>2. IsList(q)
    BY <2>1, ListOf
  <2>3. IsPrefix(f, q)
    BY <1>3
  <2> HIDE DEF q
  <2>4. f[1] = q[1]
    BY <2>2, <2>3, PrefixAgrees
  <2> QED BY <1>1, <1>2, <2>1, <2>4
<1>4. ASSUME IsPrefix(f, p) PROVE 1 \in 1 .. Len(p)
  <2> DEFINE m == Len(f)
             n == Len(p)
  <2>1. m \in Nat /\ n \in Nat /\ m <= n /\ 1 \in 1 .. m
    BY <1>2, <1>4 DEF IsPrefix, IsList
  <2> HIDE DEF m, n
  <2>2. 1 \in 1 .. n
    BY <2>1
  <2> QED BY <2>2 DEF n
<1>5. Holds(p, f) <=> IsPrefix(f, p)
  BY <1>2, <1>3, <1>4 DEF Holds
<1>6. HoldsDir(p, f) <=> Inside(f, p)
  BY <1>2, <1>3, <1>4 DEF HoldsDir, Inside, IsStrictPrefix
<1> QED BY <1>1, <1>5, <1>6

LEMMA FirstIs ==
  ASSUME NEW p, NEW n \in 1 .. 16, Matches(Rules[n], p), \A i \in 1 .. n - 1 : ~ Matches(Rules[i], p)
  PROVE  Redirect(p) = Target(Rules[n], p)
<1>1. n \in DOMAIN Rules /\ DOMAIN Rules \subseteq Nat \ {0}
  BY RulesOfSys
<1>2. Rules[n] \in Elems(Rules)
  BY <1>1 DEF Elems
<1>3. PICK m \in DOMAIN Rules :
        /\ Matches(Rules[m], p) /\ \A i \in 1 .. m - 1 : ~ Matches(Rules[i], p)
        /\ Redirect(p) = Target(Rules[m], p)
  BY <1>2, RedirectFirst
<1>4. m \in Nat \ {0} /\ m \notin 1 .. n - 1 /\ n \notin 1 .. m - 1
  BY <1>1, <1>3
<1>5. m = n
  BY <1>4
<1> QED BY <1>3, <1>5

\* The beginnings of the first ten rules.
LEMMA SocketNames ==
  /\ \A n : /\ IsList(Dev(n)) /\ Len(Dev(n)) = 2 /\ Dev(n)[1] = "/dev" /\ Dev(n)[2] = n
            /\ IsList(Socket(n)) /\ Len(Socket(n)) = 3
            /\ Socket(n)[1] = "/dev" /\ Socket(n)[2] = "/socket" /\ Socket(n)[3] = n
  /\ \A n, m : LET f == Socket(n) \o <<m>>
               IN  IsList(f) /\ Len(f) = 4 /\ f[1] = "/dev" /\ f[2] = "/socket" /\ f[3] = n
<1>1. \A n : /\ IsList(Dev(n)) /\ Len(Dev(n)) = 2 /\ Dev(n)[1] = "/dev" /\ Dev(n)[2] = n
             /\ IsList(Socket(n)) /\ Len(Socket(n)) = 3
             /\ Socket(n)[1] = "/dev" /\ Socket(n)[2] = "/socket" /\ Socket(n)[3] = n
  BY ListOf2, ListOf3 DEF Dev, Socket
<1>2. ASSUME NEW n, NEW m
      PROVE  LET f == Socket(n) \o <<m>>
             IN  IsList(f) /\ Len(f) = 4 /\ f[1] = "/dev" /\ f[2] = "/socket" /\ f[3] = n
  <2>1. PICK t : t = <<m>>
    OBVIOUS
  <2>2. PICK s : s = Socket(n)
    OBVIOUS
  <2>3. PICK f : f = s \o t
    OBVIOUS
  <2>4. /\ IsList(t) /\ Len(t) = 1 /\ IsList(s) /\ Len(s) = 3
        /\ s[1] = "/dev" /\ s[2] = "/socket" /\ s[3] = n
    BY <1>1, <2>1, <2>2, ListOf1
  <2>5. /\ IsList(f) /\ Len(f) = Len(s) + Len(t)
        /\ \A i \in 1 .. Len(s) + Len(t) : f[i] = IF i <= Len(s) THEN s[i] ELSE t[i - Len(s)]
    BY <2>3, <2>4, ListJoin
  <2>6. IsList(f) /\ Len(f) = 4 /\ f[1] = "/dev" /\ f[2] = "/socket" /\ f[3] = n
    BY <2>4, <2>5
  <2> QED BY <2>1, <2>2, <2>3, <2>6
<1> QED BY <1>1, <1>2

\* The first rules that are not for sockets.
LEMMA NoSocketRules ==
  ASSUME NEW p, IsList(p), p[1] = "/dev", p[2] = "/socket" \/ p[2] = "/log", NEW i \in 1 .. 4
  PROVE  ~ Matches(Rules[i], p)
<1>1. \A f, t : Is(f, t).from = f /\ Starts(f, t).from = f
  BY DEF Is, Starts
<1>2. /\ Rules[1].from = <<"/proc", "/cmdline">> /\ Rules[2].from = <<"/dev", "/graphics", "/fb0">>
      /\ Rules[3].from = Dev("/fb0") /\ Rules[4].from = Dev("/ashmem")
  BY <1>1, RulesOfSys DEF ProcAndDevRules
<1>3. ~ Matches(Rules[1], p)
  <2>1. PICK r : r = Rules[1]
    OBVIOUS
  <2>2. IsList(r.from) /\ 1 \in 1 .. Len(r.from) /\ r.from[1] # p[1]
    <3>1. PICK f : f = <<"/proc", "/cmdline">>
      OBVIOUS
    <3>2. IsList(f) /\ Len(f) = 2 /\ f[1] = "/proc"
      BY <3>1, ListOf2
    <3>3. r.from = f
      BY <1>2, <2>1, <3>1
    <3>4. 1 \in 1 .. Len(f)
      BY <3>2
    <3>5. f[1] # p[1]
      BY <3>2
    <3> QED BY <3>2, <3>3, <3>4, <3>5
  <2> QED BY <2>1, <2>2, OtherPiece
<1>4. ~ Matches(Rules[2], p)
  <2>1. PICK r : r = Rules[2]
    OBVIOUS
  <2>2. IsList(r.from) /\ 2 \in 1 .. Len(r.from) /\ r.from[2] # p[2]
    <3>1. PICK f : f = <<"/dev", "/graphics", "/fb0">>
      OBVIOUS
    <3>2. IsList(f) /\ Len(f) = 3 /\ f[2] = "/graphics"
      BY <3>1, ListOf3
    <3>3. r.from = f
      BY <1>2, <2>1, <3>1
    <3>4. 2 \in 1 .. Len(f)
      BY <3>2
    <3>5. f[2] # p[2]
      BY <3>2
    <3> QED BY <3>2, <3>3, <3>4, <3>5
  <2> QED BY <2>1, <2>2, OtherPiece
<1>5. ~ Matches(Rules[3], p)
  <2>1. PICK r : r = Rules[3]
    OBVIOUS
  <2>0. r.from = Dev("/fb0")
    BY <1>2, <2>1
  <2>2. IsList(r.from) /\ 2 \in 1 .. Len(r.from) /\ r.from[2] # p[2]
    <3>1. IsList(Dev("/fb0")) /\ Len(Dev("/fb0")) = 2 /\ Dev("/fb0")[2] = "/fb0"
      BY SocketNames
    <3>2. 2 \in 1 .. Len(r.from)
      BY <2>0, <3>1
    <3> QED BY <2>0, <3>1, <3>2
  <2> QED BY <2>1, <2>2, OtherPiece
<1>6. ~ Matches(Rules[4], p)
  <2>1. PICK r : r = Rules[4]
    OBVIOUS
  <2>0. r.from = Dev("/ashmem")
    BY <1>2, <2>1
  <2>2. IsList(r.from) /\ 2 \in 1 .. Len(r.from) /\ r.from[2] # p[2]
    <3>1. IsList(Dev("/ashmem")) /\ Len(Dev("/ashmem")) = 2 /\ Dev("/ashmem")[2] = "/ashmem"
      BY SocketNames
    <3>2. 2 \in 1 .. Len(r.from)
      BY <2>0, <3>1
    <3> QED BY <2>0, <3>1, <3>2
  <2> QED BY <2>1, <2>2, OtherPiece
<1> QED BY <1>3, <1>4, <1>5, <1>6

\* The rules for sockets, by the third piece of what they begin with.
LEMMA SocketRules ==
  /\ Rules[5] = Starts(Socket("/property_service"), Socket("/property_service"))
  /\ Rules[6] = Starts(Socket("/netd"), Socket("/netd"))
  /\ Rules[7] = Starts(Socket("/dnsproxyd"), Socket("/netd"))
  /\ Rules[8] = Starts(Logdw, Logdw) /\ Rules[9] = Starts(Socket("/logd"), Logdw)
  /\ Rules[10] = Drops(Dev("/log"), Logdw)
  /\ \A p : IsList(p) =>
       /\ p[2] # "/socket" => \A i \in 5 .. 9 : ~ Matches(Rules[i], p)
       /\ p[3] # "/property_service" => ~ Matches(Rules[5], p)
       /\ p[3] # "/netd" => ~ Matches(Rules[6], p)
       /\ p[3] # "/dnsproxyd" => ~ Matches(Rules[7], p)
<1>1. /\ Rules[5] = Starts(Socket("/property_service"), Socket("/property_service"))
      /\ Rules[6] = Starts(Socket("/netd"), Socket("/netd"))
      /\ Rules[7] = Starts(Socket("/dnsproxyd"), Socket("/netd"))
      /\ Rules[8] = Starts(Logdw, Logdw) /\ Rules[9] = Starts(Socket("/logd"), Logdw)
      /\ Rules[10] = Drops(Dev("/log"), Logdw)
  BY RulesOfSys DEF ProcAndDevRules
<1>2. \A f, t : Starts(f, t).from = f
  BY DEF Starts
<1>3. IsList(Logdw) /\ 2 \in 1 .. Len(Logdw) /\ Logdw[2] = "/socket"
  BY SocketNames DEF Logdw
<1>4. \A n : IsList(Socket(n)) /\ 2 \in 1 .. Len(Socket(n)) /\ Socket(n)[2] = "/socket"
             /\ 3 \in 1 .. Len(Socket(n)) /\ Socket(n)[3] = n
  BY SocketNames
<1>5. ASSUME NEW p, IsList(p), NEW f, NEW t, NEW i \in 1 .. Len(f), IsList(f), f[i] # p[i]
      PROVE  ~ Matches(Starts(f, t), p)
  <2>1. PICK r : r = Starts(f, t)
    OBVIOUS
  <2>2. r.from = f
    BY <1>2, <2>1
  <2> QED BY <1>5, <2>1, <2>2, OtherPiece
<1>6. ASSUME NEW p, IsList(p), p[2] # "/socket", NEW i \in 5 .. 9 PROVE ~ Matches(Rules[i], p)
  <2>1. (i = 5 \/ i = 6 \/ i = 7) \/ i = 8 \/ i = 9
    OBVIOUS
  <2>2. \A n, t : ~ Matches(Starts(Socket(n), t), p)
    BY <1>4, <1>5, <1>6
  <2>3. ~ Matches(Starts(Logdw, Logdw), p)
    BY <1>3, <1>5, <1>6
  <2> QED BY <1>1, <2>1, <2>2, <2>3
<1>7. ASSUME NEW p, IsList(p), NEW n, p[3] # n, NEW t PROVE ~ Matches(Starts(Socket(n), t), p)
  BY <1>4, <1>5, <1>7
<1> QED BY <1>1, <1>6, <1>7

\* Which of its rules a socket's name finds first.
LEMMA PropertySocket ==
  ASSUME NEW p, IsList(p), IsPrefix(Socket("/property_service"), p)
  PROVE  Redirect(p) = Target(Rules[5], p)
<1>1. p[1] = "/dev" /\ p[2] = "/socket"
  BY SocketNames, PrefixAgrees
<1>2. Matches(Rules[5], p)
  BY SocketRules DEF Matches, Starts
<1>3. \A i \in 1 .. 5 - 1 : ~ Matches(Rules[i], p)
  BY <1>1, NoSocketRules
<1> QED BY <1>2, <1>3, FirstIs

LEMMA NetdSocket ==
  ASSUME NEW p, IsList(p), NEW n \in {"/netd", "/dnsproxyd"}, IsPrefix(Socket(n), p)
  PROVE  Redirect(p) = Target(Rules[IF n = "/netd" THEN 6 ELSE 7], p)
<1>1. p[1] = "/dev" /\ p[2] = "/socket" /\ p[3] = n
  BY SocketNames, PrefixAgrees
<1>2. \A i \in 1 .. 5 : ~ Matches(Rules[i], p)
  <2>1. \A i \in 1 .. 4 : ~ Matches(Rules[i], p)
    BY <1>1, NoSocketRules
  <2>2. ~ Matches(Rules[5], p)
    BY <1>1, SocketRules
  <2> QED BY <2>1, <2>2
<1>3. CASE n = "/netd"
  <2>1. Matches(Rules[6], p)
    BY <1>3, SocketRules DEF Matches, Starts
  <2>2. \A i \in 1 .. 6 - 1 : ~ Matches(Rules[i], p)
    BY <1>2
  <2>3. Redirect(p) = Target(Rules[6], p)
    BY <2>1, <2>2, FirstIs
  <2> QED BY <1>3, <2>3
<1>4. CASE n = "/dnsproxyd"
  <2>1. Matches(Rules[7], p)
    BY <1>4, SocketRules DEF Matches, Starts
  <2>2. ~ Matches(Rules[6], p)
    BY <1>1, <1>4, SocketRules
  <2>3. \A i \in 1 .. 7 - 1 : ~ Matches(Rules[i], p)
    BY <1>2, <2>2
  <2>4. Redirect(p) = Target(Rules[7], p)
    BY <2>1, <2>3, FirstIs
  <2> QED BY <1>4, <2>4
<1> QED BY <1>3, <1>4

LEMMA LogSocket ==
  ASSUME NEW p, IsList(p), IsPrefix(Socket("/logd"), p) \/ Inside(Dev("/log"), p)
  PROVE  \E n \in 8 .. 10 : Redirect(p) = Target(Rules[n], p)
<1>1. CASE IsPrefix(Socket("/logd"), p)
  <2>1. p[1] = "/dev" /\ p[2] = "/socket" /\ p[3] = "/logd"
    BY <1>1, SocketNames, PrefixAgrees
  <2>2. \A i \in 1 .. 7 : ~ Matches(Rules[i], p)
    <3>1. \A i \in 1 .. 4 : ~ Matches(Rules[i], p)
      BY <2>1, NoSocketRules
    <3>2. ~ Matches(Rules[5], p) /\ ~ Matches(Rules[6], p) /\ ~ Matches(Rules[7], p)
      BY <2>1, SocketRules
    <3> QED BY <3>1, <3>2
  <2>3. Matches(Rules[9], p)
    BY <1>1, SocketRules DEF Matches, Starts
  <2>4. CASE Matches(Rules[8], p)
    <3>1. \A i \in 1 .. 8 - 1 : ~ Matches(Rules[i], p)
      BY <2>2
    <3> QED BY <2>4, <3>1, FirstIs
  <2>5. CASE ~ Matches(Rules[8], p)
    <3>1. \A i \in 1 .. 9 - 1 : ~ Matches(Rules[i], p)
      BY <2>2, <2>5
    <3> QED BY <2>3, <3>1, FirstIs
  <2> QED BY <2>4, <2>5
<1>2. CASE Inside(Dev("/log"), p)
  <2>1. p[1] = "/dev" /\ p[2] = "/log"
    BY <1>2, SocketNames, PrefixAgrees DEF Inside, IsStrictPrefix
  <2>2. \A i \in 1 .. 9 : ~ Matches(Rules[i], p)
    <3>1. \A i \in 1 .. 4 : ~ Matches(Rules[i], p)
      BY <2>1, NoSocketRules
    <3>2. \A i \in 5 .. 9 : ~ Matches(Rules[i], p)
      BY <2>1, SocketRules
    <3> QED BY <3>1, <3>2
  <2>3. Matches(Rules[10], p)
    BY <1>2, SocketRules DEF Matches, Drops
  <2>4. \A i \in 1 .. 10 - 1 : ~ Matches(Rules[i], p)
    BY <2>2
  <2> QED BY <2>3, <2>4, FirstIs
<1> QED BY <1>1, <1>2

\* A rule that is not for what is in /dev/socket or /dev/log.
Apart(f) ==
  /\ IsList(f)
  /\ (1 \in 1 .. Len(f) /\ f[1] # "/dev") \/ (2 \in 1 .. Len(f) /\ f[2] \notin {"/socket", "/log"})

LEMMA ApartNames ==
  /\ \A n : n \notin {"/socket", "/log"} =>
       /\ Apart(Dev(n)) /\ \A m : Apart(Dev(n) \o <<m>>) /\ Apart(<<"/dev", n, m>>)
  /\ \A a : Apart(<<"/proc", a>>) /\ Apart(<<"/etc", a>>)
  /\ Apart(Power) /\ Apart(Iio) /\ Apart(<<"/sys", "/devices", "/virtual", "/power_supply">>)
<1>1. \A a, b : IsList(<<a, b>>) /\ Len(<<a, b>>) = 2 /\ <<a, b>>[1] = a /\ <<a, b>>[2] = b
  BY ListOf2
<1>2. \A a, b, c : IsList(<<a, b, c>>) /\ Len(<<a, b, c>>) = 3 /\ <<a, b, c>>[1] = a /\ <<a, b, c>>[2] = b
  BY ListOf3
<1>3. \A a, b, c, d : IsList(<<a, b, c, d>>) /\ Len(<<a, b, c, d>>) = 4 /\ <<a, b, c, d>>[1] = a
  BY ListOf4
<1>4. ASSUME NEW n, n \notin {"/socket", "/log"}
      PROVE  Apart(Dev(n)) /\ \A m : Apart(Dev(n) \o <<m>>) /\ Apart(<<"/dev", n, m>>)
  <2>1. PICK d : d = Dev(n)
    OBVIOUS
  <2>2. IsList(d) /\ Len(d) = 2 /\ d[2] = n
    BY <1>1, <2>1 DEF Dev
  <2>3. Apart(d)
    BY <1>4, <2>2 DEF Apart
  <2>4. ASSUME NEW m PROVE Apart(d \o <<m>>)
    <3>1. PICK t : t = <<m>>
      OBVIOUS
    <3>2. PICK f : f = d \o t
      OBVIOUS
    <3>3. IsList(t) /\ Len(t) = 1
      BY <3>1, ListOf1
    <3>4. /\ IsList(f) /\ Len(f) = Len(d) + Len(t)
          /\ \A i \in 1 .. Len(d) + Len(t) : f[i] = IF i <= Len(d) THEN d[i] ELSE t[i - Len(d)]
      BY <2>2, <3>2, <3>3, ListJoin
    <3>5. IsList(f) /\ f[2] = n /\ 2 \in 1 .. Len(f)
      BY <2>2, <3>3, <3>4
    <3> QED BY <1>4, <3>1, <3>2, <3>5 DEF Apart
  <2>5. \A m : Apart(<<"/dev", n, m>>)
    BY <1>2, <1>4 DEF Apart
  <2> QED BY <2>1, <2>3, <2>4, <2>5
<1>5. \A a : Apart(<<"/proc", a>>) /\ Apart(<<"/etc", a>>)
  BY <1>1 DEF Apart
<1>6. Apart(Power) /\ Apart(Iio) /\ Apart(<<"/sys", "/devices", "/virtual", "/power_supply">>)
  BY <1>2, <1>3 DEF Apart, Power, Iio
<1> QED BY <1>4, <1>5, <1>6

\* What has more of the name of the log's socket has the name.
LEMMA LogdBegins ==
  ASSUME NEW p, IsList(p), NEW m, IsPrefix(Socket("/logd") \o <<m>>, p)
  PROVE  IsPrefix(Socket("/logd"), p)
<1>1. PICK s : s = Socket("/logd")
  OBVIOUS
<1>2. PICK t : t = <<m>>
  OBVIOUS
<1>3. PICK f : f = s \o t
  OBVIOUS
<1>4. IsList(s) /\ IsList(t) /\ IsList(f) /\ IsPrefix(f, p)
  BY <1>1, <1>2, <1>3, SocketNames, ListOf1, ListJoin
<1>5. PICK v : v = Rest(f, p)
  OBVIOUS
<1>6. IsList(v) /\ p = f \o v
  BY <1>4, <1>5, Parts
<1>7. IsList(t \o v) /\ f \o v = s \o (t \o v)
  <2>1. IsList(s) /\ IsList(t) /\ IsList(v)
    BY <1>4, <1>6
  <2>2. IsList(t \o v)
    BY <2>1, ListJoin
  <2>3. (s \o t) \o v = s \o (t \o v)
    BY <2>1, ListAssociative
  <2> QED BY <1>3, <2>2, <2>3
<1>8. IsPrefix(s, s \o (t \o v))
  BY <1>4, <1>7, ListTail
<1> QED BY <1>1, <1>6, <1>7, <1>8

\* The names connect() has a rule for.
Known(p) ==
  \/ IsPrefix(Socket("/property_service"), p) \/ IsPrefix(Socket("/netd"), p)
  \/ IsPrefix(Socket("/dnsproxyd"), p) \/ IsPrefix(Socket("/logd"), p) \/ Inside(Dev("/log"), p)

\* Of the rules of open() and stat() only those match a socket's name that connect() has
\* too, and those for the three sockets of LeftToTheHost.
LEMMA RulesOfSockets ==
  ASSUME NEW p, IsList(p), p[1] = "/dev", p[2] \in {"/socket", "/log"},
         NEW r \in Elems(Rules), Matches(r, p)
  PROVE  Known(p) \/ p \in LeftToTheHost
<1>0. \A f, t : /\ Is(f, t).from = f /\ Starts(f, t).from = f /\ Drops(f, t).from = f
               /\ Keeps(f, t).from = f
  BY DEF Is, Starts, Drops, Keeps
<1>1. \A x : Apart(x.from) => ~ Matches(x, p)
  <2> SUFFICES ASSUME NEW x, Apart(x.from) PROVE ~ Matches(x, p)
    OBVIOUS
  <2>1. CASE 1 \in 1 .. Len(x.from) /\ x.from[1] # "/dev"
    BY <2>1, OtherPiece DEF Apart
  <2>2. CASE 2 \in 1 .. Len(x.from) /\ x.from[2] \notin {"/socket", "/log"}
    BY <2>2, OtherPiece DEF Apart
  <2> QED BY <2>1, <2>2 DEF Apart
<1>2. CASE r \in Elems(ProcAndDevRules)
  <2>1. PICK i \in 1 .. 16 : r = ProcAndDevRules[i]
    <3>1. DOMAIN ProcAndDevRules = 1 .. 16
      BY DEF ProcAndDevRules
    <3> QED BY <1>2, <3>1 DEF Elems
  <2>2. \A j \in {1, 2, 3, 4, 12, 13, 14, 15, 16} : Apart(ProcAndDevRules[j].from)
    <3>1. /\ Apart(<<"/proc", "/cmdline">>) /\ Apart(<<"/dev", "/graphics", "/fb0">>)
          /\ Apart(Dev("/fb0")) /\ Apart(Dev("/ashmem"))
          /\ Apart(<<"/etc", "/resolv.conf">>) /\ Apart(<<"/etc", "/hosts">>)
          /\ Apart(Dev("/__properties__")) /\ Apart(Dev("/snd")) /\ Apart(Dev("/input"))
      BY ApartNames
    <3> QED BY <1>0, <3>1 DEF ProcAndDevRules
  <2>3. i \notin {1, 2, 3, 4, 12, 13, 14, 15, 16}
    BY <1>1, <2>1, <2>2
  <2>4. i \in 5 .. 11
    BY <2>3
  <2>5. r = Rules[i]
    BY <2>1, RulesOfSys
  <2>6. i = 11 => r = Starts(Logdr, Logdr)
    BY <2>1 DEF ProcAndDevRules
  <2>7. \A f, t : /\ Matches(Starts(f, t), p) <=> IsPrefix(f, p)
                  /\ Matches(Drops(f, t), p) <=> Inside(f, p)
    BY DEF Matches, Starts, Drops
  <2>8. i = 5 \/ i = 6 \/ i = 7 \/ i = 8 \/ i = 9 \/ i = 10 \/ i = 11
    BY <2>4
  <2>9. /\ IsPrefix(Logdw, p) => IsPrefix(Socket("/logd"), p)
        /\ IsPrefix(Logdr, p) => IsPrefix(Socket("/logd"), p)
    BY LogdBegins DEF Logdw, Logdr
  <2>10. Known(p)
    <3>1. CASE i = 5 \/ i = 6 \/ i = 7
      BY <2>5, <2>7, <3>1, SocketRules DEF Known
    <3>2. CASE i = 8 \/ i = 9 \/ i = 10 \/ i = 11
      BY <2>5, <2>6, <2>7, <2>9, <3>2, SocketRules DEF Known
    <3> QED BY <2>8, <3>1, <3>2
  <2> QED BY <2>10
<1>3. CASE r \in Elems(SysRules)
  <2>1. \A i \in 1 .. 3 : Apart(SysRules[i].from)
    BY <1>0, ApartNames DEF SysRules
  <2>2. DOMAIN SysRules = 1 .. 3
    BY DEF SysRules
  <2> QED BY <1>1, <1>3, <2>1, <2>2 DEF Elems
<1>4. CASE r \in Elems(VideoRules)
  <2>1. \A i \in 1 .. 3 : Apart(VideoRules[i].from)
    <3>1. Apart(Dev("/video")) /\ \A m : Apart(Dev("/video") \o <<m>>)
      BY ApartNames
    <3>2. \E a, b, c, x, y, z : /\ VideoRules = <<Is(a, x), Is(b, y), Starts(c, z)>>
                                /\ Apart(a) /\ Apart(b) /\ Apart(c)
      BY <3>1 DEF VideoRules
    <3> QED BY <1>0, <3>2
  <2>2. DOMAIN VideoRules = 1 .. 3
    BY DEF VideoRules
  <2> QED BY <1>1, <1>4, <2>1, <2>2 DEF Elems
<1>5. CASE r \in Elems(StorageRules)
  <2>1. PICK x \in ToSet(Mounts) : Mounted(x, p)
    BY <1>5, StorageRight
  <2>2. p[1] \in {"/sdcard", "/storage", "/data"}
    BY <2>1, OneMount
  <2> QED BY <2>2
<1>6. CASE r \in Elems(NodeRules)
  <2> DEFINE wholes == <<<<"/proc", "/mounts">>, Socket("/rild"), Socket("/rild") \o <<"-debug">>,
                         Socket("/wpa_wlan0")>>
             nodes == [i \in DOMAIN Nodes |-> Is(Dev(Nodes[i]), Tmp(Nodes[i]))]
             others == <<Is(Dev("/qfp-nodisplay"), Tmp("/fingerprint")),
                         Is(Dev("/esfp0"), Tmp("/fingerprint")),
                         Is(<<"/dev", "/dri", "/card0">>, Tmp("/card0")),
                         Is(<<"/dev", "/dri", "/renderD128">>, Tmp("/renderD128"))>>
  <2>1. /\ DOMAIN wholes = 1 .. 4 /\ IsList(wholes)
        /\ Apart(wholes[1]) /\ \A i \in 2 .. 4 : wholes[i] \in LeftToTheHost
    <3>1. Apart(<<"/proc", "/mounts">>)
      BY ApartNames
    <3>2. \A a, b, c, d : /\ DOMAIN <<a, b, c, d>> = 1 .. 4 /\ <<a, b, c, d>>[1] = a
                          /\ \A i \in 2 .. 4 : <<a, b, c, d>>[i] \in {b, c, d}
      OBVIOUS
    <3>3. LeftToTheHost = {Socket("/rild"), Socket("/rild") \o <<"-debug">>, Socket("/wpa_wlan0")}
      BY DEF LeftToTheHost
    <3>4. IsList(wholes)
      BY ListOf4
    <3> QED BY <3>1, <3>2, <3>3, <3>4
  <2> HIDE DEF wholes
  <2>2. IsList(Whole(wholes)) /\ DOMAIN Whole(wholes) = 1 .. 4
    BY <2>1, ListOfFunction DEF Whole
  <2>3. \A x \in Elems(Whole(wholes)) : Matches(x, p) => p \in LeftToTheHost
    <3> SUFFICES ASSUME NEW i \in 1 .. 4, Matches(Whole(wholes)[i], p) PROVE p \in LeftToTheHost
      BY <2>2 DEF Elems
    <3>1. Whole(wholes)[i] = Is(wholes[i], wholes[i])
      BY <2>1 DEF Whole
    <3>2. i # 1
      BY <1>0, <1>1, <2>1, <3>1
    <3>3. \A f, t : Matches(Is(f, t), p) => p = f
      BY DEF Matches, Is
    <3> QED BY <2>1, <3>1, <3>2, <3>3
  <2>4. DOMAIN Nodes = 1 .. 12 /\ \A i \in 1 .. 12 : Nodes[i] \notin {"/socket", "/log"}
    BY DEF Nodes
  <2>5. IsList(nodes) /\ \A x \in Elems(nodes) : Apart(x.from)
    <3>1. IsList(nodes) /\ DOMAIN nodes = 1 .. 12
      BY <2>4, ListOfFunction
    <3>2. \A i \in 1 .. 12 : nodes[i].from = Dev(Nodes[i])
      BY <1>0, <2>4
    <3>3. \A i \in 1 .. 12 : Apart(Dev(Nodes[i]))
      BY <2>4, ApartNames
    <3> HIDE DEF nodes
    <3>4. \A i \in 1 .. 12 : Apart(nodes[i].from)
      BY <3>2, <3>3
    <3> QED BY <3>1, <3>4 DEF Elems
  <2>6. IsList(others)
    BY ListOf4
  <2>7. \A i \in 1 .. 4 : Apart(others[i].from)
    <3>1. /\ Apart(Dev("/qfp-nodisplay")) /\ Apart(Dev("/esfp0"))
          /\ Apart(<<"/dev", "/dri", "/card0">>) /\ Apart(<<"/dev", "/dri", "/renderD128">>)
      BY ApartNames
    <3>2. \E a, b, c, d, x, y, z, w : /\ others = <<Is(a, x), Is(b, y), Is(c, z), Is(d, w)>>
                                      /\ Apart(a) /\ Apart(b) /\ Apart(c) /\ Apart(d)
      BY <3>1
    <3> HIDE DEF others
    <3> QED BY <1>0, <3>2
  <2>8. DOMAIN others = 1 .. 4
    OBVIOUS
  <2> HIDE DEF nodes, others
  <2>9. \A x \in Elems(others) : Apart(x.from)
    BY <2>7, <2>8 DEF Elems
  <2>10. NodeRules = (Whole(wholes) \o nodes) \o others
    BY DEF NodeRules, wholes, nodes, others
  <2>11. /\ IsList(Whole(wholes) \o nodes)
         /\ Elems(Whole(wholes) \o nodes) = Elems(Whole(wholes)) \cup Elems(nodes)
    BY <2>2, <2>5, ListJoin, ElemsJoin
  <2>12. Elems(NodeRules) = Elems(Whole(wholes)) \cup Elems(nodes) \cup Elems(others)
    BY <2>6, <2>10, <2>11, ElemsJoin
  <2> QED BY <1>1, <1>6, <2>3, <2>5, <2>9, <2>12
<1> QED BY <1>2, <1>3, <1>4, <1>5, <1>6, AllRules

\* None of the three sockets has a name connect() knows.
LEMMA HostSockets == ASSUME NEW p \in LeftToTheHost PROVE ~ Known(p)
<1>1. p = Socket("/rild") \/ p = Socket("/rild") \o <<"-debug">> \/ p = Socket("/wpa_wlan0")
  BY DEF LeftToTheHost
<1>2. IsList(p) /\ p[2] = "/socket" /\ p[3] \in {"/rild", "/wpa_wlan0"}
  <2>1. /\ IsList(Socket("/rild") \o <<"-debug">>) /\ (Socket("/rild") \o <<"-debug">>)[2] = "/socket"
        /\ (Socket("/rild") \o <<"-debug">>)[3] = "/rild"
    BY SocketNames
  <2>2. \A n : IsList(Socket(n)) /\ Socket(n)[2] = "/socket" /\ Socket(n)[3] = n
    BY SocketNames
  <2> QED BY <1>1, <2>1, <2>2
<1>3. ASSUME NEW n, IsPrefix(Socket(n), p) PROVE p[3] = n
  BY <1>2, <1>3, SocketNames, PrefixAgrees
<1>4. ASSUME Inside(Dev("/log"), p) PROVE p[2] = "/log"
  BY <1>2, <1>4, SocketNames, PrefixAgrees DEF Inside, IsStrictPrefix
<1> QED BY <1>2, <1>3, <1>4 DEF Known

LEMMA ConnectMeets ==
  ASSUME NEW p \in Sockets
  PROVE  ConnectTo(p) = IF p \in LeftToTheHost THEN p ELSE Redirect(p)
<1>0. IsList(p) /\ p[1] = "/dev" /\ p[2] \in {"/socket", "/log"}
  BY NamesAssumption, ListOf
<1>1. \A n : /\ LooksFor(Socket(n), p) <=> IsPrefix(Socket(n), p)
             /\ \A m : LET f == Socket(n) \o <<m>> IN LooksFor(f, p) <=> IsPrefix(f, p)
  <2> SUFFICES ASSUME NEW n
               PROVE  /\ LooksFor(Socket(n), p) <=> IsPrefix(Socket(n), p)
                      /\ \A m : LET f == Socket(n) \o <<m>> IN LooksFor(f, p) <=> IsPrefix(f, p)
    OBVIOUS
  <2>1. ASSUME NEW f, IsList(f), 1 \in 1 .. Len(f), f[1] = "/dev", Len(f) # 2
        PROVE  LooksFor(f, p) <=> IsPrefix(f, p)
    <3>1. PICK d : d = Dev("/log")
      OBVIOUS
    <3>2. f # d
      <4>1. Len(d) = 2
        BY <3>1, SocketNames
      <4> QED BY <2>1, <4>1
    <3>3. Holds(p, f) <=> IsPrefix(f, p)
      BY <2>1, FoundAtStart
    <3> QED BY <3>1, <3>2, <3>3 DEF LooksFor
  <2>2. PICK s : s = Socket(n)
    OBVIOUS
  <2>3. IsList(s) /\ Len(s) = 3 /\ s[1] = "/dev"
    BY <2>2, SocketNames
  <2>4. LooksFor(s, p) <=> IsPrefix(s, p)
    BY <2>1, <2>3
  <2>5. ASSUME NEW m PROVE LET f == Socket(n) \o <<m>> IN LooksFor(f, p) <=> IsPrefix(f, p)
    <3>1. PICK f : f = Socket(n) \o <<m>>
      OBVIOUS
    <3>2. IsList(f) /\ Len(f) = 4 /\ f[1] = "/dev"
      BY <3>1, SocketNames
    <3>3. LooksFor(f, p) <=> IsPrefix(f, p)
      BY <2>1, <3>2
    <3> QED BY <3>1, <3>3
  <2> QED BY <2>2, <2>4, <2>5
<1>2. /\ LooksFor(Logdw, p) <=> IsPrefix(Logdw, p)
      /\ LooksFor(Logdr, p) <=> IsPrefix(Logdr, p)
  BY <1>1 DEF Logdw, Logdr
<1>3. LooksFor(Dev("/log"), p) <=> Inside(Dev("/log"), p)
  <2>1. PICK f : f = Dev("/log")
    OBVIOUS
  <2>2. IsList(f) /\ Len(f) = 2 /\ f[1] = "/dev"
    BY <2>1, SocketNames
  <2>3. HoldsDir(p, f) <=> Inside(f, p)
    BY <2>2, FoundAtStart
  <2> QED BY <2>1, <2>3 DEF LooksFor
<1> DEFINE hits == {i \in DOMAIN ConnectRules : \E s \in ConnectRules[i].has : LooksFor(s, p)}
<1>4. /\ DOMAIN ConnectRules = 1 .. 4
      /\ ConnectRules[1].has = {Socket("/property_service")}
      /\ ConnectRules[2].has = {Socket("/netd"), Socket("/dnsproxyd")}
      /\ ConnectRules[3].has = {Logdw, Socket("/logd"), Dev("/log")}
      /\ ConnectRules[4].has = {Logdr}
      /\ ConnectRules[1].to = Socket("/property_service") /\ ConnectRules[2].to = Socket("/netd")
      /\ ConnectRules[3].to = Logdw
  BY DEF ConnectRules
<1>5. Known(p) <=> hits # {}
  <2>1. /\ 1 \in hits <=> LooksFor(Socket("/property_service"), p)
        /\ 2 \in hits <=> LooksFor(Socket("/netd"), p) \/ LooksFor(Socket("/dnsproxyd"), p)
        /\ 3 \in hits <=> LooksFor(Logdw, p) \/ LooksFor(Socket("/logd"), p) \/ LooksFor(Dev("/log"), p)
        /\ 4 \in hits <=> LooksFor(Logdr, p)
    BY <1>4
  <2>2. hits \subseteq {1, 2, 3, 4}
    BY <1>4
  <2>3. /\ IsPrefix(Logdw, p) => IsPrefix(Socket("/logd"), p)
        /\ IsPrefix(Logdr, p) => IsPrefix(Socket("/logd"), p)
    BY <1>0, LogdBegins DEF Logdw, Logdr
  <2> HIDE DEF hits
  <2>4. hits # {} <=> 1 \in hits \/ 2 \in hits \/ 3 \in hits \/ 4 \in hits
    BY <2>2
  <2> QED BY <1>1, <1>2, <1>3, <2>1, <2>3, <2>4 DEF Known
<1>6. CASE hits = {}
  <2>1. ConnectTo(p) = p
    BY <1>6 DEF ConnectTo
  <2>2. CASE \A r \in Elems(Rules) : ~ Matches(r, p)
    <3>1. Redirect(p) = p
      <4>1. \A m \in DOMAIN Rules : ~ Matches(Rules[m], p)
        BY <2>2 DEF Elems
      <4> QED BY <4>1, RedirectFirst
    <3> QED BY <2>1, <3>1
  <2>3. CASE \E r \in Elems(Rules) : Matches(r, p)
    <3>1. p \in LeftToTheHost
      BY <1>0, <1>5, <1>6, <2>3, RulesOfSockets
    <3> QED BY <2>1, <3>1
  <2> QED BY <2>2, <2>3
<1>7. CASE hits # {}
  <2>0. p \notin LeftToTheHost
    BY <1>5, <1>7, HostSockets
  <2> SUFFICES ConnectTo(p) = Redirect(p)
    BY <2>0
  <2>1. hits \subseteq Nat
    BY <1>4
  <2>2. \E x \in hits : \A y \in hits : x <= y
    BY <1>7, <2>1, LeastOf
  <2>3. PICK k : k = Min(hits)
    OBVIOUS
  <2>4. k \in hits /\ \A y \in hits : k <= y
    BY <2>2, <2>3 DEF Min
  <2>5. ConnectTo(p) = Sandbox \o ConnectRules[k].to
    BY <1>7, <2>3 DEF ConnectTo
  <2>6. \A t : IsList(t) => (Sandbox \o t) \o <<>> = Sandbox \o t
    <3> SUFFICES ASSUME NEW t, IsList(t) PROVE (Sandbox \o t) \o <<>> = Sandbox \o t
      OBVIOUS
    <3>1. IsList(Sandbox \o t)
      BY InSandbox
    <3> HIDE DEF Sandbox
    <3> QED BY <3>1, ConcatEmptySeq DEF IsList
  <2>7. \A f, t : IsList(t) => /\ Target(Starts(f, t), p) = Sandbox \o t
                               /\ Target(Drops(f, t), p) = Sandbox \o t
    <3>1. \A f, t : /\ Starts(f, t).how = "starts" /\ Drops(f, t).how = "drops"
                    /\ Starts(f, t).to = t /\ Drops(f, t).to = t
      BY DEF Starts, Drops
    <3>2. \A r : r.how # "keeps" => Target(r, p) = (Sandbox \o r.to) \o <<>>
      BY DEF Target
    <3>3. ASSUME NEW r, r.how # "keeps", IsList(r.to) PROVE Target(r, p) = Sandbox \o r.to
      BY <2>6, <3>2, <3>3
    <3>4. \A f, t : Starts(f, t).how # "keeps" /\ Drops(f, t).how # "keeps"
      BY <3>1
    <3> SUFFICES ASSUME NEW f, NEW t, IsList(t)
                 PROVE  Target(Starts(f, t), p) = Sandbox \o t /\ Target(Drops(f, t), p) = Sandbox \o t
      OBVIOUS
    <3>5. Target(Starts(f, t), p) = Sandbox \o t
      <4>1. PICK r : r = Starts(f, t)
        OBVIOUS
      <4>2. r.how # "keeps" /\ r.to = t
        BY <3>1, <3>4, <4>1
      <4> QED BY <3>3, <4>1, <4>2
    <3>6. Target(Drops(f, t), p) = Sandbox \o t
      <4>1. PICK r : r = Drops(f, t)
        OBVIOUS
      <4>2. r.how # "keeps" /\ r.to = t
        BY <3>1, <3>4, <4>1
      <4> QED BY <3>3, <4>1, <4>2
    <3> QED BY <3>5, <3>6
  <2>8. k \in 1 .. 4 /\ (\E s \in ConnectRules[k].has : LooksFor(s, p))
    BY <1>4, <2>4
  <2>9. CASE k = 1
    <3>1. IsPrefix(Socket("/property_service"), p)
      BY <1>1, <1>4, <2>8, <2>9
    <3>2. Redirect(p) = Target(Rules[5], p)
      BY <1>0, <3>1, PropertySocket
    <3>3. /\ Rules[5] = Starts(Socket("/property_service"), Socket("/property_service"))
          /\ IsList(Socket("/property_service"))
      BY SocketRules, SocketNames
    <3>4. Target(Rules[5], p) = Sandbox \o Socket("/property_service")
      BY <2>7, <3>3
    <3> QED BY <1>4, <2>5, <2>9, <3>2, <3>4
  <2>10. CASE k = 2
    <3>1. PICK n \in {"/netd", "/dnsproxyd"} : IsPrefix(Socket(n), p)
      BY <1>1, <1>4, <2>8, <2>10
    <3>2. Redirect(p) = Target(Rules[6], p) \/ Redirect(p) = Target(Rules[7], p)
      BY <1>0, <3>1, NetdSocket
    <3>3. /\ Rules[6] = Starts(Socket("/netd"), Socket("/netd"))
          /\ Rules[7] = Starts(Socket("/dnsproxyd"), Socket("/netd"))
          /\ IsList(Socket("/netd"))
      BY SocketRules, SocketNames
    <3>4. Target(Rules[6], p) = Sandbox \o Socket("/netd") /\ Target(Rules[7], p) = Sandbox \o Socket("/netd")
      BY <2>7, <3>3
    <3>5. Redirect(p) = Sandbox \o Socket("/netd")
      BY <3>2, <3>4
    <3> QED BY <1>4, <2>5, <2>10, <3>5
  <2>11. ASSUME k = 3 \/ k = 4 PROVE k = 3 /\ Redirect(p) = Sandbox \o Logdw
    <3>1. IsPrefix(Socket("/logd"), p) \/ Inside(Dev("/log"), p)
      <4>1. CASE k = 3
        <5>1. LooksFor(Logdw, p) \/ LooksFor(Socket("/logd"), p) \/ LooksFor(Dev("/log"), p)
          BY <1>4, <2>8, <4>1
        <5>2. IsPrefix(Logdw, p) => IsPrefix(Socket("/logd"), p)
          BY <1>0, LogdBegins DEF Logdw
        <5> QED BY <1>1, <1>2, <1>3, <5>1, <5>2
      <4>2. CASE k = 4
        <5>1. LooksFor(Logdr, p)
          BY <1>4, <2>8, <4>2
        <5>2. IsPrefix(Logdr, p) => IsPrefix(Socket("/logd"), p)
          BY <1>0, LogdBegins DEF Logdr
        <5> QED BY <1>2, <5>1, <5>2
      <4> QED BY <2>11, <4>1, <4>2
    <3>2. LooksFor(Socket("/logd"), p) \/ LooksFor(Dev("/log"), p)
      BY <1>1, <1>3, <3>1
    <3>3. 3 \in hits
      BY <1>4, <3>2
    <3>4. k = 3
      BY <2>4, <2>11, <3>3
    <3>5. IsList(Logdw)
      BY SocketNames DEF Logdw
    <3>6. PICK n \in 8 .. 10 : Redirect(p) = Target(Rules[n], p)
      BY <1>0, <3>1, LogSocket
    <3>7. n = 8 \/ n = 9 \/ n = 10
      OBVIOUS
    <3>8. Redirect(p) = Sandbox \o Logdw
      BY <2>7, <3>5, <3>6, <3>7, SocketRules
    <3> QED BY <3>4, <3>8
  <2>12. k = 3 \/ k = 4 => ConnectTo(p) = Redirect(p)
    BY <1>4, <2>5, <2>11
  <2> QED BY <2>8, <2>9, <2>10, <2>12
<1> QED BY <1>6, <1>7

\* A use of a name is one of these two calls.
LEMMA NamesStep == ASSUME NamesMeet, [HookNext]_hookVars PROVE NamesMeet'
<1>1. CASE UNCHANGED used
  BY <1>1 DEF NamesMeet
<1>2. ASSUME NEW t \in Threads, NEW p \in Names, Opens(t, p) PROVE NamesMeet'
  <2>1. used' = [by |-> "open", name |-> p, to |-> Redirect(p)]
    BY <1>2 DEF Opens, Uses
  <2>2. used'.by = "open" /\ used'.name = p /\ used'.to = Redirect(p)
    BY <2>1
  <2> QED BY <2>2, OpenMeets DEF NamesMeet, OpensRight
<1>3. ASSUME NEW t \in Threads, NEW s \in Sockets, Connects(t, s) PROVE NamesMeet'
  <2>1. used' = [by |-> "connect", name |-> s, to |-> ConnectTo(s)]
    BY <1>3 DEF Connects, Uses
  <2>2. used'.by = "connect" /\ used'.name = s /\ used'.to = ConnectTo(s)
    BY <2>1
  <2> QED BY <2>2, ConnectMeets DEF NamesMeet
<1>4. UNCHANGED used \/ GuestNames
  BY DEF HookNext, hookVars, names, GuestBegins, HookStep, CallsIdentity, CallsClose, OpensBinder,
         Checks, Stores, RaisesFlag, IdentityReturns, Creates, LooksUp, Closes
<1> QED BY <1>1, <1>2, <1>3, <1>4 DEF GuestNames

-----------------------------------------------------------------------------
(* The world: what one component does leaves the other two alone. *)

GuestInv == HookInv /\ InputInv /\ PowerInv

EachActs == [HookNext]_hookVars /\ [InputNext]_inputVars /\ [PowerNext]_powerVars

LEMMA GuestActs == ASSUME [GuestNext]_guestVars PROVE EachActs
<1>1. CASE WorldBegins
  BY <1>1 DEF WorldBegins, HookNext, InputNext, PowerNext, EachActs
<1>2. CASE OpensTouch
  BY <1>2 DEF OpensTouch, InputNext, EachActs
<1>3. ASSUME NEW t \in Threads, GuestStep(t) PROVE EachActs
  BY <1>3 DEF GuestStep, HookNext, EachActs
<1>4. CASE TouchStep
  BY <1>4 DEF TouchStep, InputNext, EachActs
<1>5. ASSUME NEW c \in HalCallers, HalStep(c) PROVE EachActs
  BY <1>5 DEF HalStep, PowerNext, EachActs
<1>6. CASE Settling
  BY <1>6 DEF Settling, PowerNext, EachActs
<1>7. CASE UNCHANGED guestVars
  BY <1>7 DEF guestVars, EachActs
<1> QED BY <1>1, <1>2, <1>3, <1>4, <1>5, <1>6, <1>7 DEF GuestNext

\* What the three components keep together, in every state of the guest and its bridges.
LEMMA GuestAlways == GuestSpec => []GuestInv
<1>1. ASSUME GuestInit PROVE GuestInv
  <2>1. HookInit /\ InputInit /\ PowerInit
    BY <1>1 DEF GuestInit
  <2>2. HookInv
    BY <2>1, HookInitial DEF HookInv
  <2>3. InputInv
    BY <2>1, InputInitial
  <2>4. PowerInv
    BY <2>1, PowerInitial
  <2> QED BY <2>2, <2>3, <2>4 DEF GuestInv
<1>2. ASSUME GuestInv, [GuestNext]_guestVars PROVE GuestInv'
  <2>1. HookInv /\ InputInv /\ PowerInv
    BY <1>2 DEF GuestInv
  <2>2. [HookNext]_hookVars /\ [InputNext]_inputVars /\ [PowerNext]_powerVars
    BY <1>2, GuestActs DEF EachActs
  <2>3. HookInv'
    BY <2>1, <2>2, HookNextStep
  <2>4. InputInv'
    BY <2>1, <2>2, InputNextStep
  <2>5. PowerInv'
    BY <2>1, <2>2, PowerNextStep
  <2> QED BY <2>3, <2>4, <2>5 DEF GuestInv
<1> QED BY <1>1, <1>2, PTL DEF GuestSpec

\* The model's state stays in its types: the words of the identity, the FIFOs and their
\* generations, the bridges' data, the calls under way and at most one owner of each bridge.
THEOREM GuestTypeCorrect == GuestSpec => []GuestTypeOK
<1>1. GuestInv => GuestTypeOK
  BY DEF GuestInv, HookInv, InputInv, PowerInv, GuestTypeOK
<1> QED BY <1>1, GuestAlways, PTL

\* Whatever the threads of the process do at once, whoever is past the initialisation of the
\* identity finds in all seven words what the launcher has put into the environment, as long
\* as nobody has begun to change them.
THEOREM EnvironmentIsAlwaysRead == GuestSpec => []ReadsTheEnvironment
<1>1. GuestInv => ReadsTheEnvironment
  BY HookSafe DEF GuestInv
<1> QED BY <1>1, GuestAlways, PTL

\* A change of identity that no initialisation and no other change ran beside holds when all
\* is quiet again, also where threads looked at the flag before it was raised.
THEOREM LoneSetterAlwaysSticks == GuestSpec => []LoneSetterSticks
<1>1. GuestInv => LoneSetterSticks
  BY HookSafe DEF GuestInv
<1> QED BY <1>1, GuestAlways, PTL

\* No open() of a binder device ever comes to keep a descriptor, for who holds the broker's
\* mutex is in the look-up at which it waits for itself (the safety half of HangsOnlyByBinder).
THEOREM NoBinderIsEverKept == GuestSpec => [](mDescriptors = 0)
<1>1. GuestInv => mDescriptors = 0
  BY DEF GuestInv, HookInv, BrokerInv
<1> QED BY <1>1, GuestAlways, PTL

\* When the guest has read all of the FIFO the host writes to, it believes the last call if
\* every record of that call found room, however the FIFO was made anew before it, and whatever
\* was refused, cut short or left behind.
THEOREM LastCallAlwaysShows == GuestSpec => []LastCallShows
<1>1. GuestInv => LastCallShows
  BY InputSafe DEF GuestInv
<1> QED BY <1>1, GuestAlways, PTL

\* When no update is on its way the guest finds what the user sees of the battery and of the
\* sensors, under the names by which it opens their files and through all the rules of the
\* hooks, but for nodes that could not be written and a bridge initialised since.
THEOREM GuestAlwaysSeesWhatTheUserSees == GuestSpec => []GuestSeesWhatTheUserSees
<1>1. GuestInv => GuestSeesWhatTheUserSees
  BY PowerSafe DEF GuestInv
<1> QED BY <1>1, GuestAlways, PTL

\* Whichever alias a guest uses for a name of the shared storage, it leads to the one file
\* the name stands for, and no other name leads there; and connect() takes every socket a guest
\* looks for to where open() and stat() find it, although the two have rules of their own,
\* tried in an order of their own: all but the three of the radio and the Wi-Fi supplicant,
\* for which connect() has none and which stay on the host.
THEOREM NamesAlwaysMeet == GuestSpec => []NamesMeet
<1>1. GuestInit => NamesMeet
  BY DEF GuestInit, HookInit, NamesMeet
<1>2. NamesMeet /\ [GuestNext]_guestVars => NamesMeet'
  BY GuestActs, NamesStep DEF EachActs
<1> QED BY <1>1, <1>2, PTL DEF GuestSpec

-----------------------------------------------------------------------------
(* Part 2: the broker of the log. *)

\* What the threads hold where they are.
HandsOK ==
  /\ writer.pc = "handle" => writer.packet \in Packets
  /\ reader.pc \in {"read", "snapshot", "send"} => reader.client \in Readers

\* Consecutive sequence numbers.
Consecutive(s) == \A i \in 1 .. Len(s) : s[i].seq = s[1].seq + i - 1

LEMMA AwayType == Away \in Clients
BY BrokerAssumption DEF Away, Clients

LEMMA TypeInit == ASSUME Init PROVE TypeOK /\ HandsOK
<1>0. dumps \in Nat
  BY BrokerAssumption DEF Init
<1>1. files \in [SlotIndex -> Nat]
  BY DEF Init, SlotIndex
<1>2. writer \in [pc : {"none", "check", "poll", "handle"}, packet : Packets \cup {NoPacket}]
  BY DEF Init, IdleWriter
<1>3. reader \in [pc : {"none", "check", "poll", "read", "snapshot", "send"},
                  client : Readers \cup {NoReader}, lines : Seq(Entries), i : Nat \ {0}]
  BY DEF Init, IdleReader
<1>4. client \in [Readers -> Clients]
  BY AwayType DEF Init
<1>5. ring \in Seq(Entries) /\ queue \in Seq(Packets) /\ received \in Seq(Entries)
  BY DEF Init
<1>6. HandsOK
  BY DEF Init, HandsOK, IdleWriter, IdleReader
<1> QED
  BY <1>0, <1>1, <1>2, <1>3, <1>4, <1>5, <1>6 DEF Init, TypeOK

-----------------------------------------------------------------------------
(* The ring. *)

\* The variables that mLogMutex guards.
LogTypeOK ==
  /\ ring \in Seq(Entries)
  /\ mSeqCounter \in Nat /\ mTotalReceived \in Nat /\ mTotalCrashes \in Nat
  /\ clearedAt \in Nat

\* A tombstone's entry is pushed and the ring is not trimmed.
PushCrash ==
  /\ mSeqCounter' = mSeqCounter + 1
  /\ mTotalCrashes' = mTotalCrashes + 1
  /\ ring' = Push([seq |-> mSeqCounter + 1, buf |-> Crash, prio |-> Fatal])
  /\ UNCHANGED <<mTotalReceived, clearedAt>>

\* What a step does to the ring.
RingStep ==
  \/ \E buf, prio \in 0 .. 7 : appendLog(buf, prio) /\ UNCHANGED clearedAt
  \/ PushCrash
  \/ ring' = <<>> /\ clearedAt' = mSeqCounter /\ UNCHANGED <<mSeqCounter, mTotalReceived, mTotalCrashes>>
  \/ UNCHANGED <<log, clearedAt>>

LEMMA PacketIsLogged ==
  ASSUME NEW p \in Packets, handleLogdwPacket(p), UNCHANGED clearedAt
  PROVE  RingStep
<1>0. p \in PacketType
  BY BrokerAssumption
<1>1. CASE p.kind = "text"
  BY <1>1 DEF handleLogdwPacket, RingStep, Main, Info
<1>2. CASE p.kind = "bare"
  BY <1>2 DEF handleLogdwPacket, RingStep
<1>3. CASE p.kind = "log"
  <2> DEFINE buf  == IF p.id <= 7 THEN p.id ELSE Main
             prio == IF p.prio \in 2 .. 7 THEN p.prio ELSE Info
  <2>1. buf \in 0 .. 7 /\ prio \in 0 .. 7
    BY <1>0 DEF PacketType, Main, Info
  <2>2. appendLog(buf, prio)
    BY <1>3 DEF handleLogdwPacket
  <2> QED
    BY <2>1, <2>2 DEF RingStep
<1> QED
  BY <1>0, <1>1, <1>2, <1>3 DEF PacketType

LEMMA NextIsRingStep == ASSUME HandsOK, [Next]_vars PROVE RingStep
<1>1. CASE UNCHANGED vars
  BY <1>1 DEF vars, disk, RingStep
<1>2. CASE start
  BY <1>2 DEF start, disk, RingStep, System, Info
<1>3. CASE stop
  BY <1>3 DEF stop, disk, RingStep
<1>4. CASE dumpTombstone
  BY <1>4 DEF dumpTombstone, PushCrash, RingStep
<1>5. CASE clearLogs
  BY <1>5 DEF clearLogs, RingStep
<1>6. CASE StopStep
  BY <1>6 DEF StopStep, CloseSockets, JoinWorkers, disk, RingStep
<1>7. CASE WriterStep
  <2>1. CASE WriterHandles
    BY <2>1, PacketIsLogged DEF WriterHandles, HandsOK, disk
  <2>2. CASE WriterChecks \/ WriterReceives \/ WriterTimesOut
    BY <2>2 DEF WriterChecks, WriterReceives, WriterTimesOut, disk, RingStep
  <2> QED
    BY <1>7, <2>1, <2>2 DEF WriterStep
<1>8. CASE ReaderStep
  BY <1>8 DEF ReaderStep, ReaderChecks, ReaderTimesOut, ReaderAccepts, ReaderReads,
     ReaderSnapshots, ReaderSends, ReaderFinishes, disk, RingStep
<1>9. CASE GuestLogs
  BY <1>9 DEF GuestLogs, disk, RingStep
<1>10. ASSUME NEW r \in Readers, ClientConnects(r) \/ ClientReads(r) \/ ClientHangsUp(r) PROVE RingStep
  BY <1>10 DEF ClientConnects, ClientReads, ClientHangsUp, disk, RingStep
<1> QED
  BY <1>1, <1>2, <1>3, <1>4, <1>5, <1>6, <1>7, <1>8, <1>9, <1>10 DEF Next

\* The ring as a sequence: pushing appends one entry, trimming drops at most the first.
LEMMA PushLength ==
  ASSUME ring \in Seq(Entries), NEW e \in Entries
  PROVE  /\ Push(e) \in Seq(Entries)
         /\ Len(Push(e)) = Len(ring) + 1
         /\ \A i \in 1 .. Len(ring) : Push(e)[i] = ring[i]
         /\ Push(e)[Len(ring) + 1] = e
BY DEF Push

LEMMA TrimLength ==
  ASSUME NEW s \in Seq(Entries), s # <<>>
  PROVE  /\ Trim(s) \in Seq(Entries)
         /\ Len(s) <= MaxEntries => Trim(s) = s
         /\ Len(s) > MaxEntries =>
              /\ Len(Trim(s)) = Len(s) - 1
              /\ \A i \in 1 .. Len(s) - 1 : Trim(s)[i] = s[i + 1]
BY BrokerAssumption DEF Trim

LEMMA LogTypeStep == ASSUME LogTypeOK, RingStep PROVE LogTypeOK'
<1>1. ASSUME NEW buf \in 0 .. 7, NEW prio \in 0 .. 7, appendLog(buf, prio), UNCHANGED clearedAt
      PROVE  LogTypeOK'
  <2> DEFINE e == [seq |-> mSeqCounter + 1, buf |-> buf, prio |-> prio]
  <2>1. e \in Entries
    BY DEF LogTypeOK, Entries
  <2>2. Push(e) \in Seq(Entries) /\ Push(e) # <<>>
    BY <2>1, PushLength DEF LogTypeOK, Push
  <2>3. Trim(Push(e)) \in Seq(Entries)
    BY <2>2, TrimLength
  <2> QED
    BY <1>1, <2>3 DEF appendLog, LogTypeOK
<1>2. CASE PushCrash
  <2> DEFINE e == [seq |-> mSeqCounter + 1, buf |-> Crash, prio |-> Fatal]
  <2>1. e \in Entries
    BY DEF LogTypeOK, Entries, Crash, Fatal
  <2>2. Push(e) \in Seq(Entries)
    BY <2>1, PushLength DEF LogTypeOK
  <2> QED
    BY <1>2, <2>2 DEF PushCrash, LogTypeOK
<1>3. CASE ring' = <<>> /\ clearedAt' = mSeqCounter /\ UNCHANGED <<mSeqCounter, mTotalReceived, mTotalCrashes>>
  BY <1>3 DEF LogTypeOK
<1>4. CASE UNCHANGED <<log, clearedAt>>
  BY <1>4 DEF log, LogTypeOK
<1> QED
  BY <1>1, <1>2, <1>3, <1>4 DEF RingStep

\* Push() keeps a window a window.
LEMMA PushWindow ==
  ASSUME LogTypeOK, RingIsAWindow, NEW e \in Entries, e.seq = mSeqCounter + 1
  PROVE  \A i \in 1 .. Len(Push(e)) :
           Push(e)[i].seq = (mSeqCounter + 1) - Len(Push(e)) + i
<1>1. /\ Len(Push(e)) = Len(ring) + 1 /\ Len(ring) \in Nat
      /\ \A i \in 1 .. Len(ring) : Push(e)[i] = ring[i]
      /\ Push(e)[Len(ring) + 1] = e
  BY PushLength DEF LogTypeOK
<1> SUFFICES ASSUME NEW i \in 1 .. Len(ring) + 1
             PROVE  Push(e)[i].seq = (mSeqCounter + 1) - (Len(ring) + 1) + i
  BY <1>1
<1>2. CASE i \in 1 .. Len(ring)
  BY <1>1, <1>2 DEF LogTypeOK, RingIsAWindow
<1>3. CASE i = Len(ring) + 1
  BY <1>1, <1>3 DEF LogTypeOK
<1> QED
  BY <1>1, <1>2, <1>3

LEMMA WindowStep ==
  ASSUME LogTypeOK, RingIsAWindow, RingKeepsTheNewest, RingStep
  PROVE  (RingIsAWindow /\ RingKeepsTheNewest)'
<1> USE BrokerAssumption
<1>1. ASSUME NEW buf \in 0 .. 7, NEW prio \in 0 .. 7, appendLog(buf, prio), UNCHANGED clearedAt
      PROVE  (RingIsAWindow /\ RingKeepsTheNewest)'
  <2> DEFINE e == [seq |-> mSeqCounter + 1, buf |-> buf, prio |-> prio]
             s == Push(e)
  <2>1. e \in Entries /\ e.seq = mSeqCounter + 1
    BY DEF LogTypeOK, Entries
  <2>2. /\ s \in Seq(Entries) /\ Len(s) = Len(ring) + 1 /\ Len(ring) \in Nat /\ s # <<>>
    BY <2>1, PushLength DEF LogTypeOK, Push
  <2>3. \A i \in 1 .. Len(s) : s[i].seq = (mSeqCounter + 1) - Len(s) + i
    BY <2>1, PushWindow
  <2>4. ring' = Trim(s) /\ mSeqCounter' = mSeqCounter + 1 /\ clearedAt' = clearedAt
    BY <1>1 DEF appendLog
  <2> HIDE DEF s
  <2>5. CASE Len(s) <= MaxEntries
    <3>1. ring' = s
      BY <2>2, <2>4, <2>5, TrimLength
    <3>2. RingIsAWindow'
      BY <2>3, <2>4, <3>1 DEF RingIsAWindow
    <3>3. RingKeepsTheNewest'
      <4>1. Len(ring) = mSeqCounter - clearedAt
        BY <2>2, <2>5 DEF RingKeepsTheNewest
      <4> QED
        BY <2>2, <2>4, <3>1, <4>1 DEF LogTypeOK, RingKeepsTheNewest
    <3> QED
      BY <3>2, <3>3
  <2>6. CASE Len(s) > MaxEntries
    <3>1. /\ Len(ring') = Len(s) - 1
          /\ \A i \in 1 .. Len(s) - 1 : ring'[i] = s[i + 1]
      BY <2>2, <2>4, <2>6, TrimLength
    <3>2. ASSUME NEW i \in 1 .. Len(ring')
          PROVE  ring'[i].seq = mSeqCounter' - Len(ring') + i
      <4>1. i \in 1 .. Len(s) - 1 /\ i + 1 \in 1 .. Len(s)
        BY <2>2, <3>1
      <4>2. ring'[i].seq = (mSeqCounter + 1) - Len(s) + (i + 1)
        BY <2>3, <3>1, <4>1
      <4> QED
        BY <2>2, <2>4, <3>1, <4>1, <4>2 DEF LogTypeOK
    <3>3. Len(ring') >= MaxEntries
      BY <2>2, <2>6, <3>1
    <3> QED
      BY <3>2, <3>3 DEF RingIsAWindow, RingKeepsTheNewest
  <2> QED
    BY <2>2, <2>5, <2>6
<1>2. CASE PushCrash
  <2> DEFINE e == [seq |-> mSeqCounter + 1, buf |-> Crash, prio |-> Fatal]
  <2>1. e \in Entries /\ e.seq = mSeqCounter + 1
    BY DEF LogTypeOK, Entries, Crash, Fatal
  <2>2. Len(Push(e)) = Len(ring) + 1 /\ Len(ring) \in Nat
    BY <2>1, PushLength DEF LogTypeOK
  <2>3. RingIsAWindow'
    BY <1>2, <2>1, PushWindow DEF PushCrash, RingIsAWindow
  <2>4. RingKeepsTheNewest'
    BY <1>2, <2>2 DEF PushCrash, RingKeepsTheNewest, LogTypeOK
  <2> QED
    BY <2>3, <2>4
<1>3. CASE ring' = <<>> /\ clearedAt' = mSeqCounter /\ UNCHANGED <<mSeqCounter, mTotalReceived, mTotalCrashes>>
  <2>1. Len(ring') = 0 /\ mSeqCounter' - clearedAt' = 0
    BY <1>3 DEF LogTypeOK
  <2>2. RingKeepsTheNewest'
    BY <2>1 DEF RingKeepsTheNewest
  <2>3. RingIsAWindow'
    BY <2>1 DEF RingIsAWindow
  <2> QED BY <2>2, <2>3
<1>4. CASE UNCHANGED <<log, clearedAt>>
  BY <1>4 DEF log, RingIsAWindow, RingKeepsTheNewest
<1> QED
  BY <1>1, <1>2, <1>3, <1>4 DEF RingStep

-----------------------------------------------------------------------------
(* The threads, the sockets and the files. *)

ReaderType == [pc : {"none", "check", "poll", "read", "snapshot", "send"},
               client : Readers \cup {NoReader}, lines : Seq(Entries), i : Nat \ {0}]

ThreadsTypeOK ==
  /\ mIsRunning \in BOOLEAN /\ bound \in BOOLEAN
  /\ files \in [SlotIndex -> Nat] /\ dumps \in Nat
  /\ ui \in {"idle", "closing", "joining"}
  /\ writer \in [pc : {"none", "check", "poll", "handle"}, packet : Packets \cup {NoPacket}]
  /\ reader \in ReaderType
  /\ queue \in Seq(Packets)
  /\ client \in [Readers -> Clients]
  /\ received \in Seq(Entries)

LEMMA ThreadsTypeStep ==
  ASSUME TypeOK, HandsOK, [Next]_vars
  PROVE  (ThreadsTypeOK /\ HandsOK)'
<1> USE DEF ThreadsTypeOK, HandsOK
<1>0. ThreadsTypeOK
  BY DEF TypeOK, ReaderType
<1>1. CASE UNCHANGED vars
  BY <1>0, <1>1 DEF vars, disk, guests
<1>r. ASSUME NEW pc \in {"none", "check", "poll", "read"}, NEW c \in Readers \cup {NoReader}
      PROVE  [pc |-> pc, client |-> c, lines |-> <<>>, i |-> 1] \in ReaderType
  <2>1. <<>> \in Seq(Entries)
    OBVIOUS
  <2> QED
    BY <2>1 DEF ReaderType
<1>2. CASE start
  <2>1. writer' = [pc |-> "check", packet |-> NoPacket]
    BY <1>2 DEF start, IdleWriter
  <2>2. reader' = [pc |-> "check", client |-> NoReader, lines |-> <<>>, i |-> 1]
    BY <1>2 DEF start, IdleReader
  <2>3. reader' \in ReaderType
    BY <1>r, <2>2
  <2>4. writer' \in [pc : {"none", "check", "poll", "handle"}, packet : Packets \cup {NoPacket}]
    BY <2>1
  <2>5. writer'.pc = "check" /\ reader'.pc = "check"
    BY <2>1, <2>2
  <2> QED
    BY <1>0, <1>2, <2>3, <2>4, <2>5 DEF start, disk, guests
<1>3. CASE stop
  BY <1>0, <1>3 DEF stop, disk, guests
<1>4. CASE dumpTombstone
  <2>1. dumps' = dumps + 1 /\ dumps + 1 \in Nat
    BY <1>0, <1>4 DEF dumpTombstone
  <2>2. ASSUME files' = [files EXCEPT ![NextSlot] = dumps + 1]
        PROVE  files' \in [SlotIndex -> Nat]
    BY <1>0, <2>1, <2>2
  <2>3. files' \in [SlotIndex -> Nat]
    BY <1>0, <1>4, <2>2 DEF dumpTombstone
  <2> QED
    BY <1>0, <1>4, <2>1, <2>3 DEF dumpTombstone, guests
<1>5. CASE clearLogs
  BY <1>0, <1>5 DEF clearLogs, guests
<1>6. CASE StopStep
  <2>1. CASE CloseSockets
    <3>1. client' \in [Readers -> Clients]
      BY <1>0, <2>1, AwayType DEF CloseSockets
    <3>2. queue' \in Seq(Packets)
      BY <2>1 DEF CloseSockets
    <3> QED
      BY <1>0, <2>1, <3>1, <3>2 DEF CloseSockets, disk
  <2>2. CASE JoinWorkers
    BY <1>0, <2>2 DEF JoinWorkers, disk, guests
  <2> QED
    BY <1>6, <2>1, <2>2 DEF StopStep
<1>7. CASE WriterStep
  <2>1. CASE WriterChecks
    BY <1>0, <2>1 DEF WriterChecks, IdleWriter, disk, guests
  <2>2. CASE WriterReceives
    <3>1. Head(queue) \in Packets /\ Tail(queue) \in Seq(Packets)
      BY <1>0, <2>2 DEF WriterReceives
    <3> QED
      BY <1>0, <2>2, <3>1 DEF WriterReceives, disk, guests
  <2>3. CASE WriterHandles
    BY <1>0, <2>3 DEF WriterHandles, IdleWriter, disk, guests
  <2>4. CASE WriterTimesOut
    BY <1>0, <2>4 DEF WriterTimesOut, IdleWriter, disk, guests
  <2> QED
    BY <1>7, <2>1, <2>2, <2>3, <2>4 DEF WriterStep
<1>8. CASE ReaderStep
  <2>0. IdleReader = [pc |-> "none", client |-> NoReader, lines |-> <<>>, i |-> 1]
    BY DEF IdleReader
  <2>1. CASE ReaderChecks
    <3>1. ASSUME NEW pc \in {"none", "poll"},
                 reader' = [pc |-> pc, client |-> NoReader, lines |-> <<>>, i |-> 1]
          PROVE  (ThreadsTypeOK /\ HandsOK)'
      <4>1. reader' \in ReaderType /\ reader'.pc = pc
        BY <1>r, <3>1
      <4> QED
        BY <1>0, <2>1, <3>1, <4>1 DEF ReaderChecks, disk, guests
    <3> QED
      BY <2>0, <2>1, <3>1 DEF ReaderChecks
  <2>2. CASE ReaderTimesOut
    <3>1. reader' = [pc |-> "check", client |-> NoReader, lines |-> <<>>, i |-> 1]
      BY <2>0, <2>2 DEF ReaderTimesOut
    <3>2. reader' \in ReaderType /\ reader'.pc = "check"
      BY <1>r, <3>1
    <3> QED
      BY <1>0, <2>2, <3>2 DEF ReaderTimesOut, disk, guests
  <2>3. ASSUME NEW r \in Readers, ReaderAccepts(r) PROVE (ThreadsTypeOK /\ HandsOK)'
    <3>1. client' \in [Readers -> Clients]
      BY <1>0, <2>3 DEF ReaderAccepts, Clients
    <3>2. reader' = [pc |-> "read", client |-> r, lines |-> <<>>, i |-> 1]
      BY <2>0, <2>3 DEF ReaderAccepts
    <3>3. received' \in Seq(Entries)
      BY <2>3 DEF ReaderAccepts
    <3>4. reader' \in ReaderType /\ reader'.client = r
      BY <1>r, <3>2
    <3> QED
      BY <1>0, <2>3, <3>1, <3>3, <3>4 DEF ReaderAccepts, disk
  <2>4. CASE ReaderReads
    BY <1>0, <2>4 DEF ReaderReads, ReaderType, disk, guests
  <2>5. CASE ReaderSnapshots
    BY <1>0, <2>5 DEF ReaderSnapshots, ReaderType, TypeOK, disk, guests
  <2>6. CASE ReaderSends
    <3>1. reader.lines[reader.i] \in Entries /\ reader.i + 1 \in Nat \ {0}
      BY <1>0, <2>6 DEF ReaderSends, ReaderType
    <3>2. received' \in Seq(Entries)
      BY <1>0, <2>6, <3>1 DEF ReaderSends
    <3>3. reader' \in ReaderType
      BY <1>0, <2>6, <3>1 DEF ReaderSends, ReaderType
    <3>4. reader'.pc = reader.pc /\ reader'.client = reader.client
      BY <1>0, <2>6 DEF ReaderSends, ReaderType
    <3>5. client' \in [Readers -> Clients]
      <4>1. PICK r \in Readers : r = reader.client
        BY <2>6 DEF ReaderSends
      <4>2. client[r] \in Clients /\ client[r].unread < SendBuffer
        BY <1>0, <2>6, <4>1 DEF ReaderSends
      <4>3. client[r].unread + 1 \in 0 .. SendBuffer
        BY <4>2, BrokerAssumption DEF Clients
      <4>4. [client[r] EXCEPT !.unread = @ + 1] \in Clients
        BY <4>2, <4>3 DEF Clients
      <4>5. client' = [client EXCEPT ![r] = [client[r] EXCEPT !.unread = @ + 1]]
        BY <1>0, <2>6, <4>1 DEF ReaderSends
      <4> QED
        BY <1>0, <4>4, <4>5
    <3> QED
      BY <1>0, <2>6, <3>2, <3>3, <3>4, <3>5 DEF ReaderSends, disk
  <2>7. CASE ReaderFinishes
    <3>1. client' \in [Readers -> Clients]
      BY <1>0, <2>7, AwayType DEF ReaderFinishes
    <3>2. received' \in Seq(Entries)
      BY <2>7 DEF ReaderFinishes
    <3>3. reader' = [pc |-> "check", client |-> NoReader, lines |-> <<>>, i |-> 1]
      BY <2>0, <2>7 DEF ReaderFinishes
    <3>4. reader' \in ReaderType /\ reader'.pc = "check"
      BY <1>r, <3>3
    <3> QED
      BY <1>0, <2>7, <3>1, <3>2, <3>4 DEF ReaderFinishes, disk
  <2> QED
    BY <1>8, <2>1, <2>2, <2>3, <2>4, <2>5, <2>6, <2>7 DEF ReaderStep
<1>9. CASE GuestLogs
  <2>1. queue' \in Seq(Packets)
    BY <1>0, <1>9 DEF GuestLogs
  <2> QED
    BY <1>0, <1>9, <2>1 DEF GuestLogs, disk, guests
<1>10. ASSUME NEW r \in Readers, ClientConnects(r) \/ ClientReads(r) \/ ClientHangsUp(r)
       PROVE  (ThreadsTypeOK /\ HandsOK)'
  <2>1. client' \in [Readers -> Clients]
    <3>1. CASE ClientConnects(r)
      BY <1>0, <3>1, AwayType DEF ClientConnects, Clients
    <3>2. CASE ClientReads(r)
      <4>1. client[r] \in Clients /\ client[r].unread > 0
        BY <1>0, <3>2 DEF ClientReads
      <4>2. client[r].unread - 1 \in 0 .. SendBuffer
        BY <4>1, BrokerAssumption DEF Clients
      <4>3. [client[r] EXCEPT !.unread = @ - 1] \in Clients
        BY <4>1, <4>2 DEF Clients
      <4> QED
        BY <1>0, <3>2, <4>3 DEF ClientReads
    <3>3. CASE ClientHangsUp(r)
      BY <1>0, <3>3, AwayType DEF ClientHangsUp
    <3> QED
      BY <1>10, <3>1, <3>2, <3>3
  <2> QED
    BY <1>0, <1>10, <2>1 DEF ClientConnects, ClientReads, ClientHangsUp, disk
<1> QED
  BY <1>1, <1>2, <1>3, <1>4, <1>5, <1>6, <1>7, <1>8, <1>9, <1>10 DEF Next

\* The three parts of the inductive invariant that TypeOK is part of.
TypeInv == TypeOK /\ HandsOK

LEMMA TypeStep == TypeInv /\ [Next]_vars => TypeInv'
<1> SUFFICES ASSUME TypeInv, [Next]_vars PROVE TypeInv'
  OBVIOUS
<1>1. TypeOK /\ HandsOK /\ LogTypeOK
  BY DEF TypeInv, TypeOK, LogTypeOK
<1>2. (ThreadsTypeOK /\ HandsOK)'
  BY <1>1, ThreadsTypeStep
<1>3. LogTypeOK'
  BY <1>1, NextIsRingStep, LogTypeStep
<1> QED
  BY <1>2, <1>3 DEF TypeInv, TypeOK, LogTypeOK, ThreadsTypeOK, ReaderType

LEMMA TypeInvariant == Spec => []TypeInv
<1>1. Init => TypeInv
  BY TypeInit DEF TypeInv
<1> QED
  BY <1>1, TypeStep, PTL DEF Spec

\* The variables keep their types: in particular every entry that reaches the ring has a
\* buffer and a priority in range, whatever the guests send.
THEOREM TypeCorrect == Spec => []TypeOK
<1>1. TypeInv => TypeOK
  BY DEF TypeInv
<1> QED
  BY <1>1, TypeInvariant, PTL

\* The ring is a window of the log, and no shorter than it has to be.
LEMMA WindowInvariant == Spec => [](RingIsAWindow /\ RingKeepsTheNewest)
<1>1. Init => RingIsAWindow /\ RingKeepsTheNewest
  BY BrokerAssumption DEF Init, RingIsAWindow, RingKeepsTheNewest
<1>2. TypeInv /\ (RingIsAWindow /\ RingKeepsTheNewest) /\ [Next]_vars
        => (RingIsAWindow /\ RingKeepsTheNewest)'
  BY NextIsRingStep, WindowStep DEF TypeInv, TypeOK, LogTypeOK
<1> QED
  BY <1>1, <1>2, TypeInvariant, PTL DEF Spec

\* The ring holds the newest entries in the order of their sequence numbers.
THEOREM RingAlwaysAWindow == Spec => []RingIsAWindow
BY WindowInvariant, PTL

\* appendLog, dumpTombstone, clearLogs: no entry is dropped before MaxEntries newer ones are
\* there, in whatever order the workers and the UI log, crash and clear.
THEOREM RingAlwaysKeepsTheNewest == Spec => []RingKeepsTheNewest
BY WindowInvariant, PTL

-----------------------------------------------------------------------------
(* stop() joins. *)

\* Between stop() and the next start() both worker threads are gone.
JoinedInv == ui = "idle" /\ ~mIsRunning => writer.pc = "none" /\ reader.pc = "none"

LEMMA JoinedStep ==
  ASSUME TypeInv, JoinedInv, [Next]_vars
  PROVE  JoinedInv'
<1> USE DEF JoinedInv
<1>0. /\ ui \in {"idle", "closing", "joining"} /\ reader \in ReaderType
      /\ writer \in [pc : {"none", "check", "poll", "handle"}, packet : Packets \cup {NoPacket}]
  BY DEF TypeInv, TypeOK, ReaderType
<1>1. CASE UNCHANGED <<ui, mIsRunning, writer, reader>>
  BY <1>1
<1>2. CASE start \/ stop
  BY <1>2 DEF start, stop
<1>3. CASE dumpTombstone \/ clearLogs
  BY <1>3 DEF dumpTombstone, clearLogs
<1>4. CASE StopStep
  BY <1>4 DEF StopStep, CloseSockets, JoinWorkers
<1>5. CASE WriterStep
  <2>1. writer.pc # "none" /\ UNCHANGED <<ui, mIsRunning>>
    BY <1>5 DEF WriterStep, WriterChecks, WriterReceives, WriterTimesOut, WriterHandles
  <2> QED
    BY <2>1
<1>6. CASE ReaderStep
  <2>1. reader.pc # "none" /\ UNCHANGED <<ui, mIsRunning>>
    BY <1>6 DEF ReaderStep, ReaderChecks, ReaderTimesOut, ReaderAccepts, ReaderReads,
       ReaderSnapshots, ReaderSends, ReaderFinishes
  <2> QED
    BY <2>1
<1>7. CASE GuestLogs
  BY <1>7 DEF GuestLogs
<1>8. ASSUME NEW r \in Readers, ClientConnects(r) \/ ClientReads(r) \/ ClientHangsUp(r) PROVE JoinedInv'
  BY <1>8 DEF ClientConnects, ClientReads, ClientHangsUp
<1> QED
  BY <1>1, <1>2, <1>3, <1>4, <1>5, <1>6, <1>7, <1>8 DEF Next, vars

LEMMA JoinedInvariant == Spec => []JoinedInv
<1>1. Init => JoinedInv
  BY DEF Init, JoinedInv, IdleWriter, IdleReader
<1>2. TypeInv /\ JoinedInv /\ [Next]_vars => JoinedInv'
  BY JoinedStep
<1> QED
  BY <1>1, <1>2, TypeInvariant, PTL DEF Spec

\* After stop() nothing is received until the next start().
THEOREM AlwaysSilentWhenStopped == Spec => SilentWhenStopped
<1> DEFINE Silent ==
             ui = "idle" /\ ~mIsRunning => mIsRunning' \/ mTotalReceived' = mTotalReceived
<1>1. JoinedInv /\ [Next]_vars => [Silent]_vars
  <2> SUFFICES ASSUME JoinedInv, Next, ui = "idle", ~mIsRunning, ~mIsRunning'
               PROVE  mTotalReceived' = mTotalReceived
    OBVIOUS
  <2>1. writer.pc = "none" /\ reader.pc = "none"
    BY DEF JoinedInv
  <2>2. CASE stop \/ dumpTombstone \/ clearLogs \/ GuestLogs
    BY <2>2 DEF stop, dumpTombstone, clearLogs, GuestLogs, log
  <2>3. CASE start \/ StopStep \/ WriterStep
    BY <2>1, <2>3 DEF start, StopStep, CloseSockets, JoinWorkers, WriterStep, WriterChecks,
       WriterReceives, WriterTimesOut, WriterHandles
  <2>4. CASE ReaderStep
    BY <2>1, <2>4 DEF ReaderStep, ReaderChecks, ReaderTimesOut, ReaderAccepts, ReaderReads,
       ReaderSnapshots, ReaderSends, ReaderFinishes
  <2>5. ASSUME NEW r \in Readers, ClientConnects(r) \/ ClientReads(r) \/ ClientHangsUp(r)
        PROVE  mTotalReceived' = mTotalReceived
    BY <2>5 DEF ClientConnects, ClientReads, ClientHangsUp, log
  <2> QED
    BY <2>2, <2>3, <2>4, <2>5 DEF Next
<1> QED
  BY <1>1, JoinedInvariant, PTL DEF Spec, SilentWhenStopped

-----------------------------------------------------------------------------
(* What a client is sent. *)

\* The stretch sent so far is the beginning of the snapshot, and the snapshot, taken in one
\* critical section, has no gap.
SendInv ==
  /\ reader.pc # "send" => received = <<>> /\ reader.i = 1
  /\ reader.pc = "send" =>
       /\ Consecutive(reader.lines)
       /\ reader.i <= Len(reader.lines) + 1
       /\ Len(received) = reader.i - 1
       /\ \A k \in 1 .. Len(received) : received[k] = reader.lines[k]

LEMMA WindowIsConsecutive ==
  ASSUME LogTypeOK, RingIsAWindow
  PROVE  Consecutive(ring)
<1> SUFFICES ASSUME NEW i \in 1 .. Len(ring) PROVE ring[i].seq = ring[1].seq + i - 1
  BY DEF Consecutive
<1>1. 1 \in 1 .. Len(ring) /\ Len(ring) \in Nat
  BY DEF LogTypeOK
<1> QED
  BY <1>1 DEF LogTypeOK, RingIsAWindow

\* Outside the sending loop nothing has been sent.
LEMMA NotSending ==
  ASSUME reader'.pc # "send", reader'.i = 1, received' = <<>>
  PROVE  SendInv'
BY DEF SendInv

LEMMA SendStep ==
  ASSUME TypeInv, RingIsAWindow, JoinedInv, SendInv, [Next]_vars
  PROVE  SendInv'
<1>0. LogTypeOK /\ reader \in ReaderType /\ received \in Seq(Entries)
  BY DEF TypeInv, TypeOK, LogTypeOK, ReaderType
<1>r. IdleReader = [pc |-> "none", client |-> NoReader, lines |-> <<>>, i |-> 1]
  BY DEF IdleReader
<1>1. CASE UNCHANGED <<reader, received>>
  BY <1>1 DEF SendInv
<1>2. CASE start
  <2>1. reader.pc = "none"
    BY <1>2 DEF start, JoinedInv
  <2>2. reader'.pc = "check" /\ reader'.i = 1 /\ received' = received
    BY <1>r, <1>2 DEF start, guests
  <2> QED
    BY <2>1, <2>2, NotSending DEF SendInv
<1>3. CASE ReaderChecks \/ ReaderTimesOut
  <2>1. reader.pc # "send" /\ reader'.pc # "send" /\ reader'.i = 1 /\ received' = received
    BY <1>r, <1>3 DEF ReaderChecks, ReaderTimesOut, guests
  <2> QED
    BY <2>1, NotSending DEF SendInv
<1>4. CASE ReaderReads
  <2>1. reader.pc # "send" /\ reader'.pc # "send" /\ reader'.i = reader.i /\ received' = received
    BY <1>0, <1>4 DEF ReaderReads, ReaderType, guests
  <2> QED
    BY <2>1, NotSending DEF SendInv
<1>5. ASSUME NEW r \in Readers, ReaderAccepts(r) PROVE SendInv'
  <2>1. reader'.pc # "send" /\ reader'.i = 1 /\ received' = <<>>
    BY <1>r, <1>5 DEF ReaderAccepts
  <2> QED
    BY <2>1, NotSending
<1>6. CASE ReaderSnapshots
  <2>1. reader.i = 1 /\ received = <<>>
    BY <1>6 DEF ReaderSnapshots, SendInv
  <2>2. /\ reader'.pc = "send" /\ reader'.lines = ring /\ reader'.i = reader.i
        /\ received' = received
    BY <1>0, <1>6 DEF ReaderSnapshots, guests, ReaderType
  <2> QED
    BY <1>0, <2>1, <2>2, WindowIsConsecutive DEF LogTypeOK, SendInv, Consecutive
<1>7. CASE ReaderSends
  <2> DEFINE lines == reader.lines
             n     == Len(received)
  <2>1. /\ Consecutive(lines) /\ n = reader.i - 1 /\ reader.i <= Len(lines)
        /\ \A k \in 1 .. n : received[k] = lines[k]
    BY <1>7 DEF ReaderSends, SendInv
  <2>2. /\ reader'.pc = "send" /\ reader'.lines = lines /\ reader'.i = reader.i + 1
        /\ received' = Append(received, lines[reader.i])
    BY <1>0, <1>7 DEF ReaderSends, ReaderType
  <2>3. reader.i \in Nat \ {0} /\ lines \in Seq(Entries) /\ lines[reader.i] \in Entries
    BY <1>0, <2>1 DEF ReaderType
  <2>4. Len(received') = n + 1 /\ n \in Nat
    BY <1>0, <2>2, <2>3
  <2>5. ASSUME NEW k \in 1 .. n + 1 PROVE received'[k] = lines[k]
    BY <1>0, <2>1, <2>2, <2>3, <2>4
  <2>6. reader'.i <= Len(lines) + 1 /\ Len(received') = reader'.i - 1
    BY <2>1, <2>2, <2>3, <2>4
  <2> HIDE DEF lines, n
  <2> QED
    BY <2>1, <2>2, <2>4, <2>5, <2>6 DEF SendInv
<1>8. CASE ReaderFinishes
  <2>1. reader'.pc # "send" /\ reader'.i = 1 /\ received' = <<>>
    BY <1>r, <1>8 DEF ReaderFinishes
  <2> QED
    BY <2>1, NotSending
<1>9. CASE stop \/ dumpTombstone \/ clearLogs \/ StopStep \/ WriterStep \/ GuestLogs
  BY <1>1, <1>9 DEF stop, dumpTombstone, clearLogs, StopStep, CloseSockets, JoinWorkers,
     WriterStep, WriterChecks, WriterReceives, WriterTimesOut, WriterHandles, GuestLogs, guests
<1>10. ASSUME NEW r \in Readers, ClientConnects(r) \/ ClientReads(r) \/ ClientHangsUp(r) PROVE SendInv'
  BY <1>1, <1>10 DEF ClientConnects, ClientReads, ClientHangsUp
<1>11. CASE UNCHANGED vars
  BY <1>1, <1>11 DEF vars, guests
<1> QED
  BY <1>2, <1>3, <1>4, <1>5, <1>6, <1>7, <1>8, <1>9, <1>10, <1>11 DEF Next, ReaderStep

\* A logdr client is sent a stretch of the log without a gap.
THEOREM ClientNeverSeesAGap == Spec => []ClientSeesNoGap
<1>1. Init => SendInv
  BY DEF Init, SendInv, IdleReader
<1>2. TypeInv /\ RingIsAWindow /\ JoinedInv /\ SendInv /\ [Next]_vars => SendInv'
  BY SendStep
<1>3. TypeInv /\ SendInv => ClientSeesNoGap
  <2> SUFFICES ASSUME TypeInv, SendInv, NEW i \in 1 .. Len(received)
               PROVE  received[i].seq = received[1].seq + i - 1
    BY DEF ClientSeesNoGap
  <2>1. received \in Seq(Entries) /\ reader \in ReaderType
    BY DEF TypeInv, TypeOK, ReaderType
  <2>2. reader.pc = "send"
    BY <2>1 DEF SendInv
  <2>3. /\ i \in 1 .. Len(reader.lines) /\ 1 \in 1 .. Len(received)
        /\ received[i] = reader.lines[i] /\ received[1] = reader.lines[1]
    BY <2>1, <2>2 DEF SendInv, ReaderType
  <2> QED
    BY <2>2, <2>3 DEF SendInv, Consecutive
<1> QED
  BY <1>1, <1>2, <1>3, TypeInvariant, RingAlwaysAWindow, JoinedInvariant, PTL DEF Spec

-----------------------------------------------------------------------------
(* The tombstone files. *)

\* The files in use are the first ones, without a gap.
FilledInOrder == \E m \in 0 .. Slots : \A k \in SlotIndex : files[k] # 0 <=> k < m

\* A step that leaves the files alone keeps them and overwrites nothing.
Overwrites ==
  \E k \in SlotIndex : files[k] # 0 /\ files'[k] # files[k] /\ Taken # SlotIndex

LEMMA FilesKept ==
  ASSUME FilledInOrder, UNCHANGED files
  PROVE  FilledInOrder' /\ ~Overwrites
BY DEF FilledInOrder, Overwrites

\* Where the first m of them are in use, the next tombstone goes behind them, or to the first
\* one when none is free.
LEMMA NextIsFree ==
  ASSUME TypeOK, NEW m \in 0 .. Slots, \A k \in SlotIndex : files[k] # 0 <=> k < m
  PROVE  NextSlot = IF m = Slots THEN 0 ELSE m
<1>0. Slots \in Nat \ {0} /\ m \in Nat
  BY BrokerAssumption
<1>1. Taken = 0 .. m - 1
  BY <1>0 DEF Taken, SlotIndex
<1>2. CASE m = 0
  <2>1. Taken = {} /\ m # Slots
    BY <1>0, <1>1, <1>2
  <2> QED
    BY <1>2, <2>1 DEF NextSlot
<1>3. CASE m # 0
  <2> DEFINE top == CHOOSE k \in Taken : \A j \in Taken : j <= k
  <2>1. m - 1 \in Taken /\ \A j \in Taken : j <= m - 1
    BY <1>0, <1>1, <1>3
  <2>2. top \in Taken /\ \A j \in Taken : j <= top
    BY <2>1
  <2> HIDE DEF top
  <2>3. top = m - 1
    BY <1>0, <1>1, <2>1, <2>2
  <2>4. NextSlot = (top + 1) % Slots
    BY <2>1 DEF NextSlot, top
  <2>5. top + 1 = m
    BY <1>0, <2>3
  <2>6. Slots % Slots = 0 /\ (m < Slots => m % Slots = m)
    BY <1>0
  <2> QED
    BY <1>0, <2>4, <2>5, <2>6
<1> QED
  BY <1>2, <1>3

LEMMA TombstoneKeepsOrder ==
  ASSUME TypeOK, FilledInOrder, dumpTombstone
  PROVE  FilledInOrder' /\ ~Overwrites
<1>1. CASE UNCHANGED files
  BY <1>1, FilesKept
<1>2. CASE files' = [files EXCEPT ![NextSlot] = dumps + 1]
  <2>1. PICK m \in 0 .. Slots : \A k \in SlotIndex : files[k] # 0 <=> k < m
    BY DEF FilledInOrder
  <2> DEFINE next == IF m = Slots THEN 0 ELSE m
  <2>2. NextSlot = next
    BY <2>1, NextIsFree
  <2>3. Slots \in Nat \ {0} /\ next \in SlotIndex
    BY BrokerAssumption DEF SlotIndex
  <2>4. dumps + 1 # 0 /\ files \in [SlotIndex -> Nat]
    BY DEF TypeOK
  <2>5. \A k \in SlotIndex : files'[k] = IF k = next THEN dumps + 1 ELSE files[k]
    BY <1>2, <2>2, <2>3, <2>4
  <2>6. CASE m = Slots
    <3>1. Taken = SlotIndex
      BY <2>1, <2>3, <2>6 DEF Taken, SlotIndex
    <3>2. \A k \in SlotIndex : files'[k] # 0 <=> k < m
      BY <2>1, <2>4, <2>5, <2>6 DEF SlotIndex
    <3> QED
      BY <3>1, <3>2 DEF FilledInOrder, Overwrites
  <2>7. CASE m # Slots
    <3>1. m + 1 \in 0 .. Slots
      BY <2>3, <2>7
    <3>2. \A k \in SlotIndex : files'[k] # 0 <=> k < m + 1
      BY <2>1, <2>4, <2>5, <2>7 DEF SlotIndex
    <3>3. files[m] = 0 /\ next = m
      BY <2>1, <2>3, <2>7
    <3> QED
      BY <2>5, <3>1, <3>2, <3>3 DEF FilledInOrder, Overwrites
  <2> QED
    BY <2>6, <2>7
<1> QED
  BY <1>1, <1>2 DEF dumpTombstone

LEMMA FilesStep ==
  ASSUME TypeOK, FilledInOrder, [Next]_vars
  PROVE  FilledInOrder' /\ ~Overwrites
<1>1. CASE dumpTombstone
  BY <1>1, TombstoneKeepsOrder
<1>2. CASE start \/ stop \/ clearLogs \/ StopStep \/ GuestLogs
  BY <1>2, FilesKept DEF start, stop, clearLogs, StopStep, CloseSockets, JoinWorkers, GuestLogs,
     disk
<1>3. CASE WriterStep
  BY <1>3, FilesKept DEF WriterStep, WriterChecks, WriterReceives, WriterTimesOut,
     WriterHandles, disk
<1>4. CASE ReaderStep
  BY <1>4, FilesKept DEF ReaderStep, ReaderAccepts, ReaderChecks, ReaderTimesOut, ReaderReads,
     ReaderSnapshots, ReaderSends, ReaderFinishes, disk
<1>5. ASSUME NEW r \in Readers, ClientConnects(r) \/ ClientReads(r) \/ ClientHangsUp(r) PROVE UNCHANGED files
  BY <1>5 DEF ClientConnects, ClientReads, ClientHangsUp, disk
<1>6. CASE UNCHANGED vars
  BY <1>6, FilesKept DEF vars, disk
<1> QED
  BY <1>1, <1>2, <1>3, <1>4, <1>5, <1>6, FilesKept DEF Next

\* dumpTombstone: however many tombstone files there are and however often one cannot
\* be written, a file is overwritten only when none is free.
THEOREM NeverOverwritesEarly == Spec => NoEarlyOverwrite
<1>1. Init => FilledInOrder
  <2> SUFFICES ASSUME Init PROVE FilledInOrder
    OBVIOUS
  <2>1. 0 \in 0 .. Slots /\ \A k \in SlotIndex : files[k] # 0 <=> k < 0
    BY BrokerAssumption DEF Init, SlotIndex
  <2> QED
    BY <2>1 DEF FilledInOrder
<1>2. TypeOK /\ FilledInOrder /\ [Next]_vars => FilledInOrder'
  BY FilesStep
<1>3. TypeOK /\ FilledInOrder /\ [Next]_vars =>
        [\A k \in SlotIndex : files[k] # 0 /\ files'[k] # files[k] => Taken = SlotIndex]_vars
  BY FilesStep DEF Overwrites
<1>4. TypeInv => TypeOK
  BY DEF TypeInv
<1> QED
  BY <1>1, <1>2, <1>3, <1>4, TypeInvariant, PTL DEF Spec, NoEarlyOverwrite
=============================================================================
