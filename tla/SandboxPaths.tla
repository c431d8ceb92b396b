---------------------------- MODULE SandboxPaths ----------------------------
(***************************************************************************)
(* Where the hooks of a guest process send the names it uses               *)
(* (redirectSandboxPath() and connect() of hook_engine.cpp).  A path is    *)
(* the sequence of the pieces its text is made of, cut wherever a rule of  *)
(* the code begins or ends: "/dev/socket/logdr" is                         *)
(* <<"/dev", "/socket", "/logd", "r">>.  A piece that does not begin with  *)
(* a slash is in Tails.  A redirected path begins with the piece "$".      *)
(***************************************************************************)
EXTENDS Integers, Sequences, SequencesExt, FiniteSetsExt

CONSTANT Tails   \* the pieces that go on with a name instead of beginning one

ASSUME TailsAssumption == "/0" \notin Tails

Sandbox   == <<"$">>
Dev(n)    == <<"/dev", n>>
Socket(n) == <<"/dev", "/socket", n>>
Tmp(n)    == <<"/tmp", n>>
Power     == <<"/sys", "/class", "/power_supply">>
Iio       == <<"/sys", "/bus", "/iio", "/devices">>
Media     == <<"/data", "/media">>
Media0    == Media \o <<"/0">>
Emulated  == <<"/storage", "/emulated">>
Logdw     == Socket("/logd") \o <<"w">>
Logdr     == Socket("/logd") \o <<"r">>

Rest(from, p)    == SubSeq(p, Len(from) + 1, Len(p))
Inside(from, p)  == IsStrictPrefix(from, p) /\ p[Len(from) + 1] \notin Tails
Holds(p, s)      == \E i \in 1 .. Len(p) : IsPrefix(s, SubSeq(p, i, Len(p)))
HoldsDir(p, s)   == \E i \in 1 .. Len(p) : Inside(s, SubSeq(p, i, Len(p)))

-----------------------------------------------------------------------------
(* The rules, in the order in which they are tried: the whole path, its beginning, or what *)
(* is inside a directory; the last keeps the rest of the path or drops it.                  *)

Is(from, to)     == [how |-> "is", from |-> from, to |-> to]
Starts(from, to) == [how |-> "starts", from |-> from, to |-> to]
Drops(from, to)  == [how |-> "drops", from |-> from, to |-> to]
Keeps(from, to)  == [how |-> "keeps", from |-> from, to |-> to]

ProcAndDevRules == <<
  Is(<<"/proc", "/cmdline">>, <<"/proc", "/cmdline">>),
  Is(<<"/dev", "/graphics", "/fb0">>, Tmp("/vfb0")), Is(Dev("/fb0"), Tmp("/vfb0")),
  Starts(Dev("/ashmem"), Tmp("/ashmem_default.raw")),
  Starts(Socket("/property_service"), Socket("/property_service")),
  Starts(Socket("/netd"), Socket("/netd")), Starts(Socket("/dnsproxyd"), Socket("/netd")),
  Starts(Logdw, Logdw), Starts(Socket("/logd"), Logdw), Drops(Dev("/log"), Logdw),
  Starts(Logdr, Logdr),
  Is(<<"/etc", "/resolv.conf">>, <<"/etc", "/resolv.conf">>),
  Is(<<"/etc", "/hosts">>, <<"/etc", "/hosts">>),
  Starts(Dev("/__properties__"), Dev("/__properties_text__")),
  Drops(Dev("/snd"), Tmp("/audio_pcm.raw")),
  Drops(Dev("/input"), Tmp("/touch_event")) >>

SysRules == <<
  Keeps(Power, Power),
  Keeps(<<"/sys", "/devices", "/virtual", "/power_supply">>, Power),
  Keeps(Iio, Iio) >>

VideoRules == <<
  Is(Dev("/video") \o <<"0">>, Tmp("/v4l2_video0.raw")),
  Is(Dev("/video") \o <<"1">>, Tmp("/v4l2_video1.raw")),
  Starts(Dev("/video"), Tmp("/v4l2_video0.raw")) >>

\* Mutant: the primary volume is taken for the directory of all users.
StorageRulesForgetUser ==
  LET both(from, to) == <<Is(from, to), Keeps(from, to)>> IN
    both(<<"/sdcard">>, Media0) \o both(Emulated \o <<"/0">>, Media0)
    \o both(<<"/storage", "/self", "/primary">>, Media)
    \o both(Media0, Media0) \o both(Media, Media) \o both(Emulated, Media)

StorageRules ==
  LET both(from, to) == <<Is(from, to), Keeps(from, to)>> IN
    both(<<"/sdcard">>, Media0) \o both(Emulated \o <<"/0">>, Media0)
    \o both(<<"/storage", "/self", "/primary">>, Media0)
    \o both(Media0, Media0) \o both(Media, Media) \o both(Emulated, Media)

\* Nodes with a file of their own: that of /dev/tee0 is /tmp/dev_tee0.raw, here named by
\* the node's piece.
Nodes == <<"/fuse", "/vhci", "/rfkill", "/tee0", "/ion", "/qseecom", "/fingerprint",
           "/kgsl-3d0", "/mali0", "/usb_accessory", "/mtp_usb", "/android_adb">>
Whole(names) == [i \in DOMAIN names |-> Is(names[i], names[i])]

NodeRules ==
  Whole(<<<<"/proc", "/mounts">>, Socket("/rild"), Socket("/rild") \o <<"-debug">>,
          Socket("/wpa_wlan0")>>)
  \o [i \in DOMAIN Nodes |-> Is(Dev(Nodes[i]), Tmp(Nodes[i]))]
  \o <<Is(Dev("/qfp-nodisplay"), Tmp("/fingerprint")), Is(Dev("/esfp0"), Tmp("/fingerprint")),
       Is(<<"/dev", "/dri", "/card0">>, Tmp("/card0")),
       Is(<<"/dev", "/dri", "/renderD128">>, Tmp("/renderD128"))>>

Rules == ProcAndDevRules \o SysRules \o VideoRules \o StorageRules \o NodeRules

Matches(rule, p) ==
  CASE rule.how = "is"     -> p = rule.from
    [] rule.how = "starts" -> IsPrefix(rule.from, p)
    [] OTHER               -> Inside(rule.from, p)

\* The first rule that matches; a path none matches stays as it is.
Redirect(p) ==
  LET hits == {i \in DOMAIN Rules : Matches(Rules[i], p)}
      rule == Rules[Min(hits)]
  IN IF hits = {} THEN p
     ELSE Sandbox \o rule.to \o (IF rule.how = "keeps" THEN Rest(rule.from, p) ELSE <<>>)

-----------------------------------------------------------------------------
(* open() and openat() take a path that has the name of a binder device anywhere in it for *)
(* that device; connect() looks for the names of its sockets in the same way.              *)

IsBinder(p) == \E n \in {"/binder", "/hwbinder", "/vndbinder"} : Holds(p, Dev(n))

\* The rules of connect(), in order: the names one looks for, and where it connects to.
ConnectRules == <<
  [has |-> {Socket("/property_service")}, to |-> Socket("/property_service")],
  [has |-> {Socket("/netd"), Socket("/dnsproxyd")}, to |-> Socket("/netd")],
  [has |-> {Logdw, Socket("/logd"), Dev("/log")}, to |-> Logdw],
  [has |-> {Logdr}, to |-> Logdr] >>

\* "/dev/log/" is looked for with its last slash.
LooksFor(s, p) == IF s = Dev("/log") THEN HoldsDir(p, s) ELSE Holds(p, s)

ConnectTo(p) ==
  LET hits == {i \in DOMAIN ConnectRules : \E s \in ConnectRules[i].has : LooksFor(s, p)}
  IN IF hits = {} THEN p ELSE Sandbox \o ConnectRules[Min(hits)].to

-----------------------------------------------------------------------------
(* What the names stand for. *)

\* The names of the shared storage, and where Android keeps it.
Mounts == <<[at |-> <<"/sdcard">>, of |-> Media0],
            [at |-> <<"/storage", "/self", "/primary">>, of |-> Media0],
            [at |-> Emulated, of |-> Media], [at |-> Media, of |-> Media]>>

StorageFile(p) ==
  {m.of \o Rest(m.at, p) : m \in {x \in ToSet(Mounts) : x.at = p \/ Inside(x.at, p)}}
=============================================================================
