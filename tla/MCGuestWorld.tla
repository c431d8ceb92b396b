---------------------------- MODULE MCGuestWorld ----------------------------
(* The changes of identity, the names at the edges of the rules, and the readings. *)
EXTENDS GuestWorld

CONSTANTS System, Shell   \* a user and a group

MCTails == {"0", "1", "2", "r", "w", "x", "-debug"}
MCEnvironments == {[uid |-> System, gid |-> Shell]}
MCChanges == {
  Assign(Uids, [i \in 1 .. 3 |-> Root]), Assign(Uids, [i \in {2} |-> Shell]),
  Assign(Gids, [i \in {1, 3} |-> Root]), SetGroups(Root)}

MCPaths == {Dev("/binder"), Dev("/input") \o <<"/event0">>, <<"/sdcard", "/a">>}

\* Every name a rule begins with, the same with something more behind it, and the aliases.
Endings == {<<>>, <<"/a">>, <<"/0">>, <<"/0", "/a">>, <<"/0", "1", "/a">>, <<"/10">>, <<"x">>,
             <<"2", "/a">>}
MCNames == {m.at \o s : m \in ToSet(Mounts), s \in Endings}
           \cup {r.from \o s : r \in ToSet(Rules), s \in Endings}
           \cup MCPaths
MCSockets == {Socket(n) \o s : n \in {"/property_service", "/netd", "/dnsproxyd", "/logd",
                                     "/rild", "/wpa_wlan0", "/zygote"},
                             s \in Endings \cup {<<"r">>, <<"w">>, <<"-debug">>}}
             \cup {Dev("/log") \o s : s \in Endings}

MCPlaces == {<<0, 0>>, <<1, 1>>}

MCReadings == [
  battery |-> [capacity : {50}, temp : {-1, 1}, ac : {0}],
  sensors |-> [accel : {5}, proximity : {0}]]
MCFactory == [
  battery |-> [capacity |-> 100, temp |-> 3, ac |-> 1],
  sensors |-> [accel |-> 0, proximity |-> 5]]
=============================================================================
