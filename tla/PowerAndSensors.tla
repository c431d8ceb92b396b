-------------------------- MODULE PowerAndSensors --------------------------
(***************************************************************************)
(* The battery and the sensors of the guest (battery_bridge.cpp,           *)
(* sensor_bridge.cpp, GsiBatteryManager.kt, GsiSensorManager.kt): what the *)
(* host measures or the user pretends is kept by the UI, merged into the   *)
(* bridge's data and written, node by node, to the files and properties    *)
(* the guest looks at.  A bridge's mutex is held from the change of the    *)
(* data to the last node.  onCreate() and a live boot initialise both      *)
(* bridges, which resets their data and nothing the UI keeps.  Readings    *)
(* are in the ranges to which the bridges clamp them; the FIFO to which    *)
(* the sensors' events are copied is left out.                             *)
(***************************************************************************)
EXTENDS SandboxPaths

CONSTANTS
  Readings,    \* of the battery, of the sensors: what the host measures or the user pretends
  Factory,     \* the data of a bridge that has been initialised
  MaxUpdates,  \* bound: measurements, pretences and openings of the activity
  MaxResets,   \* bound: live boots
  MaxLost      \* bound: nodes whose last write has failed

Hals   == {"battery", "sensors"}
Fields == [battery |-> {"capacity", "temp", "ac"}, sensors |-> {"accel", "proximity"}]

\* accel = 0 is the portrait orientation, Jolt what a shake pretends.
Jolt == 9

ASSUME PowerAssumption ==
  /\ DOMAIN Readings = Hals /\ DOMAIN Factory = Hals
  /\ \A h \in Hals : /\ Readings[h] \subseteq [Fields[h] -> Int]
                     /\ Factory[h] \in [Fields[h] -> Int]
  /\ Factory["battery"]["temp"] > 0
  /\ Tails \cap {"/battery", "/ac", "/iio:device0"} = {}
  /\ MaxUpdates \in Nat /\ MaxResets \in Nat /\ MaxLost \in Nat

\* A few of the nodes of each bridge, in the order in which syncToSysfs() writes them, with
\* the fields each shows: a node is a file, by its name in the guest, or a property.
Battery == Power \o <<"/battery">>
Device0 == Iio \o <<"/iio:device0">>
Listed(names, fields) == [i \in DOMAIN names |-> [node |-> names[i], shows |-> fields[i]]]
NodesOf == [
  battery |->
    Listed(<<Battery \o <<"/capacity">>, Battery \o <<"/uevent">>,
             Power \o <<"/ac", "/online">>, <<"persist.sys.battery.level">>>>,
           <<{"capacity"}, {"capacity", "temp"}, {"ac"}, {"capacity"}>>),
  sensors |->
    Listed(<<Device0 \o <<"/in_accel_x_raw">>, Device0 \o <<"/in_proximity_input">>>>,
           <<{"accel"}, {"proximity"}>>)]

IsFile(node)   == Len(node) > 1
HostName(node) == IF IsFile(node) THEN Sandbox \o node ELSE node
AllNodes       == UNION {{NodesOf[h][i].node : i \in DOMAIN NodesOf[h]} : h \in Hals}

VARIABLES
  mInfo,    \* mInfo and mData
  mInitialized,
  content,  \* what is in each file and property, by its name on the host
  owner,    \* who holds the bridge's mutex
  todo,     \* the bridge calls each caller has left, and the nodes of the one in progress
  current,  \* currentState of the UI's managers
  isAutoSync,
  listening,   \* receiverRegistered and isListening
  settling,    \* how many settlings of a shake are posted
  reset,    \* history: the bridge was initialised after the last update from the UI
  lost,     \* history: the nodes whose last write has failed
  updates, resets

uiKeeps   == <<current, isAutoSync, listening, settling>>
bridgeNow == <<mInfo, mInitialized, reset>>
powerVars == <<bridgeNow, content, owner, todo, uiKeeps, lost, updates, resets>>

HalCallers == {"ui", "live"}
Blank      == [f \in {} |-> 0]
Told(fields, data) == [f \in fields |-> data[f]]

PowerTypeOK ==
  /\ DOMAIN mInfo = Hals /\ DOMAIN current = Hals
  /\ \A h \in Hals : mInfo[h] \in [Fields[h] -> Int] /\ current[h] \in [Fields[h] -> Int]
  /\ mInitialized \in [Hals -> BOOLEAN] /\ isAutoSync \in [Hals -> BOOLEAN]
  /\ listening \in [Hals -> BOOLEAN]
  /\ owner \in [Hals -> SUBSET HalCallers]
  /\ \A h \in Hals : Cardinality(owner[h]) <= 1
  /\ DOMAIN content = {HostName(n) : n \in AllNodes} /\ lost \subseteq AllNodes
  /\ settling \in Nat /\ reset \in [Hals -> BOOLEAN]
  /\ updates \in 0 .. MaxUpdates /\ resets \in 0 .. MaxResets

\* What syncToSysfs() leaves in the nodes.
Synced(data) ==
  [n \in {HostName(m) : m \in AllNodes} |->
     LET h == CHOOSE x \in Hals : \E i \in DOMAIN NodesOf[x] : HostName(NodesOf[x][i].node) = n
         i == CHOOSE j \in DOMAIN NodesOf[h] : HostName(NodesOf[h][j].node) = n
     IN Told(NodesOf[h][i].shows, data[h])]

\* onCreate() has initialised both bridges, or has failed to prepare the sandbox.
PowerInit ==
  /\ mInfo = Factory /\ current = Factory
  /\ \E done \in BOOLEAN :
       /\ mInitialized = [h \in Hals |-> done] /\ listening = mInitialized
       /\ content = IF done THEN Synced(Factory)
                    ELSE [n \in {HostName(m) : m \in AllNodes} |-> Blank]
  /\ owner = [h \in Hals |-> {}]
  /\ todo = [c \in HalCallers |-> <<>>]
  /\ isAutoSync = [h \in Hals |-> TRUE] /\ settling = 0
  /\ reset = [h \in Hals |-> FALSE] /\ lost = {}
  /\ updates = 0 /\ resets = 0

-----------------------------------------------------------------------------
(* The bridges. *)

\* A call on its way: what it does, and the nodes it still has to write.
Initialize(h)       == [hal |-> h, op |-> "initialize", data |-> Factory[h], left |-> <<>>]
Update(h, reading)  == [hal |-> h, op |-> "update", data |-> reading, left |-> <<>>]
Working(c)          == todo[c] # <<>> /\ c \in owner[Head(todo[c]).hal]

\* Mutant: a charger that is pulled out stays plugged in.
MergedKeepsPlug(h, old, new) ==
  [f \in Fields[h] |-> IF f \in {"temp", "ac"} /\ new[f] <= 0 THEN old[f] ELSE new[f]]

\* updateBattery() keeps the temperature it has where the new one is not above zero.
Merged(h, old, new) == [f \in Fields[h] |-> IF f = "temp" /\ new[f] <= 0 THEN old[f] ELSE new[f]]

\* The mutex is taken, the data changed; a bridge that is not initialised refuses an update.
BeginsCall(c) ==
  /\ todo[c] # <<>> /\ ~ Working(c)
  /\ LET k == Head(todo[c])  h == k.hal IN
       /\ owner[h] = {}
       /\ IF k.op = "update" /\ ~ mInitialized[h]
          THEN /\ todo' = [todo EXCEPT ![c] = Tail(@)]
               /\ UNCHANGED <<bridgeNow, owner>>
          ELSE /\ mInfo' = [mInfo EXCEPT ![h] =
                              IF k.op = "update" THEN Merged(h, @, k.data) ELSE k.data]
               /\ mInitialized' = [mInitialized EXCEPT ![h] = TRUE]
               /\ reset' = [reset EXCEPT ![h] = k.op = "initialize"]
               /\ owner' = [owner EXCEPT ![h] = {c}]
               /\ todo' = [todo EXCEPT ![c][1].left = NodesOf[h]]
  /\ UNCHANGED <<content, uiKeeps, lost, updates, resets>>

\* A node is written.  A file that cannot be opened stays as it is, one that cannot be
\* written has been emptied.
WritesNode(c) ==
  /\ Working(c) /\ Head(todo[c]).left # <<>>
  /\ LET k == Head(todo[c])
         n == Head(k.left)
         now == Told(n.shows, mInfo[k.hal])
     IN \/ content' = [content EXCEPT ![HostName(n.node)] = now] /\ lost' = lost \ {n.node}
        \/ /\ IsFile(n.node) /\ Cardinality(lost \ {n.node}) < MaxLost
           /\ content' \in {content, [content EXCEPT ![HostName(n.node)] = Blank]}
           /\ lost' = lost \cup {n.node}
  /\ todo' = [todo EXCEPT ![c][1].left = Tail(@)]
  /\ UNCHANGED <<bridgeNow, owner, uiKeeps, updates, resets>>

EndsCall(c) ==
  /\ Working(c) /\ Head(todo[c]).left = <<>>
  /\ owner' = [owner EXCEPT ![Head(todo[c]).hal] = {}]
  /\ todo' = [todo EXCEPT ![c] = Tail(@)]
  /\ UNCHANGED <<bridgeNow, content, uiKeeps, lost, updates, resets>>

-----------------------------------------------------------------------------
(* The callers. *)

Handles == todo["ui"] = <<>> /\ updates < MaxUpdates /\ updates' = updates + 1

\* The UI keeps a reading as its current state and hands it to the bridge.
KeepsReading(h, reading) ==
  /\ current' = [current EXCEPT ![h] = reading]
  /\ todo' = [todo EXCEPT !["ui"] = <<Update(h, reading)>>]

\* A measurement of the host: a broadcast with a whole battery, or one sensor's event.
Measured(h, r) == h = "sensors" => \E f \in Fields[h] : r = [current[h] EXCEPT ![f] = r[f]]

HostMeasures(h) ==
  /\ Handles /\ isAutoSync[h] /\ listening[h]
  /\ \E r \in Readings[h] : Measured(h, r) /\ KeepsReading(h, r)
  /\ UNCHANGED <<bridgeNow, content, owner, isAutoSync, listening, settling, lost, resets>>

\* A chip pretends a whole battery or an orientation, and the host's are no longer looked at.
Pretends(h) ==
  /\ Handles /\ isAutoSync' = [isAutoSync EXCEPT ![h] = FALSE]
  /\ \E r \in Readings[h] :
       KeepsReading(h, IF h = "battery" THEN r ELSE [current[h] EXCEPT !["accel"] = r["accel"]])
  /\ UNCHANGED <<bridgeNow, content, owner, listening, settling, lost, resets>>

\* simulateProximity() goes on following the host: it leaves the manager's isAutoSync alone.
PretendsNear ==
  /\ Handles
  /\ \E r \in Readings["sensors"] :
       KeepsReading("sensors", [current["sensors"] EXCEPT !["proximity"] = r["proximity"]])
  /\ UNCHANGED <<bridgeNow, content, owner, isAutoSync, listening, settling, lost, resets>>

Shakes ==
  /\ Handles /\ isAutoSync' = [isAutoSync EXCEPT !["sensors"] = FALSE]
  /\ KeepsReading("sensors", [current["sensors"] EXCEPT !["accel"] = Jolt])
  /\ settling' = settling + 1
  /\ UNCHANGED <<bridgeNow, content, owner, listening, lost, resets>>

\* 300 ms later the device is in portrait, whatever the user has chosen in between.
Settles ==
  /\ settling > 0 /\ todo["ui"] = <<>> /\ settling' = settling - 1
  /\ isAutoSync' = [isAutoSync EXCEPT !["sensors"] = FALSE]
  /\ KeepsReading("sensors", [current["sensors"] EXCEPT !["accel"] = 0])
  /\ UNCHANGED <<bridgeNow, content, owner, listening, lost, updates, resets>>

\* The chips that follow the host again; the battery's last broadcast is at hand, the sensors
\* are listened to if they are not.
Follows(h) ==
  /\ Handles /\ isAutoSync' = [isAutoSync EXCEPT ![h] = TRUE]
  /\ IF h = "battery" THEN UNCHANGED listening /\ \E r \in Readings[h] : KeepsReading(h, r)
     ELSE listening' = [listening EXCEPT ![h] = TRUE] /\ UNCHANGED <<current, todo>>
  /\ UNCHANGED <<bridgeNow, content, owner, settling, lost, resets>>

\* onDestroy() and onCreate() once more: the managers are objects and keep their state, the
\* bridges do not; where the host is followed its last broadcast comes at once.  Without a
\* sandbox nobody is initialised or listens.
Reopens ==
  /\ Handles
  /\ \/ /\ ~ isAutoSync["battery"] /\ UNCHANGED current
        /\ todo' = [todo EXCEPT !["ui"] = <<Initialize("battery"), Initialize("sensors")>>]
        /\ listening' = [h \in Hals |-> TRUE]
     \/ /\ isAutoSync["battery"]
        /\ \E r \in Readings["battery"] :
             /\ current' = [current EXCEPT !["battery"] = r]
             /\ todo' = [todo EXCEPT !["ui"] = <<Initialize("battery"), Update("battery", r),
                                                 Initialize("sensors")>>]
        /\ listening' = [h \in Hals |-> TRUE]
     \/ listening' = [h \in Hals |-> FALSE] /\ UNCHANGED <<current, todo>>
  /\ UNCHANGED <<bridgeNow, content, owner, isAutoSync, settling, lost, resets>>

LiveBoots ==
  /\ todo["live"] = <<>> /\ resets < MaxResets /\ resets' = resets + 1
  /\ todo' = [todo EXCEPT !["live"] = <<Initialize("battery"), Initialize("sensors")>>]
  /\ UNCHANGED <<bridgeNow, content, owner, uiKeeps, lost, updates>>

UiBegins ==
  (\E h \in Hals : HostMeasures(h) \/ Pretends(h) \/ Follows(h))
  \/ PretendsNear \/ Shakes \/ Reopens
PowerStep(c) == BeginsCall(c) \/ WritesNode(c) \/ EndsCall(c)

-----------------------------------------------------------------------------
(* Properties. *)

\* What the guest finds under the name it knows is in the file the bridge has written.
Found(node) == IF IsFile(node) THEN Redirect(node) ELSE node

\* When no update is on its way the guest finds, under the names it uses and in the
\* properties, what the user sees, but for nodes that could not be written, a temperature
\* that is not above zero, and a bridge that was initialised since.
GuestSeesWhatTheUserSees ==
  \A h \in Hals :
    (/\ owner[h] = {} /\ mInitialized[h] /\ ~ reset[h]
     /\ \A i \in DOMAIN todo["ui"] : todo["ui"][i].hal # h)
    => \A i \in DOMAIN NodesOf[h] :
         LET n == NodesOf[h][i]
             seen == {f \in n.shows : ~ (f = "temp" /\ current[h][f] <= 0)}
         IN n.node \in lost
            \/ /\ Found(n.node) \in DOMAIN content
               /\ Told(seen, content[Found(n.node)]) = Told(seen, current[h])
=============================================================================
