# GsiRuntime Engine in TLA+

TLA+ models of the native services of GsiRuntime Engine, the TLC runs that check them on
small instances, and TLAPS proofs about them for every instance. Paths below are relative to
the repository; `cpp/` stands for `app/src/main/cpp/`, `kt/` for
`app/src/main/java/com/gsi/runtime/`.

GsiRuntime Engine is an Android app that boots a Generic System Image without root: it mounts
or unpacks the image, imitates the services a guest expects (properties, logcat, audio,
telephony, camera, ...) with threads and local sockets, runs guest programs under a hook
library, and shows it all on one screen. Nearly every native call comes from the UI thread of
`MainActivity.kt`; the exceptions are the extraction thread, the network test, the audio
player and the live boot, which starts half of the services from a thread of its own. There
are no automated tests in the repository.

## 1. Inventory

| Component | State | Operations | What is hard | What makes it correct |
|---|---|---|---|---|
| **Process spawner** `cpp/process_spawner.cpp` | child pid, running flag, exit code (atomics), three pipes, output buffer, `mIoThread` | `execute`, `sendInput`, `pollOutput`, `isRunning`, `terminate`, `ioLoop` | three places reap one child; blocking reads of shared pipe members; background processes that hold a pipe | nothing is left after `terminate`; the exit code is this child's; a running child is read; poll and kill end |
| **Logcat broker** `cpp/logcat_broker.cpp` | ring of entries with sequence numbers, statistics, tombstone files, two sockets and workers | `start`, `stop`, `appendLog`, `handleLogdwPacket`, `handleLogdrClient`, `dumpTombstone`, `clearLogs` | two workers and the UI append; clients read while entries go; stop joins workers that may block | no gap, no doubling; the newest are kept; silence after stop; stop ends but for a client that holds the worker |
| **Audio bridge** `cpp/audio_bridge.cpp`, `kt/GsiAudioPlayer.kt` | PCM ring with positions, counters, player thread and its flag | `initialize`, `shutdown`, `writeSamples`, `readSamples`, `synthesizeChime`; player `start`, `stop`, loop | flag read before the mutex; wrap-around; a player that outlives its join | a bounded queue that truncates; positions agree; old players leave |
| **Property service** `cpp/property_service.cpp` | the map, the property file, socket, worker, flag | `start`, `stop`, `setProperty`, `loadFromBuildProp`, `flushPropertiesToFile`, `workerLoop`, `handleClient` | the file is written outside the lock from three threads; start/stop overlap | the file shows the map; calls return; nothing is served when off |
| **Boot manager** `cpp/boot_manager.cpp` | service table, phase, booting flag, worker thread | `startBootSequence`, `stopBootSequence`, `bootWorker`, `executeTriggerActions`, service start/stop/restart, `loadInitFromVfs` | UI and live boot start and stop one worker without a lock around check, join and create | a completed boot has its services; phase and flag belong to the worker; stop ends |
| **Live boot** `cpp/live_boot_runner.cpp` | none of its own | `bootFromFd`: mount, load props and init, start services, wait for the boot, chime | a second caller of all of the above | the wait ends; what it announces is so |
| **Init parser** `cpp/init_parser.cpp` | actions and services, an index by name | `parseScriptContent`, `loadFromVfs` | sections that end with the next header or the file, a service defined twice, a trigger in several files, services that no script defines | a boot starts what the scripts ask for |
| **Image reader** `cpp/block_device.cpp`, `ext4_reader.cpp`, `image_verifier.cpp`, the mount in `gsi_engine.cpp` and `MainActivity.kt` | chunk table of a sparse image, superblock geometry, the number of a descriptor; the mounted reader under `gFsMutex` | select, verify, mount, close; inode, extents, file data, directory lookup | chunk boundaries, extent trees, cut-off files; the UI closes and reopens a descriptor whose number readers keep; UI, extraction and live boot read at once | the bytes read are those of the file; what is read after a selection is the selection's |
| **Extractor** `cpp/gsi_extractor.cpp` | counters of one extraction | walk a list of directories, write the files | an extraction holds `gFsMutex` throughout | the files written are those read |
| **Socket bridges** `cpp/telephony_bridge.cpp`, `bluetooth_bridge.cpp`, `network_bridge.cpp`, `usb_bridge.cpp`, the chips of `MainActivity.kt` | flag, socket and worker thread each; state of SIM, Wi-Fi and adapter under a mutex, and the properties that show it | `initialize`, `shutdown`, toggles, server loop | double initialisation by UI and live boot, a socket closed under its loop, blocking reads of silent guests in a thread the UI joins | no joinable thread is assigned to; nothing is left after a shutdown; properties say what the state is; guests are answered and handlers return |
| **Camera bridge** `cpp/camera_bridge.cpp` | two streams, each with a generator thread and its flag | `initialize`, `startStream`, `stopStream`, generator | the generator gives up with its flag raised; a live boot resets the streams while they run | a generator is joined before the next; a stopped stream draws no more |
| **Display** `cpp/display_pipeline.cpp`, `virtual_framebuffer.cpp`, `gralloc_bridge.cpp`, `gpu_bridge.cpp`, the mode buttons of `MainActivity.kt` | window of the surface, render thread and its flag, mapping of the framebuffer, animation thread and its flag | set and clear the surface, start and stop rendering and the animation, draw, map anew | the animation is started and stopped from two threads without a lock; pixels are drawn without the framebuffer's | frames go to the surface there is; a raised flag has its thread; what is drawn lands in the framebuffer; handlers return |
| **Binder** `cpp/virtual_binder.cpp` | descriptors under one mutex | create, look up, ioctl, close | the broker closes a descriptor with its mutex held, and that `close()` is the hook that asks the broker | calls return |
| **Keystore, DRM** `cpp/keystore_bridge.cpp`, `drm_bridge.cpp` | maps of keys and sessions, a flag | generate/enrol/delete, open/close, toggle | none: one mutex, one caller | an open session has its keys |
| **Input** `cpp/input_bridge.cpp`, the touch listener of `MainActivity.kt` | FIFO descriptor, made anew with the activity | a few records per touch or key, written without waiting | a full FIFO refuses the rest of a touch; a guest holds the FIFO of an earlier activity | the guest's screen is right again after one whole touch |
| **Battery, sensors** `cpp/battery_bridge.cpp`, `sensor_bridge.cpp`, `kt/GsiBatteryManager.kt`, `GsiSensorManager.kt` | a bridge's data under its mutex, files and properties; the manager's state, what it follows, a settling on its way | `initialize`, update, write every node; measure, pretend, shake, follow | data reset by the live boot under the UI, nodes written one by one, a write that fails, a value that is refused | the guest sees what the user sees |
| **Storage** `cpp/storage_bridge.cpp` | directories | made once | none | pure output |
| **JNI engine and UI** `cpp/gsi_engine.cpp`, `kt/MainActivity.kt` | mounted image under `gFsMutex`, the widgets, posted runnables | every JNI call | the call order, a reopen that fails | the screen follows the services |
| **Hook library** `cpp/hook_engine.cpp` | seven words of identity and a flag, per process | interposed libc calls: names, sockets, identity, descriptors | initialised by whoever calls first, without a lock; two ordered lists of rules for one name | the identity is that of the environment or of the last change; the names of one thing lead to one file |
| **Init runner, sandbox** `cpp/init_runner.cpp`, `sandbox_manager.cpp` | directories | preparation, self-check | none | sequential I/O |

How they interact: the UI and the live boot call the modelled services; the boot manager
and the live boot set properties through the property service; guests talk to the property
service, the logcat broker and netd over sockets, and to the property file, the touch FIFO,
the framebuffer and the battery's and sensors' files, by the names the hook library gives them
(the rild sockets it leaves out, see section 3); the audio player pulls from the ring the chimes are pushed into; the UI polls
the spawner and the boot phase with runnables that post themselves again; the file browser, the extraction
thread and the live boot read the image the UI has opened.

The dangers each component is exposed to are the 40 entries `hazards` of `PROJECT.json`, each
at its line, with the property that watches it or the reason why none does.

## 2. Modules

| Module | Models | State and actions |
|---|---|---|
| `ProcessSpawner` | process spawner, with the kernel's side of children and pipes | `mChildPid`, `mIsRunning`, `mExitCode` as in the code; `fd` is whose pipes the members name, `open` the parent's open ends; `ui` and `io` are the two threads' places. One action per system call or access to an atomic |
| `LogcatBroker` | logcat broker | `ring` under `mMutex`, so append, handle, dump and clear are one step each; the workers go through check, poll, receive, handle, and check, accept, read, snapshot, send |
| `AudioBridge`, `BoundedFifo` | audio bridge and player; the abstract queue it implements | positions and counters as in the code; a chime is the flag's look, the samples, and the locked write; players are the thread objects `start()` creates |
| `PropertyService` | property service | the map `props` under `mPropMutex`; the file between truncation and write; `call` is where each calling thread is |
| `BootManager` | boot manager, its callers, the badge poll | `status` and `announced` of services; the worker with the commands it has left; starts and stops step by step |
| `InitParser` | init parser | functions, no state: the table and the open section after each line of a script (`Parses`), the table after each script of an image (`ScriptTables`) and after each vital service (`CoreTables`) |
| `BootFromScript` | boot manager on what the parser made of an image | the constants of `BootManager` (`Services`, `Core`, `Main`, `Disabled`, `Commands`), read off the parser's table of the constant `Image` |
| `ImageReader` | image reader, and who selects, mounts and reads an image | `table` is the file behind each descriptor number, `device` the mounted reader and that of the live boot, `job` the file each thread reads; one action per block that is read |
| `DisplayPipeline` | render thread, framebuffer, boot animation, GPU test, the UI's handlers and the live boot | `mNativeWindow` is the number of a surface, `vfb` the address and sizes of the mapping, `pointer` what the two drawers that use no lock have fetched; `todo` is what is left of the UI's handler, `pc` where its native call and the live boot's are |
| `DeviceBridges` | cameras, netd, rild sockets, radios and vhci, their callers and guests | `mGeneratorRunning` and `isStreaming` per camera; per daemon its flag (`running`), socket (`listening`) and thread (`worker`), with `backlog`, `served` and `silent` guests; `enabled` is a radio's state, `told` what the properties say of it |
| `SandboxPaths` | `redirectSandboxPath()`, the rules of `open()` and `connect()` | functions, no state: a path is a sequence of pieces, a rule says how it matches and where it leads |
| `HookEngine` | identity, names and binder broker of one guest process | `id` is the words of the identity, one action per load or store; `call` is where each thread is in the hooks; `mMutex` is the broker's |
| `InputBridge` | touch FIFO, its writer and a guest that reads it | `fifo` is the records of each FIFO ever made, `out` what the call in progress has left to write, `view` and `shown` what the guest has heard and believes |
| `PowerAndSensors` | battery and sensor bridges, the UI's managers, the live boot | `mInfo` is both bridges' data, `current` what the managers keep, `content` what is in each node; one action per node that is written |
| `GuestWorld` | composition of the last four | the guest opens the FIFO and finds the nodes under the names the rules give |
| `MC*` | constants for TLC | values that a `.cfg` cannot write |
| `*_proofs` | theorems | one for each of the first eight components; the broker's share `GuestAndLogs_proofs` with those of `GuestWorld`, whose guest is led to the broker's sockets |

The modules abstract text, time, paths, wire formats and statistics. Time is
nondeterminism: a timeout may happen at any moment at which it is armed. A mutex whose critical
section makes no blocking call is one atomic step. Two threads that assign to a joinable
`std::thread`, or join one twice, end the process (`std::terminate`); `crashed` records it and
nothing happens afterwards. Each `*Mutant*` comment marks an operator that no action uses: it is
a plausible mistake in the code, kept beside the operator it would replace, to see that the
properties notice it (`mutants` in `PROJECT.json`).

### ProcessSpawner
`execute` is split at `pipe2`/`fork`, the raised flag, the reset code and the join of the
previous reader, since `ioLoop`, `isRunning` and `terminate` look at the same atomics between
them. `ioLoop` is check, poll, the two reads, waitpid, the two drains and the end of the thread;
it re-reads the pipe members in the drains as the code does. A child writes its program's chunks into pipes
of capacity `PipeCap`, may leave a background process that holds its ends, and exits or is
killed. The kernel's part is external to the repository and is modelled from its use here.

### LogcatBroker
A packet is a bare header, which is dropped, or a record with a buffer number and a priority,
which the code clamps. A client sends a command or stays silent, and reads what it is sent or
does not (`ClientReads`); its connection holds `SendBuffer` lines, after which `send()`, which
blocks, waits. `Slots` is the 20 of the tombstone files, some of which an earlier process has
left, and `MaxEntries` is `mMaxEntries`. `clearedAt` is history.

### AudioBridge
Samples are small numbers and chimes short sequences; the ring is as long as two chunks. The
Kotlin player's `start`, `stop` (which waits 500 ms for the thread and gives up) and loop are
included, and so are both writers, the UI's button and the live boot.

### PropertyService
`flushPropertiesToFile` is its copy (under the mutex), `open(O_TRUNC)` and one `write`. The file
is what it shows per key, with `Torn` for a text whose end belongs to a longer one or is missing.
`open()` may fail (`FlushFails`), and so may `write()` or be short, whose result nobody looks at
(`WriteFails`). Values differ in the width of their text. `loadFromBuildProp` flushes while it holds the mutex.

### BootManager
A phase's script is its class, and the commands of its trigger; each command is one step under
the mutex. `startBootSequence` is check, joinable, join, raise, reset phase, create; these steps
of the UI's and of the live boot's call interleave. `intact` is a history variable: it is true as long as
nobody has stopped or reloaded services since the worker was created.

A live boot also starts the telephony bridge, which the UI has started in `onCreate()`: the
second `initialize()` assigns to a joinable thread and ends the process. `bridged` says whether
`onCreate()` got that far; where its sandbox preparation failed it did not, and the live boot
runs on. The audio and the property module leave this end of the process out: their live
boot is one that runs on.

`InitParser` keeps of a service its name, classes and `disabled`, of an action its trigger and
commands. The module says a second time, without reading from the top (`Definitions`,
`ClassesSaid`, `CommandsSaid`), what the scripts mean: the first definition of a service
counts, with its last class line, and a trigger's commands are those of all its actions. TLC
compares the two on every script of up to three lines over ten kinds of line, and on two
scripts of two and one (`ParserChecked` in `MCBootManager`), and `ParserKeepsWhatIsSaid` proves
it of every image. `ScriptIsObeyed` then follows one image through the parser and a boot: a
first definition in `/init.rc` against a later one in `/system/etc/init`, a service in no
script, a disabled one that a command of a trigger's second action names, and a file that is no
`.rc`. The parser keeps a command's text as it stands (init_parser.cpp:116), and the worker looks
for `"start "` and takes what follows (boot_manager.cpp:164-168). `CommandOf` goes by the words,
which are one space apart in the scripts it is given; after a tab or a second space the code
starts nothing.

### ImageReader
A file is a sequence of cells of one block each: sparse and chunk headers, or blocks. A block is
the superblock with the group descriptors, the inode table, a node of an extent tree, or data;
a byte of a directory's data stands for one of its entries. Extent trees have depth 0 or 1.
`Volume` and `Layout` say what was written to an image and in which chunks; `WrittenSparse` and
`WrittenRaw` are the file formats, as `SparseBlockDevice` reads them, and TLC evaluates them on
the images of the runs. A file may be cut off (`short`) or be no image at all. `IsVolume` is the
file system's own format, of an image that is whole and that is one: the tree's nodes are nodes,
a file's extents lie one behind the other from leaf to leaf, an extent that was written to is
blocks of data, and a directory on one of the paths has one entry for a name and none behind its
zeros. `WrittenFile` and `InodeAt` say from that what a path's file is, without the reader's walk.

`UiSelects`, `UiReopens`, `UiVerifies` and `UiRemounts` are `handleImageSelected()` with
`closeFilesystem()` and `nativeMountImage()`; a closed descriptor's number may be given to the
next file that is opened. A device is made chunk by chunk (`ReadsHeader`, `Indexes`) or raw
(`TriesRaw`), then `ReadsSuper` opens the file system. A read goes inode, nodes, blocks, and
`EndsFile` looks the next name of the path up in what was read. The extraction keeps
`gFsMutex` from its first file to its last; the live boot has a reader of its own on the same
descriptor and holds no mutex. `seen` is history: the images that a device or a read has
looked at.

### DisplayPipeline
A handler is the sequence of its native calls (`Handlers`); a call that waits or draws is split
where another thread may come between. Rendering and the animation have a thread each.
`startBootAnimation` and `stopBootAnimation` are check, joinable, join, flag and create, and the
UI's and the live boot's calls interleave. A live boot unmaps the framebuffer
(`VirtualFramebuffer::initialize` closes what there is) and maps it at the same or another
address while the animation thread or the GPU test may be drawing through the pointer it has:
`strayed` counts the frames that missed it. A stray frame either ends the process or
overwrites some other memory; both are modelled. `getPixelBuffer` hands out the pointer
without `mBufferMutex`, so this is a race the code has; what the run shows is how far it goes.

### DeviceBridges
Four bridges of one kind, each with a difference in its guard. `startStream()` stops and joins
first, `NetworkBridge::initialize()` does nothing where its flag is up, and
`TelephonyBridge::initialize()` and `BluetoothBridge::initialize()` look at no flag. A UI handler
is the list of its native calls, as in `DisplayPipeline`; the live boot calls `initialize()` of
camera, telephony and Bluetooth from its own thread. `StopStreamBegins`, `JoinsGenerator`,
`StreamHalts` and `StreamBegins` are the steps of a start or a stop of a camera, the generator
among them; `ShutdownBegins`, `ShutdownCloses` and `ShutdownJoins` those of netd's end.
`mTelephonyMutex` and `mBtMutex` are held from the read of the state to the last
`setProperty()`, so `InitBegins` and `Toggles` take them and `StartsRilds`, `StartsVhci` and
`ToggleTells` give them back.

netd's thread and each rild thread poll, accept, read without a time limit, answer and poll
again. A generator whose node cannot be opened, a rild thread whose socket cannot be bound and
a netd thread whose poll fails return and leave their flag up. `told` is one property for each
radio, the one that says whether it is on. Others stay as they are when it is switched off
(`ril.ready`, the country of the operator: telephony_bridge.cpp:128-147; the Bluetooth profiles:
bluetooth_bridge.cpp:143-155), so what `PropertiesTellTheState` says is not said of them. `ended` is the bridge in which
an assignment to a joinable thread ended the process: by `EndsOnlyInTelephony` this is only ever
telephony, and `live_boot` shows how.

### SandboxPaths, HookEngine
A path is cut wherever a rule begins or ends, so `"/dev/socket/logdr"` is four pieces and a rule
for `"/dev/socket/logd"` matches it, as in the code. `Rules` is the list in its order;
`Redirect` takes the first that matches. `ConnectRules` is the other list, which looks for a
name anywhere in the address. `NamesMeet` compares the storage rules with what Android keeps
where (`Mounts`), and the two lists with each other: they send every socket to one place but
the three of `LeftToTheHost`. The names of the run are those every rule
begins with, with and without something behind them.

`initIdentityIfNeeded()` is a look at the flag, seven stores and the flag's rise, and two threads
may be in it at once. A setter or getter first goes through it (`Checks`), then stores its words
(`Stores`). `last` is history: the change that began last, and whether it began alone. What is
not promised is not checked: two changes at once, or a change while another thread still
initialises, may leave a mixture; a lone one may not.

An open of a binder device goes to `createVirtualBinderFd()`, which takes the broker's mutex and
closes the peer of its pair of sockets. In the library that `close()` is the hook, which asks
`isVirtualBinderFd()`, which takes the same mutex. `HangsOnlyByBinder` says that this is so every
time, and that nothing else hangs.

### InputBridge
A touch-down is five records, a move three, a lift three, a key four. A FIFO that is full refuses a
record and nobody looks. The FIFO is unlinked and made again by each `onCreate()`; a guest
that has opened the old one reads it to its end until it opens the name again. Only the first
finger's down and the last one's up reach the guest: `ACTION_POINTER_DOWN` and
`ACTION_POINTER_UP` are no case of the switch.

### PowerAndSensors
A bridge's call takes its mutex, changes the data, writes the nodes one by one and gives the
mutex back. The model keeps a few of the nodes, a file of one field, a file of two, a property.
A file may fail to be opened, and stays as it is, or to be written, and is empty. The UI
pretends, shakes, follows the host; `Settles` is the runnable that a shake has posted. What the
model shows beside the property: a chip that moves the proximity leaves the manager following the
host (GsiSensorManager.kt:162-168), so the next event of any sensor is still taken.

### GuestWorld
`Mixes` bounds the product: one component goes as far as its own bounds allow while the others
rest, or at most `MaxMixed` operations of different components are mixed. A guest's thread that
is in no call opens the FIFO by the name of an input device, and finds the nodes under `Found`.
The UI's handlers are one thread's, so a touch and a chip wait for one another.

## 3. Runs

| Run | Instance | Checks |
|---|---|---|
| `spawner` | 2 children, pipe of one chunk, a program that overfills it, background processes; 860 k states | `QuietAfterTerminate`, `RunningHasAReader`, `ExitCodeOfThisChild`, `KillReturns`, `PollerGoesIdle` |
| `logcat` | ring of 2, 2 tombstone files, 3 packets, one client that takes one line, 4 entries; 1.0 M | `RingIsAWindow`, `RingKeepsTheNewest`, `ClientSeesNoGap`, `SilentWhenStopped`, `NoEarlyOverwrite`, `StopReturns` |
| `audio` | ring of 4, chunks of 2, chimes of 2 and 4 samples, 2 players, 3 chimes; 253 k | `ImplementsFifo` (refinement), `OldPlayerEnds`, `RingDrains` |
| `property` | one key with two values, UI, live boot and worker, 2 starts, 2 sets; 176 k | `LoneFlushShows`, `ServesOnlyWhileOn`, `CallsReturn` |
| `boot` | the three services of an image's scripts, a boot, a live boot, 2 UI actions; 351 k | `CompletedHasItsServices`, `ScriptIsObeyed`, `FlagHasWorker`, `CallsReturn` |
| `image` | a sparse image with a chunk of each type and an extent tree, a raw one, one that is cut off and one that is none; 2 descriptors, 2 selections, 2 reads; 93 k | `ReadIsTheFile`, `BlocksAsWritten`, `ReadsTheSelected` |
| `display` | 3 handlers out of 13, one live boot, two addresses, two frames; 224 k | `FlagHasThread`, `StraysOncePerLiveBoot`, `FramesGoToTheSurface`, `HandlerReturns` |
| `devices` | one rild socket, SIM and adapter, 2 guests, 2 connections, 3 handlers, one live boot; 416 k states | `EndsOnlyInTelephony`, `QuietAfterStop`, `PropertiesTellTheState`, `HandlerReturns`, `AskedIsAnswered` |
| `guest` | 2 threads, 3 calls, a name of every rule; a FIFO of 4 records, 3 touches, 2 openings; 2 updates, one live boot, one failed write; 690 k | `GuestTypeOK`, `ReadsTheEnvironment`, `LoneSetterSticks`, `NamesMeet`, `LastCallShows`, `GuestSeesWhatTheUserSees`, `HangsOnlyByBinder` |

`guest` checks `GuestTypeOK`; the types of the other modules are theorems (section 4), and no run
repeats them. The exact run names are in `PROJECT.json`. None of them checks for deadlock: the app may sit idle when the bounds are used up, and a process that
`std::terminate` has ended takes no step; that calls return is stated as liveness.

What the bounds are good for:
- Two children are what an old reader and a new child need; a pipe of one chunk and a program
  of two make a child wait for its reader; the third child would repeat the second.
- A ring of two entries overflows with the third; two tombstone files wrap with the third; four
  entries do both in every order with a clear in between. A connection that takes one line makes
  `send()` wait at the second.
- A ring of four with chimes of two and four wraps at every position, fills exactly and
  truncates; two players are the old one and its successor.
- One key is enough for TLC where the theorem holds for every set of keys: the race is
  between whole flushes. Two starts and two sets make three flushes overlap.
- A boot and a live boot meet in every order; two controls stop a boot and start it again, or
  disturb it twice.
- Two selections give a second image the first one's descriptor, with any of four images in
  either place; one read by the UI, the extraction or the live boot beside the UI's own read
  after a mount, and a second file of an extraction, let each pair of threads meet. The sparse
  image has an extent that begins in a `FILL` chunk and ends in a `DONT_CARE` one, a file in two
  leaves, an empty chunk of an unknown type, and a directory within a directory. A third selection would repeat the
  second; longer files and layouts are what the theorem is for.
- Three handlers start the rendering, bring a surface and take it away, or start a live boot
  beside a start and a stop of the animation; two addresses tell a mapping that came back at
  its place from one that did not; two frames are one before and one after an event. The
  theorems hold for any number of each.
- Three handlers are an `onCreate()`, an `onDestroy()` and the next `onCreate()`, or an
  `onCreate()` with two chips or with a chip and a live boot. SIM and adapter have a mutex
  each; Wi-Fi shares the SIM's, and the three rild sockets run the same loop. Two guests are a
  silent one and the one that waits behind it.

- Two threads are an initialiser and another; the third call is the one that comes after both.
  A FIFO of four refuses the last record of a touch-down that nobody reads, and a guest that reads
  between the records lets it through. Three touches are a cut one, a whole one and an
  opening in between. Two updates, a live boot and a failed write are what it takes for
  every exception of `GuestSeesWhatTheUserSees` to happen and to be over again. `MaxMixed` is
  two: one operation of one component before, after or inside one of another. The components
  share no variable, only the names, so that more of the mixing would repeat what is there.

Fairness: each thread of the program is scheduled (weak fairness of its next step). Strong
fairness is assumed where a step is enabled again and again and the system does get to it: the
poll runnables and posted results, because the looper's queue is first in, first out; and a
caller that waits for `mPropMutex`, `mWindowMutex` or `mBufferMutex`, because nobody holds it for good. About the outside only
this is assumed, and only where named: background processes end (`spawner`), silent clients hang
up (`property`) or ask some day (`devices`). Of the clients of `logcat` nothing is assumed, and
`StopReturns` names the one that can keep `stop()` waiting (`HeldByClient`). Nobody is assumed to connect, to fail or
not to fail: netd's `poll()` may fail at any time, after which `AskedIsAnswered` promises
nothing of its guests.

### Where the program differs from what its text says
Three runs end in a counterexample, each against a line of the repository.

| Run | Property | What happens |
|---|---|---|
| `spawner_execute` | `ExecuteReturns` (README.md:54 "non-blocking streaming UNIX pipes") | an old `ioLoop` re-reads the members and blocks in the new child's stdout, while `execute()` joins it and the child blocks on stderr |
| `live_boot` | `LiveBootSurvives` | a live boot after `onCreate()` initialises the telephony bridge a second time, which ends the process |
| `image_holes` | `ReadIsTheFileWithHoles` | blocks are copied one behind the other: a file with a hole comes out shifted, an extent that was never written to is read as data |

The lines that `findings` of `PROJECT.json` quote say the opposite in each case.

More that no run repeats:
- Two flushes of the property file that overlap (property_service.cpp:250, 292-294): the shorter
  text may be written over the beginning of the longer one, and what stays behind it is
  `Torn`: a piece of a line, against "Line format" (hook_engine.cpp:290).
- An open of a binder device never returns. README.md:59-61 promises an "In-memory Virtual Binder
  Driver", but `createVirtualBinderFd()` locks itself out (virtual_binder.cpp:18, 28, 45 by
  way of hook_engine.cpp:504), which is why `HangsOnlyByBinder` can say that no
  descriptor is ever registered; every later `close()` and `ioctl()` of that process waits
  as well. `gsi_core` links both files too (CMakeLists.txt:17-51), so where its own `close()` is the one it
  finds first, the chip "Test Binder" (MainActivity.kt:762) hangs the UI.
- The log's ring holds more than the 5,000 entries of README.md:38 and :77. `dumpTombstone()`
  pushes its entry without a look at `mMaxEntries` (logcat_broker.cpp:458), and `appendLog()`
  drops one entry at most for the one it adds (252-253): each tombstone leaves the ring longer
  by one, until it is cleared. `RingHoldsMaxEntries` of `LogcatBroker` says what the README
  says, and TLC refutes it with a tombstone on a full ring. What does hold is
  `RingKeepsTheNewest`: the code never drops too much.
- A client of logdr that sends no command (`read()`, logcat_broker.cpp:362) or sends one and
  does not read the answer (`send()` without a time limit, 374) holds the thread that `stop()`
  joins at 222, and with it the UI, for as long as it stays. `StopReturns` says that this is the
  only way: without the exception `HeldByClient`, or with one half of it, TLC refutes it.
- `connect()` has no rule for `/dev/socket/rild`, `/dev/socket/rild-debug` and
  `/dev/socket/wpa_wlan0` (hook_engine.cpp:545-612). `open()` and `stat()` send them to the
  sandbox (226-234), where the bridge listens (telephony_bridge.cpp:228-230), but a guest that
  connects is left with the host's name: it does not reach what README.md:115-116 calls "emulating
  UNIX domain sockets `/dev/socket/rild` and `/dev/socket/rild-debug`" and "Virtual Wi-Fi control
  socket `/dev/socket/wpa_wlan0` emulation". `SocketsMeet` of `HookEngine` says what these lines
  say, and TLC refutes it; `NamesMeet` says that these three are the only ones. The guests of the rild
  sockets in `DeviceBridges` are thus such as use the sandbox's path itself.
- `/dev/socket/logdr` is matched by the rule for `/dev/socket/logd` before its own
  (hook_engine.cpp:145-150, 580-612): a guest that wants to read the log is connected to the
  socket for writing. Both lists agree on it, so `NamesMeet` holds.
- README.md:58 speaks of "multi-touch support"; a second finger is ignored
  (input_bridge.cpp:106), and so is where it moves: only the first pointer's place is sent.
- A temperature at or below zero leaves the old one in place (battery_bridge.cpp:91), and the
  settling of a shake, 300 ms later, overrides an orientation chosen meanwhile
  (GsiSensorManager.kt:157): the guest and the user agree, but not on what was asked for.
- `WritesWithinBuffer` of `AudioBridge` fails. `writeSamples()` ("Write 16-bit PCM samples into
  the circular buffer", audio_bridge.h:30) looks at `mIsRunning` (audio_bridge.cpp:69) before it
  takes `mBufferMutex` (71). A `shutdown()` between the two clears the vector (60-61), and the
  writer then finds the whole ring free and stores at line 76 into a vector that has no cells.
  The live boot's chime (live_boot_runner.cpp:160) against `onDestroy()` (MainActivity.kt:1274)
  is such a pair.
- `BadgeFollows` of `BootManager` fails: the poll that is posted right after
  `startBootSequence()` may read IDLE (boot_manager.cpp:77), for which it does not post itself
  again (MainActivity.kt:97); the badge then shows IDLE for ever.
- `HandlerReturns` has the exception `JoinsTheNext`. The UI's `stopBootAnimation` lowers the
  flag (gralloc_bridge.cpp:140); before it looks at `joinable()` a live boot's
  `startBootAnimation` finds the flag down, joins the thread, raises the flag and creates the
  next one. The UI then joins a thread that nobody stops, and hangs.
- A stray frame as such (gralloc_bridge.cpp:158-166, gpu_bridge.cpp:100): TLC finds one after a
  live boot that begins while the splash is shown, which is how the button starts it. No line of
  the repository promises the opposite in words.

## 4. Proofs

TLAPS checks every theorem for all values of the constants that satisfy the module's
assumption (`SpawnerAssumption`, ..., `BootAssumption`: positive sizes, sets that contain what is
named, finite sequences over the right sets). Three assumptions of the guest's modules say more:
a call that changes the identity stores each word at most once (`OnceEach`: no hook assigns one
word twice); the codes of the keys are none of the touch screen's records; and the pieces that
go on with a name (`Tails`: digits, letters, suffixes) are none of the four that begin one below
`power_supply`, `iio` and `emulated`. Two say what the code is given from outside.
`NamesAssumption`: no name a guest opens begins with the sandbox's own path, which the guest is
not told, and a socket's name is one in `/dev/socket` or `/dev/log` and has `/dev` nowhere but at
its beginning. The last matters: `connect()` looks for the names of its sockets anywhere in the address and `open()` at the
beginning, so that for `/data/x/dev/socket/netd` the two disagree. `VolumeAssumption`: what is on
an image that is called whole is an ext4 file system (`IsVolume`). TLC evaluates the assumptions
in the runs.

| Module | Theorems | Inductive invariant, and why it is needed |
|---|---|---|
| `ProcessSpawner_proofs` | `TypeCorrect`, `AlwaysQuietAfterTerminate`, `RunningAlwaysHasAReader`, `ExitCodeAlwaysOfThisChild` | type, with which child the thread watches, which place of `terminate`/`execute` allows which flag, and whose status the code is: the three properties only speak of quiet places, and the steps in between break them without these |
| `GuestAndLogs_proofs`, part 2 (`LogcatBroker`) | `TypeCorrect`, `RingAlwaysAWindow`, `RingAlwaysKeepsTheNewest`, `AlwaysSilentWhenStopped`, `ClientNeverSeesAGap`, `NeverOverwritesEarly` | the ring's numbers are consecutive up to the last, and as many as were logged since it was cleared, or as it may hold; the client's snapshot is such a stretch; the workers are gone where the UI is idle and the flag is down. `FilledInOrder`: the tombstone files that are taken are the first ones, so that the index only comes back to a taken one when all are |
| `AudioBridge_proofs` | `TypeCorrect`, `AlwaysConsistent`, `RingIsAFifo` | positions and count agree modulo the size. `RingIsAFifo` is the refinement: the contents from the read position on are the queue of `BoundedFifo`, and every step of the bridge is a step of it or none. The modular arithmetic of a write and of a read at the wrap is in lemmas of its own |
| `PropertyService_proofs` | `SafetyHolds`, `TypeCorrect`, `LoneFlushAlwaysShows`, `AlwaysServesOnlyWhileOn` | `FlushInv`: a flush that nobody has disturbed is the only one under way, its copy is the map, and it writes into an empty file |
| `BootManager_proofs` | `SafetyHolds`, `TypeCorrect`, `RunningAlwaysAnnounced`, `PhaseAlwaysTheWorkers`, `FlagAlwaysHasWorker`, `CompletedAlwaysHasItsServices`, `ParserKeepsWhatIsSaid`, `ScriptAlwaysObeyed` | `ClassInv`: in a boot that nobody disturbs the classes of the phases behind the worker are done, and the class of its own phase is done or is its next command. No action but a stop or a reload undoes a class. `CommandsInv`: the same of each command of a trigger, which is served or still in the worker's list. For the two theorems of the scripts see below |
| `ImageReader_proofs` | `TypeCorrect`, `BlocksAlwaysAsWritten`, `AlwaysReadsTheSelected`, `AlwaysReadsTheFile` | `DevicesSound`: the index of a device that was made from one image is a beginning of that image's layout, as long as the chunks still to come are missing, and the next header is where the layout has it; the block's property only speaks of finished devices. That the last chunk that starts at or before a block is the one that holds it is a lemma from the order of the layout. `SelectedInv`: while a selection is under way no reader counts as fresh; one that is being made, or is fresh, is on the active descriptor and has looked at what is behind it alone, and so has the UI's read. For `AlwaysReadsTheFile` see below |
| `DisplayPipeline_proofs` | `SafetyHolds`, `TypeCorrect`, `FlagAlwaysHasThread`, `AlwaysStraysOncePerLiveBoot`, `FramesAlwaysGoToTheSurface` | `StrayInv`: a drawer whose pointer is out of date, and a live boot that has yet to unmap, each still have one miss to spend; the bound alone does not say that a miss is still free when it happens. `SurfaceInv`: the pipeline holds the window of the surface there is, or none |
| `DeviceBridges_proofs` | `SafetyHolds`, `TypeCorrect`, `EndsAlwaysInTelephony`, `AlwaysQuietAfterStop`, `PropertiesAlwaysTellTheState` | `CameraInv` and `NetdInv`: which thread may still be there at which place of a start, a stop or a shutdown, and that a thread that has returned by itself has left its flag up. `MutexInv`: who is at a place between the read of the state and the properties holds that bridge's mutex, and its copy is the state. `OrderInv`: vhci has been started only where the rild threads have, by the one caller that got past telephony, so that a second `initialize()` ends in telephony first |

| `GuestAndLogs_proofs`, part 1 (`GuestWorld`) | `GuestTypeCorrect`, `EnvironmentIsAlwaysRead`, `LoneSetterAlwaysSticks`, `NoBinderIsEverKept`, `LastCallAlwaysShows`, `GuestAlwaysSeesWhatTheUserSees`, `NamesAlwaysMeet` | `GuestInv`, see below |

`GuestInv` has a part for each component, and a step of one leaves the variables of the other two
alone (`GuestActs`):
- `HookInv`. `WordsInv`: a thread that initialises has a rest of the seven stores to do, and as
  long as nobody has begun a change the stores it has done hold; that two initialisers store the
  same value in the same word is why their mixing does no harm. `AloneInv`: a change that began
  alone is the only one under way, or is done, and the stores it has done hold. `BrokerInv`: who
  holds the broker's mutex is in the look-up that waits for it.
- `InputInv`. `LastInv`: of the last call's records the first ones have been written, the guest
  has taken some of those from the FIFO the host writes to, the others lie in it in their order,
  the last ones of it; and what the guest has heard of them is what they say (`OnItsWay`). A
  record that is lost makes the call no whole one, and an opening by the guest in the middle of
  reading does not lose the FIFO's place.
- `PowerInv`. `QueueInv`: at most one call is at each bridge, it is the first of its caller's
  list, and an update that the UI has not begun carries what the manager keeps. `NodesInv`: a
  node of an initialised bridge shows the bridge's data, or is lost, or is among those that the
  call under way has still to write. `MergedInv`: the bridge's data is what the manager keeps,
  but for a temperature that is refused, or an update has yet to begin. That the names the guest
  uses lead to the nodes the bridges write is proved from the rules: `SysRule` and `FirstMatch`
  (the first rule that matches decides), `RedirectPower` and `RedirectIio`; `NodesApart` says that
  no two nodes are one file.

`NamesMeet` is inductive by itself, for a step that uses a name is one call of `Redirect` or
`ConnectTo`; the work is in the rules. `Redirect` is that of the first rule that matches
(`RedirectFirst`). A rule of the storage that matches a name is about a mounted directory the
name is in, and sends it to the file it stands for (`StorageRight`, by `MountRule`); the name is
in one such directory at most (`OneMount`), so it does not matter in which order these rules are
tried; no name in one is without a rule (`StorageFound`); and the other rules neither match such a
name nor lead into the storage (`ElsewhereRules`). For sockets: what `connect()` finds anywhere
it finds at the beginning (`FoundAtStart`), and whichever of its rules is the first, the first of
`open()`'s leads to the same place (`PropertySocket`, `NetdSocket`, `LogSocket`); the rule of
`connect()` for `logdr` is never the first. Where `connect()` has no rule `open()` has none either
but those for the three sockets of `LeftToTheHost` (`RulesOfSockets`: all its other rules are for
names outside `/dev/socket` and `/dev/log`, or for those `connect()` knows), and `connect()` has
none for these (`HostSockets`). The rules are those of the code; the names are any.

`AlwaysReadsTheFile` (`ReadIsTheFile`): whatever selections, closings, new owners of a descriptor's
number and other readers come in between, a read that has seen one image alone, which is whole
and has no holes, ends with the bytes that were written to the path's file, and with none where
there is no such file. The invariant follows a read from place to place: `MutexInv` (who is
reading holds `gFsMutex`, or is the live boot with a reader of its own), `TableInv` (a device made
from one whole image alone has the number of its inode table), `AskedInv` (who waits for the
mutex has asked for one of the paths), and `ReadInv`, of the place a read is at: what is left of
the path leads from the inode it has come to to the path's (`OnTheWay`); while nodes are gathered,
the extents so far are those of the first leaves, in order (`Begun`, `GatherNode`); while blocks
are copied, the bytes so far are the file's first (`Copied`) and the extents left are those behind
the block, the first of them cut (`LeftOf`, `LeftGoesOn`, `AfterBlockAt`). At the end they are the
file (`Arrived`), and where the file is a directory the entry that is found is that of the name,
whichever of equal ones comes
first. Blocks are read by way of a sparse device's index, so it rests on `BlocksAlwaysAsWritten`.
That the inodes along a path are what `InodesOn` says is an induction over the path. The
library's theorems for that take an operator; the lemma `Induction` states it for a set of
numbers instead, and follows from the well-foundedness of `<` on the naturals, as `LeastOf` does.

`AlwaysConsistent` (`RingConsistent`), `RunningAlwaysAnnounced` (`RunningIsAnnounced`) and
`PhaseAlwaysTheWorkers` (`PhaseIsTheWorkers`) are proved for every instance, and no run repeats
them on a small one.

`ParserKeepsWhatIsSaid` (`ParsedAsSaid`) is about the parser alone, for every image: `Holds` says
of the table what the scripts say down to a place (`Before`), and `Reads`, `SectionEnds` and
`ScriptReads` carry it over a line, the end of a section and the end of a script; the open section
is the header above the place with the lines that belong to it (`OpensOn`, `DirectsOn`, `BodyIs`).
`ScriptAlwaysObeyed` (`ScriptIsObeyed`) then goes from the scripts to the boot: a line of a trigger
is a command of some action of the table (`TableSaid`), no command of an action is lost when they
are collected (`AllCollected`), and behind the worker every command of a phase has been served
(`CommandsInv`); a service of an asked-for class is in the table with that class and is disabled
only if its definition says so (`ClassServiceRuns`, `DisabledIs`). It rests on `ImageAssumption`
(`Image` is a sequence of files), `CoreAssumption` (the calls of `ensureCoreService()` have names
of their own) and `TableAssumption` (the boot's services, classes and commands are those of the
table). Both are about functions defined by recursion; that there is a function that such a
definition defines is the lemma `Recursion`.

Only model-checked is all liveness (`KillReturns`, `PollerGoesIdle`, `StopReturns`, `CallsReturn`,
`OldPlayerEnds`, `RingDrains`, `HandlerReturns`, `AskedIsAnswered`, `HangsOnlyByBinder`), since the
prover does no fairness; the safety half of the last, that no binder device is ever kept, is
`NoBinderIsEverKept`. Every invariant and every action property that a passing run checks is proved.

## 5. Not modelled, and the plan

Done in this order, the concurrent core first: spawner, logcat, audio with its abstract queue,
property service, boot manager with the live boot as second caller, image reader, display,
devices; then the guest's side: hooks, touch FIFO, battery and sensors, and the init parser in
front of the boot.

What is next, in this order:
1. `listDirectory` and the extractor's walk on top of `ImageReader`.
2. A module that composes `PropertyService` with `DeviceBridges` and `BootManager`, which set
   properties while they hold a mutex of their own: that no two of these mutexes wait for each
   other.

To keep the number of runs small, a new component's run may replace a counterexample run
whose finding is settled (that of the overlapping flushes gave way to `guest`), and properties that say the same of two calls are one.

In `ImageReader` a read is atomic within one inode, node or block, the group descriptors are
part of the superblock's cell, and `nativeOpenFilesystemPath`, which nothing in Kotlin calls, is
left out.

Of the bridges USB is left out: the manifest asks for no INTERNET permission, so a device
refuses its `AF_INET` socket, `startAdbServer()` ends at the failing `socket()`, and its loop
never runs. The network test and BLE scan results are left out, and so are the `shutdown()` of
telephony, Bluetooth and camera, which nothing calls.

Of the hook library the calls that answer with a constant are left out (mount, chroot,
capabilities, prctl, SELinux), and statfs, the ICMP case of `socket()`, the EGL and gralloc
modules and the property hooks; of the binder what it does with a descriptor that is registered, since none ever
is; of the bridges the FIFO to which sensor events are copied. Lines of an init script about
users, groups, environment and `critical` change nothing but labels.

Left out for good: keystore and DRM (maps under one mutex that one thread changes), the storage
bridge, the init runner and the sandbox's preparation (directories and files written once, in
sequence), the extractor's files, pixels and PCM synthesis, formatting and parsing of other
text, `sendInput` and the child's setup between `fork` and `exec`, the
statistics counters, and the Android framework.

## 6. Running

    tlc -workers 2 -config Spawner.cfg MCProcessSpawner     # one .cfg per run, see PROJECT.json
    tlapm BootManager_proofs.tla
