# A verification of the AllJoyn lighting service framework

This directory holds TLA+ models of the lighting service framework, the TLC
configurations that check them on small instances, and TLAPS proofs of the
properties that matter most for every instance.  Names in `code font` are those
of the source or of the modules; paths are relative to
`src/standard_core_library` unless they say otherwise.

Short names: **CS** `lighting_controller_service`, **CC**
`lighting_controller_client`, **CM** `common`, **TL**
`src/thin_core_library/lamp_service`.

## 1. The system

Several *controllers* (CS processes) may run in a home; one of them, the leader,
takes the commands of *client* applications (CC), drives the *lamps* (TL) and
keeps the stores of groups, presets, effects, scene elements, scenes and master
scenes.  The others follow it and keep copies.  They talk over AllJoyn:
announcements (About data), sessions, method calls and signals.

| Component | State | Operations | Talks to |
|---|---|---|---|
| Leader election (CS `LeaderElectionObject`) | `controllersMap` (rank -> last announcement), `currentLeader` and its proxy, `outGoingLeader`, `upComingLeader`, `overThrowList`, pending join replies and session events, flags `isRunning`, `startElection`, `okToSetAlarm`, `gotOverthrowReply`, `alarmTriggered` | the `Run` thread; callbacks for announcements, joins, lost sessions and members; methods `Overthrow`, `GetChecksumAndModificationTimestamp`, `GetBlob` and their replies | itself over the bus, alarm, controller service, all managers |
| Alarm (CM `Alarm`) | `timeToTrack`, `progressInTime`, `alarmReset`, `isRunning` | thread that counts seconds; `SetAlarm`, `Stop` | the listener's `AlarmTriggered` |
| Controller service (CS `ControllerService`, `LSFAboutDataStore`) | leader flag, `updatesAllowed`, service and multipoint sessions, About data | method and property dispatch, `SetIsLeader`, `SetAllowUpdates`, accept joiner, leave sessions, `SendSignal` | elector, managers, clients |
| Stores (CS `Manager` and its seven heirs, `PersistenceThread`, `FileParser`) | a map, `timeStamp`, `checkSum`, `updated`, `blobUpdateCycle`, `initialState`, lists of waiting requests, `sendUpdate`, `blobLength`, a file and, for six of them, a list of updates with a file of its own | create, read, update, delete, reset; read file at the start; `ReadWriteFile` in one thread for all; `HandleReceivedBlob` | each other (dependency checks), elector, clients |
| Scenes, master scenes, scene elements, groups, presets, effects | references: master scene -> scene -> scene element -> effect, lamps, groups; effect -> preset; group -> groups, lamps | `IsDependentOn...` before a delete, group expansion, apply | lamp manager, clients |
| Lamp clients (CS `LampClients`, `LampManager`) | lamp -> connection state (disconnected, joining, retry, connected, blacklisted), queue of method calls, `responseMap` of counters | connect on announcement, retry by alarm, send a command to many lamps, count the replies, answer the client once | lamps, clients |
| Rank (CS `ControllerServiceRank`, CM `Rank`) | two 64-bit words | computed from device properties, compared | elector |
| Process control (CS `Main`, `OEM_CS_Config`) | child process | restarts the service when it ends | host |
| Controller client (CC `ControllerClient`) | `leadersMap`, `currentLeader` (details, session, proxy), `stopped`, tables of handlers | `Start`, `Stop`, announcements, join replies, lost sessions, asynchronous calls, dispatch of replies and signals | leader, application callbacks |
| Client managers (CC) | none beyond callbacks; methods for data sets of several calls | one method call or one callback each | controller client |
| Lamp service (TL) | lamp state and its copy in NVRAM, faults, `ControllerSessionID`, pending state-changed signal, requests of the OEM layer | message loop, transitions, effects, properties, restart and factory reset | controllers, OEM layer |
| Utilities (CM, CS `Condition`, `ServiceDescription`, `DeviceIcon`) | - | mutex, semaphore, marshalling, static data | all |

### What is hard about it

* **Concurrency.**  The elector has one thread and callbacks on any number of bus
  threads (`EnableConcurrentCallbacks`), with a mutex per field, so nothing is
  atomic across fields.  The lamp clients and the client library are built the
  same way.  One persistence thread serves seven managers; each copies its map
  under a lock, formats it without, and stamps it under the lock again.  A method
  call on one manager asks up to five others, one lock after the other.
* **Failure.**  Controllers crash in the middle of a handover or of a file write;
  calls fail at once, are refused, or time out; joins fail or say "already
  joined"; lamps lose their link, their NVRAM or their power.
* **Ordering.**  Announcements, session events, replies and blobs overtake each
  other, and some belong to an earlier life of their sender.
* **Time.**  An alarm bounds every coup and every retry.  Blobs travel with an
  age, not a time, and ages come from each host's monotonic clock, which restarts
  at zero.
* **Agreement.**  The same object has a form of its own in the client, in the
  message, in the manager, in the text of the file and in the blob; the same
  method stands in three tables.

### What makes it correct

* Election: in the end one leader that everyone follows and that takes updates;
  updates are closed exactly while a coup is open; coups go up the ranks; no
  session, event or wake-up is forgotten.
* Alarm: never early, never missed.
* Stores: what is in memory reaches the file; what is asked for is answered;
  objects come back from text and message as they were; the text never outgrows
  a message.
* Managers: nothing that is referred to is deleted; nothing deleted comes back;
  what is derived from other objects follows them; answers say what was done.
* Lamp clients: every command is answered exactly once, with what the lamps did;
  nothing is freed while in use; a lamp that can be joined is joined.
* Client: it comes to rest connected to the highest leader announced, holds no
  session besides, and tells the application once of each call.
* Lamp: the state survives, the newest controller hears of every change, answers
  are true, a factory reset forgets.

## 2. Modules

| Module | Models |
|---|---|
| `Alarm` | the alarm thread against its callers, one shared access per step |
| `Leadership` | abstract specification: what an elector promises to the outside |
| `LeaderElection`, `MCLeaderElection` | the electors of any number of controllers, and the bus |
| `BlobStore`, `MCBlobStore` | one store: manager, thread, file, exchange of blobs |
| `ObjectForms`, `MCObjectForms` | an object in the client, in a message, in the manager, in text, and read back |
| `StoreLengths`, `MCStoreLengths` | `blobLength` of each of the seven managers |
| `LightingObjects`, `MCLightingObjects` | every method call on the seven managers, concurrently, with the references between objects |
| `LampClients` | the lamps: announcements, joins, losses, retries |
| `LampCalls` | commands to lamps: queue, calls, replies, the answer |
| `ClientConnection`, `MCClientConnection` | how the client finds, joins and loses the leader |
| `ClientMethods`, `ServiceDescription` | the tables of methods and signals of client, service and interface description |
| `ClientCalls` | a call from the application to its callback, over those tables |
| `LampService`, `MCLampService` | the lamp's own program |
| `AlarmProofs`, `LeaderElectionProofs`, `BlobStoreProofs`, `LightingObjectsProofs`, `LampClientsProofs`, `LampCallsProofs`, `LampServiceProofs`, `ClientConnectionProofs` | theorems about the modules they are named for |

How they fit together: `LeaderElection` decides when `LampClients` connects and
disconnects and when `LightingObjects` takes updates.  A command that
`LightingObjects` hands on (its set of lamps) is a call of `LampCalls`, which
finds lamps known and connected as `LampClients` left them; the lamp at the
other end is `LampService`.  `ClientConnection` gives `ClientCalls` its session.
The map of one manager in `LightingObjects` is what `BlobStore` writes and
exchanges, in the texts of `ObjectForms`, whose lengths `StoreLengths` counts.
`LeaderElection` implements `Leadership` (`ImplementsHandover`); `ClientCalls`
extends the two tables.  The other pairs are kept apart on purpose: each is
already at what TLC can enumerate, and what one needs of the other is a choice
of its environment, wider than what the other does.

### Alarm

`Run` sleeps a second, reloads if asked to, counts, compares, and notifies; each
access to a field that the callers share is an action, because `Alarm` uses no
lock.  `SetAlarm` is two actions (it writes the time, then the flag), `Stop` too.
`pc` says where the thread is, `caller` where the calling thread is.

### LeaderElection

A controller is named by its rank.  One pass of a branch of `Run` is one action:
`WakeUp` takes the semaphore, then exactly one of the branches of the loop is
taken according to the same conditions as in the code:

* leader: `Overthrown`, `Outranked`, `CheckChallengers` and then `CheckAlarm`
  (two actions, since the alarm may go off between them);
* challenger: `TakeOverAfterReply`;
* follower: `StartElection`, `JoinLeader` / `TakeOverUnopposed` / `KeepLooking`,
  `ConnectFailed` / `ConnectAlreadyJoined` / `ConnectSucceeded` /
  `ConnectPending`, `LeaderLost` / `SwitchLeader` / `StayWithLeader`.

The callbacks (`Announced`, `OnSessionJoined`, `OnSessionLost`,
`OnSessionMemberRemoved`, `AlarmTriggered`), the served methods
(`ServeStateSync`, `Overthrow`) and the replies (`OnGetChecksum...Reply`,
`OnGetBlobReply`, `OnOverthrowReply`, `OnErrorReply`) are an action each, and may
come between any two passes.  `Connected`, `Stop`, `ShutDown` are the life of the
elector inside its process; `Crash` ends the process.

The bus keeps `about` (who says it leads), `undelivered` (whose announcement has
not reached whom; a later one replaces an earlier one), `joining`, `sessions`,
`ending` (session events under way) and `calls`.  `Faults` selects what may go
wrong with calls; `Apps` adds client applications that leave the multipoint
session.

Abstractions:

* A batch of `GetBlob` calls is one call: the reply that brings `numWaiting` to
  zero is the one that matters.
* The alarm may go off whenever it is on; `Alarm` shows when it really does.
* A crashed controller does not come back (its restart is a new controller with
  an empty elector; `Stop` and `Connected` cover returning to a process whose
  elector has a past).
* `wakeSem` counts to `MaxWake`.  More posts only add passes that find nothing.
* `Stamps` are reused when no variable mentions them any more.  Three are enough
  in all runs: the guard that picks a fresh one was never blocked for lack of one.

### BlobStore

`sceneElements` stands for the map of `SceneElementManager`: a number for each
client operation, 0 when empty.  A blob is the text of a map or one of the two
entries that stand for an empty one: the *reset* entry, which empties the
receiver's map, and the *initial state* entry, which it ignores.  `GetString` and
`ReplaceMap` are those conversions.

* `ScheduleFileWrite`, `ReadSavedData`, `ClientUpdate` (`CreateOrChange`,
  `Reset`), `HandleReceivedBlob`: the manager, each atomic under its lock.
* `CopyMap`, `Format`, `Stamp`, `WriteFile`, `Answer`, `Push`: the steps of one
  `ReadWriteFile` in the persistence thread.  The lock is free between them, so
  everything else may come in between.  `Push` with an unset text is the
  uninitialised read of the code: time and checksum are any of those around.
* `PostOfOtherStore`: the same thread and semaphore serve the other six managers.
* `Join`, `GetChecksumAndModificationTimestamp`, its reply, `GetBlob`: the
  synchronization of a follower with its leader, with ages as unsigned
  differences modulo `Wrap`.
* `TakeOver`, `Down`, `HostRestart`, `Tick`, `Lose`: the rest of the system.  A
  process may end between any two steps and then leaves a torn file if it was
  writing; a host restart sets its clock back.

Abstractions: checksums do not collide; the semaphore is a flag (more posts only
add passes with nothing to do, which `PostOfOtherStore` adds too); the flag
`read` is true exactly when the list is not empty, so only the list is kept; who
leads is the environment's choice; a write never fails for lack of space.

### ObjectForms

A behaviour is about one kind of object, chosen in `Init`: presets, transition
and pulse effects, lamp groups, scene elements, master scenes, scenes of scene
elements, scenes of the older interface, and the list of updates.  `Create`,
`Update` and `Delete` take what a client composes through the message into the
manager (`held`); `WriteText` makes the text, `Follow` and `Restart` read it, on
another controller and after a restart; `Replace` is a blob received by the
controller itself.  `mine`, `copyMine` remember what clients meant.

A text is a sequence of words and is read the way `FileParser` and `ReplaceMap`
read it: by position, with the loops that wait for a closing word, and with a
stream that fails for good at a number that is none.  `Spoils` names the objects
whose text cannot carry them: a pulse with a null from-state, a pulse with a null
to-state and no preset, an element updated to no effect, a scene component with
no preset, a transition with both a state and a preset.  After one of those has
been read, nothing is claimed of the store.  Names are one word; names with
quotation marks or runs of blanks are left out.  A number read at the end of the
text and a loop that never ends are one outcome, `broken`.

### StoreLengths

Objects are the lengths of their name and body.  `Create`, `Update`, `Deleted`,
`Named`, `SetDefaultLampState`, `ResetDefaultState`, `Reset`, `Received`,
`SyncSceneData` (the older scenes grow with what they show) change `blobLength`
as each manager does, each manager a little differently; `Started`,
`CopyForFile`, `WriteFile`, `Stop` are its life.  Lengths are unsigned
(`Wrap`).  `Counting` are the kinds whose calls keep the count: not scenes and
master scenes, whose counts are wrong after a renaming or a deletion (section
6).

### LightingObjects

A method call of a client is the sequence of its lock sections: the record
`call[c]` holds where it is and what it has found, and `Continue` takes the next
section.  `Read` (gets) and `Command` (apply, and commands to groups) are a call
in one section; `Change` begins a create, an update, a renaming, a deletion or a
reset.  A deletion asks the managers that may refer to the object, one by one,
and erases at the end, under its own lock; a creation or an update of a scene
element, effect or scene refreshes the older form of the scenes (`Derive`,
`RefreshSceneData`).  `Refuse` are the early returns.  `expand` of
`LampGroupManager` is a recursive function on nested groups with cycles.

Clients name only IDs they have been given, the objects of the store at the
start and what these name among them (an object may name one that was deleted
before the last restart; its ID is not given again).  The preset of the default
state has an ID that the code makes up: no list of presets shows it, no signal
names it when it is created, and a store may hold it at the start.  Commands to a group
that set a state or a preset go through `ChangeLampGroupStateAndField`
(`GroupCommand`) and may be refused for a null state or the current one; the two
resets and the change of a field expand the group themselves and answer with the
code of that when there is no lamp (`ExpandedCommand`).  `serial` is
true as long as no two calls have overlapped, `raced` marks a scene that was
stored from elements and effects that had changed since they were read.  Limits other than the number of objects are in `StoreLengths`.

### LampClients and LampCalls

`LampClients` has the map of active lamps, the lists the callbacks fill
(`Announced`, `BusAnswers`, `SessionLost`), and the thread's pass over them, one
list after the other (`Thread`); the retry alarm; `ConnectToLamps`,
`DisconnectFromLamps` and the cleanup of a service that leads no more; `Stop`.
The lamps' side of a session is `RemoteCleans`: a lamp that still keeps a session
the service has left answers `ALREADY_JOINED`.

`LampCalls` has the command (`MethodCall`), its element records, the counters in
`responseMap`, the queue, the thread that sends it to each lamp, the replies
(`Reply`) in any order, and the one answer.  Registering the counter comes after
the push into the queue, as in the code.  A reply is a result, not its content;
a reply without the key that its handler looks for decrements nothing
(`uncounted`).  Which lamps are known and connected is chosen at the start of a
pass.  Commands for lamps that the cleanup takes from the queue are never
answered.

### ClientConnection, ClientMethods, ServiceDescription and ClientCalls

`ClientConnection` runs `Task` callbacks at once, each as the sequence of its
steps between locks; `Step` is any of them, the application's `Stop` and `Start`,
or the bus.  Two callbacks that meet at certain points are a *race*, noted in
`raced`; the client's promises fail with each of seven races alone, so a run goes on
only with the races in `Races`, and each property says without which it holds
(`Without`).  Names of controllers, which only the application reads, are left
out.

`ClientMethods` and `ServiceDescription` are the tables: every method an
application can call, with the arguments sent, those the reply must have, the
handler it runs through, what the service expects and answers, and what the
interface describes.  `ClientCalls` runs any of them: `Begin`, the check and the
call (`MethodCallAsyncHelper`), the service (`MethodCallDispatcher`, `TimeOut`),
the bus thread that finds the handler (`Dispatch`) and runs it (`Handle`); data
sets call several methods.  `OnSessionJoined`, `AddMethodHandlers`,
`AddSignalHandlers`, `LoseSession`, `Stop`, `StopClears`, `StopUnregisters` and
`Start` change the tables of handlers at the same time.  Arguments are counted,
not typed.

### LampService

One turn of the loop is `Connect`, `Receive` or `NoMessage`, `Handle`, `Send`,
`Callback`, `Pending`, `Disconnect`.  `Handle` is one disjunct per message:
`TransitionLampState`, `ApplyPulseEffect`, `ClearLampFault`, `Get`, `GetAll` and
`PropSetHandler`, `AcceptSession`, `SessionLost`, and what the Config service
passes on (`FactoryReset`, `Configured`).  `Join` and `Leave` are the bus, whose
notice of a lost session may come late; `Interrupt` is the OEM layer setting a
flag; `PowerCycle` may come at any moment.  A write of the NVRAM may fail.
`was`, `unwritten`, `cleared`, `touched`, `stale` and `newest` are history.

## 3. Runs

| Run | Instance | Shows |
|---|---|---|
| `alarm` | times 0, 1, 2, 5; count up to 6; fair | never early, and an armed alarm that is left alone expires |
| `election_live` | two controllers from power-up; the higher may crash; calls fail or time out; fair | no lost wake-up, no forgotten session, quiet means settled, refines `Leadership`, and `EventuallySettled` |
| `election_restart` | a settled pair and a newcomer of the highest rank that is stopped and connected again at any point; the leader may crash or be stopped; the lowest announces itself at any time; applications leave | the roles stay exclusive and coups go up, with replies of an earlier life under way |
| `blob_store` | leader and follower, two changes (one may empty the store), clock to 2 with ages modulo 4, one crash with a torn file, one host restart; fair | memory reaches the file, no work without a post, no request dropped, all changes saved |
| `object_forms` | nine kinds, two IDs, for each kind the objects whose forms differ; three calls, any number of texts, blobs and restarts between them | what clients composed is what is held, here and on a follower |
| `store_lengths` | seven kinds, three IDs, two lengths, blobs empty to nearly full; five operations | the count covers the text, and what is written fits |
| `objects` | two overlapping calls on a store in which every object is named by another, with room for one more of each kind but groups | references, derived scenes, answers, expansion |
| `lamp_clients` | one lamp that starts twice; leadership lost once; failed, lost and refused joins; stop; fair | no work forgotten, sessions accounted for, joins settle |
| `lamp_calls` | two commands, one with up to two elements or for all lamps, on one lamp; queue of one; leadership lost once; fair | no early free, counters, the one answer, and that it comes |
| `client_connection` | two controllers, two callbacks at a time, two chances (a controller begins or ceases to lead, crashes, announces again, a call fails, `Stop`) | sessions accounted for, rest is connected, stopped is empty |
| `client_calls` | every method and signal, up to three calls of a data set at once | told once, answers fit, calls settle |
| `lamp_service` | two sessions, two values, dictionaries with no, one, all and unknown fields; everything that may fail does | durable, newest told, answers true, reset forgets |

Other configurations lie beside these and are run by hand, with
`tlc -config X.cfg M.tla`: those of section 6, whose properties do not hold.

### Bounds, and why they are enough

*Election.* Two controllers are all that a coup involves; a third one is needed
only to switch leaders, to be the second challenger, or to leave a stale entry
behind, and `election_restart` has all three.  `MaxInFlight` stops TLC at states
with more announcements, events and calls under way than that, and
`MaxDepartures` at states in which more controllers and applications have left;
states at a bound are still checked, only not continued.  `MaxStops = 1` and one
crash suffice, since every fault found came with the first.

*Election, by hand.* `LeaderBlocked.cfg` with `Mortal = {2}` and `QuietIsSettled`
is a follower that leaves a leader which may crash for a newcomer, of three
controllers: no error in 732770 states, and the follower meets
`controllersMap` with two entries of which none leads (`KeepLooking`).

*Stores.* In `blob_store` two changes let one come during the pass that writes the
other; a blob and a client's change can meet in the same pass; one crash lets a
follower hold something newer than its leader, which is the only way to `Push`.
`MaxMsgs` stops TLC at states with two messages.  In `object_forms` two objects
let one be read shifted into the other, and three calls leave an object created,
changed and beside another.  In `store_lengths` the lengths 1 and 4 with a limit
of 24 let three objects fit or not depending on each operation; five operations
are a creation, two changes, a restart and one more.

*Objects.* Two calls are the least that race, and each of the interleaved pairs
that a property excludes was found with two.  The chain of objects has every kind
of reference; `Derive` is reached through each.

*Lamps.* One lamp starts twice so that joins, losses and announcements of an
earlier bus name meet the new one; a third start breaks what is claimed of
sessions (section 6), which is why they are claimed for two.  The lists of the
thread are keyed by lamp, so lamps meet only in the limit `MaxLamps` and in the
counters, where an element counts its lamps; the proofs are for any number of
lamps and commands.  In `lamp_calls` the second command only asks one lamp
something: it is there to stand in the queue and in `responseMap` beside the
first.

*Client.* Two controllers are needed for a leader of a higher rank; two
callbacks for every race but one: the callback whose link failed can clear the
session of another only when a third is about to forget the leader they share.
With three callbacks the three properties held in 4.6 million states, with three
chances and no race admitted in 5.4 million.  `client_calls` has as many slots as the
largest data set has calls.

*Lamp.* A second session is what displaces the first.  The states need two values
for a change to be seen.

`CHECK_DEADLOCK FALSE` everywhere: a system in which every bounded event has
happened may stop.

### Fairness

Weak fairness, on: the steps of each thread (they run as long as the process
does), the delivery of announcements and session events, the completion of joins
and of method calls (they are answered or time out: the call sites pass a
timeout or take the default one), and the alarm.  None on crashes, stops,
announcements at other times, client operations, posts of other stores, clocks or
faults.  `EventuallySettled` needs all of it; `ChangesAreSaved` only the
persistence thread; `JoinsSettle` the thread of the lamp clients, the bus and the
retry alarm; `CallsAnswered` that thread, the clients' callbacks and the lamps'
replies; `CallsSettle` the bus and the threads of the client.  No strong fairness
is used.

`EventuallySettled` is checked without announcements that repeat: a controller
that announces itself for ever can keep another one switching.

## 4. Properties

*Election.* `UpdatesBlockedByChallengeOnly`: a leader is closed exactly while it
has noted a challenger; six places change one side, four the other.
`FollowerIsPassive` keeps the two roles apart.  `CoupsGoUp`: the ranks of both
ends of a coup, and of a consent under way.  `NoLostWakeup`: an elector that
sleeps has no work queued.  `QuietIsSettled`: with nothing left to happen there is
one open leader and everyone is in its session; it excludes split brain, waiting
for nobody, and a leader closed for ever.  `NoSessionForgotten`: every session is
the leader's or still to be looked at.  `ImplementsHandover`: seen from outside,
leadership is given only by a closed leader to its challenger.

*Alarm.* `NotEarly`: the count never reaches the time of a `SetAlarm` in fewer
seconds than asked for.  `ArmedAlarmExpires`; `NoOverrun` (the count never passes the
time, so the test for equality cannot be missed) is proved.

*Stores.* `MemoryOnDisk`: a thread that waits with nothing noted has the map, the
time and the checksum in its file.  `WorkIsSignalled`: it never waits on noted
work without a post.  `NoRequestDropped`: a request leaves the list with its
answer.  `ChangesAreSaved`: what is noted is written.  `Kept`: unless a text was
read that cannot carry its objects, the manager, the file and the follower hold
what clients composed, and every reader comes to its end.  `Answered`: clients are
answered with what they composed.  `LengthCovers`: for the kinds of `Counting`,
and but for a store that followed a leader, `blobLength` is at least the length of
the text, and a file fits a message.

*Objects.* `NoReferenceBroken`: calls that do not overlap never delete what
something refers to.  `KnownExist`: without overlap, a client that follows the
signals believes in no object that is not there.  `NothingReturns`: however calls
interleave, an object that has gone never comes back, also not by the refreshing
of scenes.  `SceneCacheFresh`: the older form
of a scene is that of its elements and effects, except where two derivations
overlapped.  `AnswersTell`: the response codes tell what is so, and a command
reaches exactly the lamps that groups, elements and scenes stand for, unless its
arguments are refused.

*Lamps.* `NoLostWork`: the thread never sleeps on work.
`FirstConnectedHasSession`: until the leadership has been lost, a lamp that has
started at most twice is connected only through a session, or one whose loss is
about to be handled.  `SessionsAccounted`: each join in progress will be heard
of, and until the leadership has been lost each session with such a lamp is known
or about to be.  `JoinsSettle`: a lamp leaves the joining state.  `FreedLast`:
nothing touches a call that was freed.  `CountersCover`: a counter covers the
lamps still to answer.  `AnswersTell`: a command is answered at most once, with
what its lamps did.  `CallsAnswered`: a command that is queued and registered, names lamps and gets
replies its handlers can count is answered while the service leads, and a lamp
that reported a change is asked for its state.

*Client.* `SessionsAccounted`: every session the client is in is that of its
leader or about to be left, and a leader without session has a join under way.
`RestIsConnected`: with nothing under way the client is connected to the highest
leader it knows, and the application was told so; it claims nothing once any race
has happened.  `StoppedHoldsNothing`: when `Stop` and what was under way before it
have ended, there is no leader and no session and the application knows.  Each
says without which races it holds.  One of them, `lost`, breaks a promise only with
three callbacks and six chances, far beyond the run; the proof found it.
`UndisturbedTold`: a call or signal that no new session and no `Stop` crossed is
told to the application, with the reply if there was one, and no call is told
twice.  `AnswersFit`: what the service answers has the arguments the client's
handler insists on, and what the client sends those the service insists on.
`CallsSettle`.

*Lamp.* `Durable`: the state is that in the NVRAM, but from a failed write to the
next change.  `NewestTold`: the newest live session hears of every change.
`AnswerTrue`: a request that is answered `LAMP_OK` has been carried out, one that
is not has changed nothing, and properties that are described or asked for are
listed.  `ResetForgets`: after a factory reset the state is the factory state,
unless the OEM callback set it in between.

Types are stated once per module (`TypeOK`); those of `Alarm`, `LeaderElection`,
`BlobStore`, `LightingObjects` and `LampClients` are proved, those of `LampCalls`
and `LampService` as far as their invariants need them.

## 5. Proofs

All by TLAPS, for every value of the constants that satisfies the modules'
assumptions; no step is left open.

* `AlarmProofs`: `AlarmInv` adds to the types where the thread may stand while a
  `SetAlarm` is half done; from it `NoOverrun`.  `AlarmNeverEarly` adds `SleepInv`:
  the time is that of the last `SetAlarm` or has been switched off
  (`TimeIsRequested`), and the thread has slept as often as it has counted
  (`SleptEnough`).
* `LeaderElectionProofs`: `ElectionInv` is the type
  invariant, the four safety properties, and two facts they need:
  `AlarmBranchLeads` (only a leader reaches the alarm branch, or a follower could
  be opened for updates by it) and `ProxyOfLeader` (without a leader there is no
  proxy, or a takeover could keep one).  The four are inductive only together:
  for instance that a follower has no challenger is needed for updates to be open
  after a takeover.  `ElectionImplementsHandover` maps every step to a step of
  `Leadership` or a stutter, with the invariant giving the guards.
* `BlobStoreProofs`: `StoreInv` has for each controller `PassInv` (what the thread
  has in hand is fit for its next step), `UpToDate` (as long as no change is
  noted, the memory equals what this pass has copied, formatted, stamped or
  written) and `Signalled` (a post for what this pass has not taken up).
  `MemoryOnDisk` alone is not inductive: it says nothing of a pass that is under
  way.  `NoRequestIsDropped` follows because a thread that answers always has a
  valid file.
* `LightingObjectsProofs`: `CacheFollows` and `NothingComesBack` hold however calls
  interleave, `ReferencesKept`, `KnownIsThere` and `CodesAreTrue` while calls come
  one at a time, all for any stores, bodies, limits and number of calls.  `IInv`
  is one invariant with these parts: `TypeInv`, in which everything that an
  object or a call names has been given (else a dangling name could be given to a
  new object) and each field of a call fits where the call stands; `CacheInv`,
  a scene that is not as its parts are has a call that goes on to derive it: one
  that has changed a part and is about to ask (`Asks`) or is about to refresh
  (`Refreshes`), and the ones that ask get yes, since the scene's element is what
  depends on the part; `AloneInv`, with no overlap only one call is in progress,
  which is what carries the answer to a question (`AskedInv`) to the erasing, and
  what has been erased or made (`KnownInv`) to the signal.  `SceneCacheFresh`
  alone is not inductive, as it says nothing of a store with calls in progress.
  The undoing of a scene that failed asks the same questions and is part of
  `ReferencesKept`.  `BodiesAssumption` and `StoredAssumption` say what a client can send and
  a file can hold: objects of the form of their kind, whose scenes are derived.
* `LampClientsProofs`: `NoWorkForgotten` has no hypothesis.  Its invariant says
  in which lists work may wait when no post is left: only in those that this pass
  has still to take (`Work`), and after a loss of leadership only before the
  clean-up (`CleanUp`).  `SessionsStayAccounted` and `ConnectedThroughSession` rest
  on `JoinInv` (nothing is in progress once the clean-up has gone over the lamps,
  so that a join in progress has its callback still to come) and on `SessionInv`,
  whose parts are inductive only together: nothing is about before the service
  leads (`NotYet`); bus names only go up (`Buses`); an id is that of one session
  with one lamp, in the map, the callbacks and the list of losses (`Ids`); a lamp
  has one join under way (`OneJoin`), which has come as far as the lamp's own
  fields say (`Held`); and under its first name a lamp has no session but that of
  its join (`FirstName`), so that a loss that meets a second join is that of the
  first name.  Hypotheses: only the bus fails (`BusOnly`: objects can be set up,
  no session is lost in the middle of its introspection), and for joins the
  leadership does not come back before the thread has seen it go (`~Hasty`).
  Section 6 says what happens otherwise.
* `LampCallsProofs`: `CallsInv` follows a command.  It is in one place at a time
  (`Placed`); its counter, before it is entered in `responseMap` and after, is at
  least what is still to be counted, `Due`: the lamp calls without a reply, and
  for the command in the thread's hands also the lamps it has not come to and the
  failures it has not counted (`Covered`); and when it has been freed nothing is
  due (`FreedDone`).  The proof is arithmetic on the cardinality of sets of
  targets, each of which leaves one of these sums for another.
  `AnswersAreTrue` adds `AnswersInv`: a lamp call is settled once (`SettledOnce`);
  the total that was registered is at least the calls settled, open and still to
  be made (`Registered`); no success, failure or unknown lamp is counted that did
  not happen (`Happened`).  When the last one is counted the two bounds meet: the
  numbers are those of the fates and nothing else is under way, which is why the
  answer stays true (`Told`).
* `LampServiceProofs`: all four properties of the lamp, for any number of sessions
  and values, any dictionaries, with or without the OEM code.  `StateIsDurable`
  goes with `Empty`: after the NVRAM was cleared it stays so unless the OEM code
  sets a state, which is also why `ResetsForget`.  `NewestIsTold` rests on
  `SessionInv`: the session that signals go to is the newest (`Named`), a session
  about to be accepted has nobody in it yet (`Coming`), and a change the newest
  has not heard of is noted (`Told`).  `AnswersAreTrue` rests on `AnswerInv`: the state is the one the
  message met until it is handled (`Handling`), and there is an answer only while
  there is a message (`OneAtATime`).
* `ClientConnectionProofs`: `NoSessionLeaks` is `SessionsAccounted` for any
  controllers, any number of callbacks at once, any chances and all seven races.
  That no join is forgotten needs `NoteComing`: a callback about to note the
  leader has its join under way.  For the sessions, an entry is known by its rank
  and time and a session by its id or by the life of its controller
  (`EntryNames`, `SessionNames`); one callback at a time looks for a leader, while
  there is none (`OneSeeks`), so that the session noted is with the leader noted
  (`LeaderWith`).  Two joins of the same leader may still both succeed; but then
  the session of the first is gone, since a controller accepts one.  A callback
  that clears a leader leaves its session or has seen it end (`SessionEnds`).
  `StopEndsEverything` is `StoppedHoldsNothing`: without the five races a leader is
  noted after `Stop` by nobody (`LeaderGone`), an entry is joined once at a time
  (`FliesOnce`, `OneAnswer`), and whoever told the application of a connection owns
  the session of the leader or is on its way to tell of its end
  (`BelievesRightly`); no leader and nobody on the way, then, is no belief.
  `RestsConnected` is `RestIsConnected`.  A noted leader without a session has a
  join coming; one with a session has it open or its loss is coming
  (`LeaderOpen`), and the application is told (`ToldOfLeader`).  The leader is in
  `leadersMap` (`LeaderKnown`) and highest there unless somebody is about to lose
  it (`LeaderHighest`), because what a callback picks stays the highest while it
  picks (`PicksHighest`); and while there is none but some are known, a callback is
  on its way to look for one (`Sought`).

Only model-checked: all liveness, which the prover's temporal backend does not
reach; and of the invariants

* of `LeaderElection`, `NoLostWakeup`, `NoSessionForgotten` and `QuietIsSettled`,
  which do not hold with every fault (a restart of the highest controller leaves a
  `gotOverthrowReply` from its earlier life; `ClearState` forgets the sessions of
  join replies) and are checked for the instances above;
* of `LightingObjects`, the half of `AnswersTell` that is about commands
  (`ApplyReaches`; the other half, `CodesTell`, is proved): the lamps of nested
  groups are a recursive function over data, beyond the prover's induction;
* of `ObjectForms`, `Kept` and `Answered`, for the same reason: a text is read by
  recursion over its words; of `StoreLengths`, `LengthCovers`, which is about the
  sum over a map;
* of `ClientCalls`, `UndisturbedTold`, and `AnswersFit`, which reads two tables that have no
  constants to generalise over.

## 6. Where comments and code disagree

Each configuration has one property, which states the comment, and TLC finds a
behaviour of the code that violates it.  They are run by hand.

| Configuration (module) | The text says | The code does |
|---|---|---|
| `StopAnnounced` (`LeaderElection`) | "announce self as non-leader before going away" | a stop in the middle of a pass leaves the loop without it |
| `DepartureHidden` (`LeaderElection`) | "check if ... the leader has left the session" | one name per session is kept, a client's departure hides the leader's |
| `AlreadyJoined` (`LeaderElection`) | "loop back to re-attempt a connect" | nothing joins again |
| `AnswerBeforeSession` (`LeaderElection`) | "Coup was successful" | the answer is a flag left over from an earlier synchronization |
| `LeaderBlocked` (`MCLeaderElection`) | "take necessary action if the coup does not go through" | a stale leader entry keeps the leader closed |
| `NewFileInitial` (`MCBlobStore`) | "create a new file with initialState entry" | a change during the creation writes and broadcasts a reset entry |
| `PulseReload` (`MCObjectForms`) | the state a pulse starts from is optional (`LSFTypes.h:1235`) | written as six numbers and read as one, it shifts the state the pulse goes to (`PulseEffectManager.cc:867`, `FileParser.cc:51`) |
| `RoomRefused` (`MCStoreLengths`) | "LSF_ERR_RESOURCES - blob length is longer than MAX_FILE_LEN" (`SceneManager.h:160`) | a renamed scene's length has the wrong sign and wraps (`SceneManager.cc:528`) |
| `PresetInUse` (`MCLightingObjects`) | "There is a dependency of the entity for which a delete request was received" (`LSFResponseCodes.h:66`) | a preset named only inside a scene's effects may be deleted (`PresetManager.cc:461`) |
| `UpdatedMissing` (`MCLightingObjects`) | "Modify an existing scene" (`SceneManager.h:203`) | the update of a deleted scene is answered OK (`SceneManager.cc:1231`) |
| `LeftBehind` (`MCLightingObjects`) | "A TransitionEffect has been created" (CC `TransitionEffectManager.h:141`) | a scene's effects and elements may be created, and left when it fails, without a signal (`SceneManager.cc:1066`) |
| `LampConnected` (`LampClients`) | "Tear down the session if the object setup was unsuccessful" (`LampClients.cc:354`) | the status is overwritten and the lamp counts as connected |
| `RetryForgotten` (`LampClients`) | "Will retry JoinSession to" (`LampClients.cc:1918`) | an alarm between the loop and the clearing of its flag is lost (`LampClients.cc:1870`) |
| `PartialWithout` (`LampCalls`) | "The requested operation was only partially successful" (`LSFResponseCodes.h:63`) | the code is sent when no lamp did what was asked (`LampClients.cc:928`) |
| `StopTearsDown` (`MCClientConnection`) | "tear-down any existent session with a Controller Service" (`ControllerClient.h:150`) | a join that crosses `Stop` leaves one (`ControllerClient.cc:377`) |
| `EffectAnswered` (`ClientCalls`) | "LSF_ERR_NOT_FOUND - pulse effect with requested id is not found" (CC `PulseEffectManager.h:219`) | the reply has two arguments where the client wants three |
| `ThrownOut` (`MCLampService`) | "throw the whole thing out and return the error" (`LampState.c:153`) | the fields before the unknown one are applied, and `LAMP_OK` is answered |

Also observed while modelling:

*Election and stores.* An overthrown leader may retake at once, before its
successor announces itself, and both then lead until their announcements cross; a
coup may be cut short by an `alarmTriggered` of an earlier alarm; a `SetAlarm`
that meets the expiry of the previous one is wiped out (`Alarm.cc:70`); a join
that fails at once leaves nothing to wake the thread
(`LeaderElectionObject.cc:1013`), and a failed find is dereferenced (1018); a
batch of `GetBlob` calls of which some cannot be sent may end early (578); a fresh
controller whose uptime is below the age of its leader's blob does not fetch it
(467); two blobs handled in the wrong order leave the older one (1840); file times
from before a host restart give huge ages; the first joiner accepted names the
service's session (`ControllerService.cc:1177`); `PersistenceThread::Stop` skips
the last write; `PresetManager::ReadWriteFile` and those like it clear the list of
requests and answer only if the pass wrote nothing.

*Managers.* The count of lamps to answer has eight bits
(`LampGroupManager.cc:850`); a scene's bus object is used after the unlock
(`SceneManager.cc:877`); `ApplySceneHandler` answers twice (110); a scene without
elements is never answered (971); deleting a master scene takes its text off
`blobLength` twice (`MasterSceneManager.cc:508`) and renaming one never stores the
new length; received blobs add their IDs to the count and leave out their text;
resetting the default state schedules no write (`PresetManager.cc:147`).

*Lamps and clients.* A command that is pushed after the cleanup waits until the
service leads again (`LampClients.cc:427`); one for no lamps (485), one whose
reply lacks the expected key (1168) and a group command naming a preset that is
missing are never answered; a pulse whose second preset is missing is dropped in
silence.  `ALREADY_JOINED` makes the client join again in a busy loop.  A
callback that could not link its session clears the leader without looking whose
session is noted (`ControllerClient.cc:631`): of three callbacks, one that is about
to forget a lost leader, one that joins it again and the one that fails, the
second loses its session.  A lost
leader is struck out of `leadersMap` only after the application was told
(`ControllerClient.cc:437`), so that another callback can pick it again meanwhile:
it is joined twice, the second session takes the place of the first, and once that
has ended the application still believes in the first.  Replies
under way at a new session are dropped with the old handlers.  A lamp that starts
again while it is joined keeps the id of the old join's session; the loss of that
session blacklists the lamp although its second join is under way
(`LampClients.cc:1694` does not look at `JOIN_SESSION_IN_PROGRESS`), a third name
then starts another join, and the two results are taken for one: the lamp counts
as connected to a session that has gone (`LampConnected.cfg` with `MaxBus = 3`,
`SessionId = {1, 2, 3, 4}` and no faults).  The result of a join from before a
loss of leadership connects the lamp after it (that configuration with
`MaxToggles = 1` and no faults).

*Lamp.* `ControllerSessionID` and `SendStateChanged` survive a disconnection; an
older session that is still alive hears no more once a newer joiner is accepted,
even if that one never joins; a state that could not be written is not written
again by setting it again.

## 7. Not modelled

* The composition of whole components (section 2 says where they meet and why
  they are apart), and the convergence of the stores of two controllers through
  several changes of leader.
* The lists of updates and the third blob of `SceneManager` as files of their own:
  their text is in `ObjectForms` (`updates`), their passes in the persistence
  thread are like those of `BlobStore`.
* The scene's bus object and its sessionless event; the text of lamp faults, the
  contents of replies of lamps, controller names, tracking IDs, supported
  languages; the types of arguments.
* In the lamp: property store (`OEM_LS_Provisioning.c`), onboarding,
  announcements, passwords, the link timeout.
* `ControllerServiceRank` (a number here), `DeviceIcon`, `LSFKeyListener`,
  `AJInitializer` (data and wrappers without behaviour); `Main` and the OEM layers
  (process start-up; a restart is a crash and a new start in the models).
* Samples and tests: programs that need a running system.
