# A TLA+ model of the F01 access terminal

The program is a Qt/C++ application for a face-recognition access terminal
(`V833.pro`): a camera, a relay for the door, a card reader, a temperature
sensor, a touch screen, and a connection with a back end that hands out the
persons who may pass and collects records of who did. It has no tests and no
documents; what it promises is in the comments of its headers, which the
properties below quote by file and line. Paths are those of the repository, under `src/`.

1. [Inventory](#1-inventory): components, threads, what is hard
2. [The plan](#2-the-plan)
3. [The modules and the code](#3-the-modules-and-the-code)
4. [The runs](#4-the-runs): what is checked, with which bounds and fairness
5. [The proofs](#5-the-proofs)
6. [Findings](#6-findings)
7. [What is not modelled](#7-what-is-not-modelled)

To check: `tlc -config UserSync_safety.cfg MCUserSync.tla` (and so on, the cfg
names begin with the module's), `tlapm UserSyncProofs.tla` (and the seven other modules
of [section 5](#5-the-proofs)).

## 1. Inventory

### Components

| component | state it keeps | operations | interacts with |
|---|---|---|---|
| `UserIdRequest` (`communicateModule/useridrequest.cpp`) | `m_updateFace` (persons to ask for), `m_startFaceDownload`, `m_faceSyncStatus`, `m_curFaceId`, the count of turns | `run` asks for one person after another and gives up requests not answered; slots `onAlluserId`, `onUpdateUsers`, `onNewUsers`, `onAllUsersIc` | signals to the connection (requests) and to `FaceManager` (removals); `SqlDatabase`; `m_sync` |
| `ServerDataDeal` (`serverdatadeal.cpp`) | none of its own; takes packets from `ServerDataList` | commands of the back end: persons, `Bind`, `OpenDoor`, `ClearOfflineData`, settings, upgrade, cards | blocking signal to `FaceManager`, queued signals to Main, `SqlDatabase`, `QalHardWare`, `Switch` |
| `ServerDataList` (`serverdatalist.cpp`) | the list of packets | push (locked), take (not locked) | pushed by the connection and by MQTT, taken by `ServerDataDeal` |
| `SqlDatabase` (`sqldatabase/`) | tables `userdata`, `insertFail`, `offline`, cards, authorisations; caches `m_localFaceSet`, `m_localFaceFail` | insert, update, delete, select, each under `m_mutex` | every thread |
| `FaceManager` (`faceAlgorithm/facemanager.cpp`) | the algorithm's handle and its call structure, tracked faces | `run`: camera, recognition, door, quiet time; slots that enrol, remove, clear | `FaceInterface`, `QalHardWare`, `SqlDatabase`, `m_sync` |
| `FaceIdentify` (`faceidentify.cpp`) | faces handed over, `m_tempFlag`, `m_cardWork`, `offlineNmae` | `run`: decides on a face, opens, records; `dealIcData` for cards | semaphores of `FaceInterface`, `TempManager`, `QalHardWare`, `SqlDatabase`, the connection |
| `OfflineRecord` (`offlinerecord.cpp`) | none of its own | uploads the rows of `offline` when the terminal is quiet | `SqlDatabase`, the connection, `m_offlineFlag` |
| `TcpClient`, `V1TcpClient`, `TcpMiddware` (protocols 1, 4, 2) | socket, three timers, bytes not yet parsed | connect, log in, register, heartbeat, parse, write | Main's slots, `ServerDataList`, `m_netStatus` |
| `HttpsClient` (protocol 3) | three timers, `m_allowRequest`, `m_loginStatus`, `m_uploadStatus`, the requests under way, one inside the other | log in, heartbeat, ask for the list and for persons, upload records; each waits in an event loop of its own | Main's slots, `SqlDatabase`, `m_netStatus` |
| `NetManager` (`netManager/`) | which interface is in use | watches carriers, switches interface, sets the clock | `m_netStatus`, `WpaGui` |
| `QalHardWare` (`hardware/`) | `m_doorStatus`, `m_endTimerMs`, lamps | `checkOpenDoor`, `checkCloseDoor` | called from every thread that grants passage |
| `TempManager` (`temperature/`) | `m_startTemp`, `m_endTimerMs`, bytes of a serial dialogue | `startTemp`, `timeckeck`, update of the sensor | `setTempResult` of `FaceIdentify` |
| `IcCardModule` (`icModule/`) | - | read cards | `FaceIdentify` |
| `ToolTcpServer`, `UdpServer` (`communicateExt/`) | `m_tcpSocket`, `m_heartBeat`, the message being read, the pieces of an upload | configuration tool: settings, firmware, heartbeat | `Switch`, `TempManager`, `Log` |
| `MqttModule` (`mqttModule/mqttmodule.cpp`) | client handle, `status` | connect, subscribe, reconnect, receive | `ServerDataList` |
| `Switch`, `DataShare` (`functionSwitch/`) | settings; the flags `m_sync`, `m_netStatus`, `m_offlineFlag`, `m_idcardFlag` | load, save; plain reads and writes | everything |
| `ProStorage` (`common/`) | - | creates and wires the objects for the protocol in use | everything |

### Threads

`ProStorage::run` is the thread in which `UserIdRequest`, `FaceManager`,
`FaceIdentify`, `ServerDataDeal`, `OfflineRecord`, `IcCardModule` and
`NetManager` are created. Each of them also is a `QThread` with a `run` of its
own, but *an object's slots run where the object lives*: in the event loop of
`ProStorage`, one at a time, in the order their events were posted. The models
call that thread `Main`. `TcpClient`, `V1TcpClient`, `TcpMiddware`,
`HttpsClient`, `TempManager` and `QalHardWare` move to their own thread, and
their slots run there. `ServerDataDeal::removeFaceGroup` is a blocking signal to
Main; every other signal between threads is queued. `ServerDataDeal` is started for
protocols 1 and 4 only.

Nothing but the database has a lock that all its users take. The flags of
`DataShare`, the set `m_updateFace`, the door's variables and the structure
passed to the face algorithm are read and written by several threads as they come.

### What is hard

`PROJECT.json` lists the hazards, each at its line, with the properties that
would catch it. In short:

- **Synchronisation** (`UserSync`). A list of ids, downloads one by one with a
  timeout, deletions and `Bind` from another thread, late answers, broken
  connections and crashes all work on one table, one cache of ids and one face
  library. Correct: a deleted person does not come back, an older version never
  replaces a newer one, the cache is the table, whoever has a row is recognised,
  every download ends.
- **The door** (`DoorRelay`). Three threads open it, one closes it, a third sets
  the timer up, a fourth sets the clock, without a lock. Correct: open for its
  time, closed after it.
- **Records** (`OfflineRecords`). A record is uploaded at once and again until
  confirmed, under an id that is a second. Correct: none is lost to the network,
  to a crash or to a clock set back.
- **The connection** (`TcpLink`). No handler is connected to the errors of the socket;
  three timers find out, and may meet one another's connection. Correct: the
  terminal always wakes up, logs in again, and leaves a good connection alone.
- **The hand-over of faces** (`FacePipeline`). Camera and decision share a
  vector, a picture, two flags and a semaphore, of which only the semaphore is
  made for it. Correct: a decision is about one face, and everybody who stays
  gets one.
- **The way of a command** (`Commands`). Two threads push commands under a lock, a
  third takes them without it, and the MQTT client must be subscribed for the
  half of them that comes that way. Correct: a command comes out once, in order,
  and a broker that stays is subscribed to.
- **Framing** (`Framing`). The stream is cut by hand, with a length, a magic word
  and a search for the end of one message before the start of the next.
  Correct: what is handed on is in order and under its own command.
- **The configuration tool** (`ToolSession`). Two connections share one socket
  pointer, one timer and one buffer; an upload comes in pieces and may break off
  anywhere. Correct: an upload sent whole is accepted, a tool that is gone is noticed.
- **The temperature** (`TempMeasure`). A measurement is asked for by a signal and
  handed over by a flag and two values with no lock, possibly after it has been
  given up. Correct: a person is judged by a temperature of their own.
- **Protocol 3** (`HttpsLink`). A request waits in an event loop that runs the
  other slots, which make requests on top of it and return first. Correct: the
  two timers and four flags agree in whatever order the requests return.
- **The algorithm's call structure**, shared by Main and the frame loop with only
  `m_sync`, a frame old, between them: see section 7.

## 2. The plan

Order: the state that decides who may pass, then what the terminal owes those
who pass, then what both rest on.

| | module | state |
|---|---|---|
| 1 | `UserSync`: persons, faces, downloads, commands, crashes | modelled, checked, proved |
| 2 | `DoorRelay`: openers, frame loop, clock | modelled, checked, proved |
| 3 | `OfflineRecords`: passages, table, upload, confirmation | modelled, checked, proved |
| 4 | `TcpLink`: socket, timers, login, `m_netStatus` | modelled, checked, proved |
| 5 | `Turnstile`, `FacePipeline`: `FaceManager`, `FaceInterface`, `FaceIdentify` handing over faces | modelled, checked, proved (refinement) |
| 6 | `Fifo`, `CommandList`, `MqttLoop`, `Commands`: the list of packets, the MQTT client, and both together | modelled, checked, proved (refinement) |
| 7 | `Framing`: the cutting of the stream | modelled, checked, proved |
| 8 | `ToolSession`: connections of the tool, upload in pieces | modelled, checked, proved |
| 9 | `TempMeasure`: `FaceIdentify` and `TempManager` | modelled, checked, proved |
| 10 | `HttpsLink`: the nested event loops of protocol 3 | modelled, checked, proved |
| 11 | `AlgorithmCall`, `NetSwitch`, `IcReader`, `Settings` | not modelled, section 7 says why |

Composition. `Commands` composes `CommandList` with `MqttLoop`: the callback of
the MQTT library pushes only while its session is subscribed. `Fifo` is the
abstract specification of the list, which `UserSync` assumes for its commands
(`packets`); that the list implements it is a run and a theorem; so is `Turnstile` for the
hand-over of faces. `UserSync` and
`OfflineRecords` take messages as whole and in order, which `Framing` shows for
what is handed on; `FacePipeline` leaves a measurement out, which is `TempMeasure`.

## 3. The modules and the code

Every definition that stands for code has its file and lines in `PROJECT.json` ("map").
Definitions keep the names of the code. A definition named `...` with a comment
that begins "Mutant" is not part of the model: it is a plausible bug, there to
show that a property can fail. `DoorRelay`, `FacePipeline` and `TempMeasure` prefix what
every module has (`DoorInit`, `FaceSpec`, `TempTypeOK`), so that `PassageProofs` can extend all three.

### UserSync

Five threads, `Main`, `Req`, `Deal`, `Face`, `Tcp`, one action per step between
two points where another thread can see or change what the step uses.

- `Req*` is `UserIdRequest::run`, one action for each piece of a turn: `ReqTop`
  reads the flags and the size of the set, `ReqAbort` and `ReqPick` act on what
  was read, `ReqWake`/`ReqFinish` are the two sides of the three seconds' sleep,
  `ReqTick` counts turns and gives up a request.
- `Main*` are the slots, taken from `mainQ` in order. `onAlluserId` is
  `MainAllIds`, then `MainPurgeFace` and `MainPurgeRow` for each person to go,
  then `MainAllIdsEnd`; for an empty list `MainClear`, a `MainClearFace` for each
  person in the cache, then `MainClearRows` and `MainClearEnd` (`clearFaceGroup`);
  `onUpdateUsers` is `MainUserAbsent`, `MainUserUpdate`, or `MainUserNew` with
  `insertFaceGroups` after it (`MainEnrolBadImage`, `MainEnrolRefused`,
  `MainEnrolSave`, `MainEnrolInsert`).
- `Deal*` are the commands: `DealSave` (operater 1 and 2), `DealDelete` with
  `MainRemove` while Deal waits, `DealDeleteRow` and `DealDeleteEnd`, `DealBind`.
- `UploadFailures`, `UploadClear` are `requestInserFail` of the connection's
  thread, `FaceOffline` the line of the frame loop that ends a synchronisation
  without a network.
- `Restart` is a crash: what is on disk stays (`userdata`, `insertFail`,
  `regInfo`), the rest is as `FaceManager::init` makes it.
- `ServerSave`, `ServerDelete`, `ServerBind`, `ServerAnswer`, `ServerIgnore`,
  `CommandLost`, `Login`, `Break`, `NetLost` are the back end and the network, external.
  `ServerIgnore` is a request without an answer, or with one the terminal drops
  (a result that is not 200, for the list also a messageId that is not 3); neither
  is asked for again on that connection. `CommandLost` is a command lost on a live connection,
  by `Framing` or by `CommandList`. `missed` is history: who has been
  deleted there with the removal refused or lost, until a list is parsed again.

Data: a person's version, a counter of the back end's changes, stands for
`updateDate` and everything else in the row; 0 is no row, an empty answer or a
person the back end does not have. An answer on the wire and an event posted to Main
are one queue, since both keep their order; what a broken connection loses are
requests not yet answered. Commands come over TCP; those of MQTT enter the same
list (`Commands`) and could overtake, which is left out. The authorisation and card tables
are left out; protocol 3 reaches the same slots through `HttpsLink`. The algorithm's calls are taken as never
overlapping (see the hazard at `facemanager.cpp:479`).

### DoorRelay

`checkOpenDoor` is four steps per opener (test of the timer, `m_doorStatus`,
relay, timer), `checkCloseDoor` three of the frame loop. `m_endTimerMs` is only
ever compared with the wall clock, so that `left` holds the difference; it starts
with any value since the constructor does not set it, and `HwRun` sets it when
the thread of `QalHardWare` gets to run. `ClockSet` is `getNtp`, `SetDelay` the
two places that set `m_doorDelayTime`, `SyncChange` stands for all of
`UserSync`. `owed`, `raced`, `stepped` are history: no action's guard reads them.

### OfflineRecords

A passage is granted and gets its id (`FacePass`, `CardPass`, `RemotePass`), is
uploaded if the network is up (`EmitRecord`; by `Deal` in any case), then
inserted (`InsertRecord`). `OffBegin`, `OffSelect`, `OffUpload`, `OffEnd` are
`OfflineRecord::run`, `parseUploadData` the confirmation. An upload or a
confirmation may be lost at any time. `Restart` keeps the table only.

### TcpLink

`ConnectHost` blocks the thread in `waitForConnected` and is therefore two
actions: `Reconnect` up to the wait (in `RequestTimeout`, `ConnectTimeout` and
`pareHeartbeat`, which call it) and `ConnectSuccess` or `ConnectFail` after it.
`OnReadData` stops `m_connectTimer`, then the messages of one read are parsed
one by one. `WriteDataToServer` arms the timer unless it is armed. `peer` is the
connection as the back end sees it, `session` whether it holds it for logged in,
`socket` as the terminal sees it. The back end is assumed to answer 401 to the heartbeat of a
connection that is not logged in; `pareHeartbeat`, which logs in again only
then, assumes it too. `V1TcpClient` is the same module with another interval in
`ConnectTicks`.

### FacePipeline, Turnstile

`Cam*` is `FaceManager::run` with a face in the frame: `CamTrack` compares its
track with `m_trackId` and reads `m_success` and the time, `CamStop` sets
`m_iStop` by what was read, `CamTest` reads `m_iStop`, `CamAppend` puts the face
into `m_faceHandle`, `CamRelease` copies the picture and releases the semaphore.
`Id*` is `FaceIdentify::run`: `IdTake` acquires and reads the id, `IdStatus`
reads the verdict from the vector again, `IdRecord` opens, saves the picture and
records, `IdClear` and `IdStop` empty the vector and let the next face through.
`FaceTimeout` is the end of `m_identifyWaitTime`, `Move` the persons. `FaceSync` sets
and clears `m_sync` at any time; while it is set `run` skips every frame (`CamTrack`). A read of
the first element of an empty vector gives any face. What a wait for a
temperature does is time only, since it ends by itself.
`Turnstile` is the promise: offered, decided on or passed over, carried out, finished, one face
after the other. The refinement maps `stage` to where the two threads are, `offer` to the face
handed over last until `IdStop`, and `decision` to the id and the verdict `IdRecord` goes by.

### CommandList, MqttLoop, Commands, Fifo

`CommandList` is `ServerDataList` down to the steps of Qt's `QList`, an array of
pointers with the indices `begin` and `end`. `PushLogPacket`, under `m_mutex`, is
`PushLock`, `PushTest` (room in front or not), then `PushMove`, `PushReadEnd`, `PushWriteEnd` when there is
none, then `PushSlot` (`--d->begin`) and `PushWrite`. `GetLogPacket` takes no lock: `TakeTest`,
`TakeBack`, `TakePopRead` (both indices), `TakePopWrite`, and `TakeDeal` is the call of
`dealJsonData` in `ServerDataDeal::run`. Qt's `pop_back` is `erase(--end())`, and
`QListData::remove` moves the shorter side: of a list of one packet it increments
`d->begin`, the index that `push_front` decrements, otherwise it decrements `d->end`.
`raced` is history: a take has met a move of the array, found the one slot that is not yet written, or
written an index that a push had read or changed. What Qt does then is
not followed.

`MqttLoop` is the loop of `MqttModule::run`, with the calls of the library
succeeding, failing for want of a connection or, the subscription, being refused;
the broker goes and comes, and drops sessions. `Commands` lets both threads push,
the MQTT callback only while its session is subscribed. `Fifo` is three actions
over the sequence of commands waiting. The refinement maps `waiting` to what
lies between `begin` and `end`, without a slot that is not yet written, behind
the command in the taker's hands.

### Framing

The stream is a sequence of symbols, pieces of a message that no read divides:
the halves of the magic word, the rest of the header, the body. `Send`, external, puts the
next message behind what has not been read (`coming`), of a size chosen at the start; a read
returns any number of symbols of it, from one to all. `ReadHeader`, `NextHeader`, `ReadTail`, `ReadMore` are the
branches of `OnReadData`, `CheckPartial` and `CheckRead` those of `checkReadData`,
`Found` what `parseData` hands on. Sizes are counted in symbols and the reading of
the header's fields from a short read is what the code makes of it (a length of
0, a command of nothing). `V1TcpClient` and `TcpMiddware` have the same code.

### ToolSession

`OnTcpRead` is the slot with the whole of what it calls: the buffer, `parseData`,
the heartbeat, `DevUpdate`. Only a message at the start of the buffer is recognised; `parseData`
clears the buffer when it is done, so that `others_cmd` is empty and whatever the read
has behind that message is dropped. The slot runs for data on any connection, but reads
`m_tcpSocket`, which may have none. `Connect` replaces `m_tcpSocket` and connects the new
socket's signals, those of the old one stay connected, so that `OnStateChanged`
acts for any connection. `NullRead` is a read after the timer has deleted the
socket, which ends the process; `Restart` removes the file the pieces are in, as the constructor does. The
tool and the network send, cut, glue and stop.

### TempMeasure

`BeginRound`, `SeeFlag`, `GiveUp`, `ResetFlag`, `TakeVal`, `TakeResult`, `Record`
are the round of `FaceIdentify::run`; `StartTemp`, `TimeCheck` and the three
assignments of `SetTempResult` are `TempManager`, whose thread nothing hurries.
A measurement is the number of the round in which the sensor was read. `quiet`
and `orderly` are history.

### HttpsLink

`loops` is the stack of the event loops `QEventLoop::exec` has been called in, each
with the reply that has or has not come and whether its timer has fired. The slots
`HttpLogin`, `HttpHeartbeat`, `HttpsGetUsers`, `HttpsUploadopenlog` put a request on
top; `Finished` and `TimeUp` happen to any request; only the innermost can return
(`Return`), with the second half of its slot. `requestGet`, `requestPost` and
`requestPostHeart` differ in their seconds only and are one: `TimedOut` and
`Replied`. `GotToken` stores the token and asks for the list on top, `LoggedIn` is
the end of the login whatever has become of the list. A `QTimer` does not enter
its slot again before it has returned (`LoggingIn`).

## 4. The runs

All finish within three minutes with two workers. `CHECK_DEADLOCK FALSE` is said
where the system may stop: in `UserSync`, with the changes, logins and restarts of
the bounds used up, a terminal with nothing left to do and no connection; in
`Commands`, when everything has been sent and dealt with, the threads only look
again; in `Framing`, when the stream has been read to its end; in `ToolSession`, when
tool and connections are used up; in `TempMeasure`, when the rounds are.

| run | configuration | checks | shows |
|---|---|---|---|
| `sync_safety` | 2 persons (symmetric), 2 changes, 1 login per life, 1 crash | `TypeOK`, `FaceSetIsTable`, `RowHasFace`, `NoGhost`, `RowsNeverGoBack` | cache, table and library stay together and nobody deleted comes back, whatever overlaps, unless the removal was refused or lost |
| `sync_live` | 1 person, 2 changes, 1 login, timeout of 1 turn | `DownloadEnds` | no request without an answer holds up recognition |
| `sync_flag_stuck` | 1 person | `SyncFlagMeansSync` (violated) | the finding of section 6 |
| `door` | 2 openers, delays 0 and 2, clock set once | `RelayFollowsStatus`, `OpenForItsTime`, `DoorCloses` | openings do each other no harm; the door closes |
| `records` | 2 passages, 2 seconds, 1 message each way, 1 crash | `SecondKept`, `EveryRowIsTried` | a record is lost to none but one of its own id, and a refused upload does not hold up others |
| `faces` | 2 persons, one face ahead | `DecisionIsOwn`, `HeldForAFace`, `OneAfterTheOther`, `FaceIsSeen` | a decision is about one face, and the two threads are the turnstile of `Turnstile`; the camera is held off for a reason only, and who stays gets a decision unless a synchronisation keeps recognition off |
| `link` | heartbeat and retry 6 ticks, answer 2 ticks, 3 faults, 2 other writes | `WillWake`, `NoStrayRetry`, `AnsweringPeerKept`, `LoggedInAgain` | whatever fails, the terminal wakes, logs in again, and gives up no connection that answers |
| `commands` | 2 pushers, 2 commands each, room for 2 in front, broker lost twice, 1 refusal | `ListIsFifo`, `LossIsNoticed`, `CommandIsDealtWith`, `SubscribedAgain` | until a take meets a push the list is the queue `Fifo`; nothing is left lying; a lost subscription is noticed; a broker that stays is subscribed to |
| `framing` | 3 messages of 1 to 3 symbols, 1 break | `InOrderOnce`, `OwedIsParsed` | in order, once, under its own command, and nothing that arrives as expected is lost |
| `tool` | 2 connections, 2 uploads of 2 pieces, 2 other messages, 1 crash | `RefusedOnlyIfSpoilt`, `HeartbeatIsTimed`, `SilenceIsTold` | an upload of which all is parsed is refused only for what another left behind; a tool that has said a heartbeat is timed, and one that falls silent noticed |
| `temperature` | 3 rounds, measurements of 1 and 3 half seconds, a wait of 5, clock set once | `TempIsOwn`, `RoundEnds` | a quiet or orderly round goes by its own temperature; every round ends |
| `https` | 3 signals, 2 faults: 5 event loops | `OnlineMeansLoggedIn`, `HeldBackForAWhile`, `OneUpload`, `UploadEnds`, `LoggedInForGood` | timers and flags agree in any order of returns; one upload or heartbeat at a time; a back end that answers is logged in to for good |

**Why the bounds are enough.** *UserSync*: a ghost takes one person added
and deleted (two changes), an old answer two versions; a second person is what
makes two overlap (one being removed while the other is enrolled), and no handler compares two
ids. Bounds on changes and logins are guards of external actions only; a turn
count of 0 or 1 suffices since only passing the limit matters. *DoorRelay*:
a race needs two threads; delays of 0 (a setting the code accepts) and more;
times over `MaxLeft` only prolong the wait. *OfflineRecords*: the loss of a record needs two
passages of one id; with two ids the loop has a next one to get to. Two of the
passages may be in any two of the three threads. *TcpLink*: a tick is 5 s, so
that the intervals are those of `TcpClient` (30 s, 30 s, 10 s); three faults
reach one in each of the network, the connection and the session, in any order.
*FacePipeline*: two persons are what it takes to mix them up; a second face can be ahead
only after a decision that has outlasted its time, which both properties excuse.
*Commands*: two pushers contend for the lock, their second commands find the list
moved and not moved. *Framing*: three messages are what it takes to have one in
the middle of two in one read; three symbols a body that has a middle. *ToolSession*:
the second connection supersedes the first, the second upload finds the pieces of
the first, one of two pieces is not the last. *TempMeasure*: a measurement given up in
one round is taken in the next, the third shows what remains. *HttpsLink*: a token,
a heartbeat and three signals are five loops, more than the three that an answer
mistaken for a time-out takes.
A second login within one life, with what the first connection left in the
queues, is beyond what a run can enumerate; the proofs cover it.
The proofs remove the bounds for all safety properties.

**Fairness and why the code justifies it.** Weak fairness only, of threads the
kernel schedules: `Req`, `Main`, `Deal`, `Tcp` and the frame loop in `UserSync`
(none waits for a lock; Deal waits for Main, which never waits for it); an
opener once it has begun, the frame loop, the thread of `QalHardWare` and the
passing of time in `DoorRelay` (the camera is taken to deliver frames);
`OfflineRecord`'s loop in `OfflineRecords`; in `TcpLink` the thread, `NetManager`,
time, and the answers of a back end that can be reached; in `FacePipeline` both
threads and time (the camera delivers frames), but not that `m_sync` is ever cleared; in `Commands` the pushers once they
have begun, the taker, the MQTT loop and the library's keep-alive; in `ToolSession`
the event loop, for each of its sockets and timers; in `TempMeasure` the face
thread and time, nothing of `TempManager`; in `HttpsLink` the event loop, the login
timer, the one that allows requests again, and that the innermost request is
answered or its time is up (not which of the two, nor the heartbeat). Nothing is asked of the
back end or of the network in `UserSync` and `OfflineRecords`: no answer, no
login, no confirmation has to come. `DownloadEnds` holds for that reason only:
the turns are counted.

**What excuses mean.** `DoorCloses` excuses a synchronisation,
during which `FaceManager::run` does not look at the door; `sync_live` shows
that downloads end, and the finding that `m_sync` may nevertheless stay set. `FaceIsSeen`
excuses it too: `run` skips every frame as long as `m_sync` is set, with no bound.
`NoGhost` excuses a deleted person whose removal was refused or lost on a connection that
lives (`missed`): the list of ids answered with an error, or the command lost
before it was dealt with. The code does not ask again, and the ghost stays until a list
is parsed, which ends the excuse. `RowHasFace` excuses the time between a face's
removal and its row's (`BeingRemoved`), which for an empty list is the time until all faces are gone.
`OpenForItsTime` and `RelayFollowsStatus` excuse what happens after a closing has overlapped an
opening (`raced`): they say that nothing else parts relay and flag. After such an overlap
the relay can be on with `m_doorStatus` FALSE, and stays on until the next opening is closed.
`SecondKept` excuses the loss of a record to another of the same id: two passages of
one second, or two faces while pictures are not uploaded, share one.

`DecisionIsOwn`, `OneAfterTheOther` (`broken`) and `FaceIsSeen` excuse what follows a decision that has lasted longer than
`m_identifyWaitTime` (`late`). That does happen: the wait is 2 s by default
(`switch.cpp:200`) and a temperature is waited for up to 2.5 s. The camera then
hands over a second face while the first is being decided, `IdClear` empties the
vector of both, and the semaphore, one ahead, lets `FaceIdentify` read an empty
vector. The properties say that nothing short of it mixes faces, and that nothing but it and a
synchronisation keeps anybody out.

`ListIsFifo` and `CommandIsDealtWith` end where a take meets a push (`raced`): the
list is then read while its array is moved, or the two write one index from values of before.
A command may be lost or doubled there, which is a hazard the properties name and do not catch. `SubscribedAgain` excuses a subscription
refused after a reconnection, which `run` never repeats while it is connected.
`OwedIsParsed` speaks of messages that arrive the way `OnReadData` expects (`owed`):
the branch for the end of one message and the start of the next in one read does
lose messages. `RefusedOnlyIfSpoilt` is about uploads of which every piece is parsed (a piece
dropped behind another message is never answered, and the tool waits), and excuses one that finds pieces of another
in the file; `HeartbeatIsTimed` and `SilenceIsTold` go by the last message that was parsed;
`SilenceIsTold` excuses a timer that another connection has stopped: the
end of a superseded connection does that. `TempIsOwn` excuses a round that begins
while a measurement given up earlier is under way: its result may be taken for the
next person's. `LoggedInForGood` supposes that only so many requests fail (`MaxFaults`).

Each property of a passing run has a mutant in `PROJECT.json`, a plausible bug
under which the same run finds it violated.

## 5. The proofs

Checked by TLAPS for every value of the constants that satisfies the module's
`...Assumption` (types of the bounds, distinctness of the model values; TLC
evaluates them in every run). The proofs need no bound: `MaxClock`, `MaxFaults`
and so on are any naturals.

| module | theorem | states |
|---|---|---|
| `UserSyncProofs` | `TypeCorrect` | `[]TypeOK` |
| | `CacheExact` | `[]FaceSetIsTable` |
| | `RowsAreRecognised` | `[]RowHasFace` |
| | `RowsForward` | `RowsNeverGoBack` |
| | `NoGhosts` | `[]NoGhost` |
| `PassageProofs` | `DoorTypeCorrect`, `RelayInStep`, `FullOpening` | type, `[]RelayFollowsStatus`, `OpenForItsTime` |
| | `FaceTypeCorrect`, `DecisionsOwn`, `HandOverIsTurnstile`, `HeldForAReason` | type, `[]DecisionIsOwn`, `OneAfterTheOther` (refinement of `Turnstile`), `[]HeldForAFace` |
| | `TempTypeCorrect`, `TemperatureIsOwn` | type, `[]TempIsOwn` |
| `OfflineRecordsProofs` | `TypeCorrect`, `RecordsKept` | type, `[]SecondKept` |
| `TcpLinkProofs` | `TypeCorrect`, `AlwaysWakes`, `RetryOnlyWithoutLink`, `PeerKept` | type, `[]WillWake`, `[]NoStrayRetry`, `AnsweringPeerKept` |
| `CommandsProofs` | `TypeCorrect`, `ListImplementsQueue`, `LossesNoticed` | type, `ListIsFifo` (refinement of `Fifo`), `[]LossIsNoticed` |
| `HttpsLinkProofs` | `TypeCorrect`, `OnlineLoggedIn`, `AllowedAgain`, `OneUploadAtATime` | type, `[]OnlineMeansLoggedIn`, `[]HeldBackForAWhile`, `[]OneUpload` |
| `FramingProofs` | `Inductive` | `[]IInv`, from which the rest follows |
| | `TypeCorrect`, `HandedOnInOrder`, `ExpectedHandedOn` | type, `[]InOrderOnce`, `[]OwedIsParsed` |
| `ToolSessionProofs` | `TypeCorrect`, `UploadsUnspoilt`, `SilenceIsTimed` | type, `[]RefusedOnlyIfSpoilt`, `[]HeartbeatIsTimed` |

The arguments, and why the invariants have to be strengthened:

- **RowHasFace** is not inductive: `sqlInsert` follows the saving of the face,
  and the face could go in between. `EnrolInv` says that the person being
  enrolled has no row, that its face is in the library before the row is
  written; `RemoveInv` that at most one removal is in Main's queue and that it is
  the one Deal waits for. Only Main enrols and only Main removes, so they do not overlap.
  `clearFaceGroup` takes all faces first and the rows after them; `purge` then is who still has a face.
- **RowsNeverGoBack** needs the order along the whole way of an answer.
  `OrderInv`: for each person the version in the row, the version being
  enrolled, the versions in Main's queue from its head to its tail, and the back end's
  grow in that order. The FIFO order of connection and event queue is what
  carries it; the mutant `ServerAnswerFirst`, an answer that overtakes, breaks it.
- **NoGhost** needs `GhostInv`: for everybody whose removal is still owed (`Owed`: deleted there, and
  neither missed nor the connection broken), behind every answer that could still give them a
  row there is, further along the way, a list without them or their removal: in
  the queue behind the answer, in Deal's list, or in an unanswered request for
  the list. Refusing that request or losing that command puts them into `missed`; parsing a later
  list empties it, with that list now the last thing in the queue. `PurgeInv` ties the local set of a list under way to its steps.
- **OpenForItsTime** uses `TimerKept`: what is still owed is at most what the
  timer has left, and only an open door owes. **RelayFollowsStatus** uses
  `Consistent`, the order in which the code moves its two variables.
- **SecondKept** uses `KeptInv`: whatever is in a row, on the wire or in a
  thread's hands names a passage that has taken place, under its own id, and every
  confirmation is one of a stored passage.
- **NoStrayRetry** uses `LinkInv`: while a retry is scheduled nothing is left
  of a connection (`NoLink`). **AnsweringPeerKept** uses `SilenceInv`: the timer
  was armed after the data that came last, so that it cannot end before the silence does.
- **DecisionIsOwn** uses `HandOver`: while a face is on its way or being decided,
  `m_iStop` is FALSE and the time is running, so that the camera lets no other
  through, and the vector holds that face alone (`OneFace`). The flag is what
  excludes; the semaphore only wakes. **OneAfterTheOther** follows from the same invariant,
  step by step: `CamAppend` is `Offer`, `IdStatus` `Decide` or `PassOver`, `IdRecord` `CarryOut`, `IdStop`
  `Finish`, a time that ends under a decision `Break`, and every other step leaves the
  turnstile alone. **HeldForAFace** needs neither the time nor the
  vector, and therefore holds of late decisions too: `Held` adds that a track is held (`CamStop`
  setting the flag against `FaceIdentify`) only after a decision about it.
- **ListIsFifo** needs to know, for every step of a push that moves the array,
  what the two indices and the slots say of one another, that the lock
  keeps a second pusher out of it, and that what a take has read of both indices is still
  so when it writes one of them; a step of a push or of a take maps to
  `Push`, `Take` or nothing, one that meets another to `Break`.
- **TempIsOwn** uses an invariant that follows the one measurement a quiet round
  has asked for, from the queue of `TempManager` to the last of its three
  assignments (`Measuring`), and says of an orderly one that nothing is left over.
- **OnlineMeansLoggedIn** uses `ListHasToken`: whichever loop asks for the list of
  persons, it was begun with a token. That one of the two timers runs is then kept by
  each return, wherever in the stack it is. **OneUpload** is inductive as it stands: a heartbeat or
  an upload is begun only while the flag is clear, and nothing but the return of that very loop
  clears it (`Sending` is the set of its positions in the stack).
- **InOrderOnce** and **OwedIsParsed** speak of any number of messages of any size. What carries
  them is that the symbols the code has not dealt with (`Unread`, the argument of the
  `checkReadData` to come followed by what has not been read) are always a `Run`: the symbols of
  a message follow one another, behind its last comes the first of a later message, and the last
  of all is the end of what has been sent. A step that reads drops some from its front (`EndOf`,
  `RunOfEnd`), `Send` adds a whole message behind it (`RunAdd`). `Before` says that whatever has been
  handed on lies before it, `CmdKept` that a body kept from its beginning has its own
  command with it or none, and `OwedKept` that a message owed has been handed on, or has its end in the
  argument of the `checkReadData` to come, which begins with a header, or has begun: then
  `m_msgData` is exactly its body so far, with its length and command (`Partly`), whatever an earlier
  message left there. No induction over the messages is needed, since
  an `Unread` is only ever compared with the one before the step.
- **RefusedOnlyIfSpoilt** follows the symbols the terminal may still parse (`Line`, the buffer
  and what has arrived on the current connection) through cutting and gluing: there is at most
  one piece of an upload among them (`OneOfEach`, the tool waits for an answer), the first piece of an
  upload finds nothing of it in the file (`Begins`), a later one exactly those before it, unless
  another upload has left some (`Saved`), and nothing but heartbeats lies before it
  (`Continues`); `Between` and `Waiting` say the same of the time until the next piece is sent
  and the next answer comes.
- **HeartbeatIsTimed** and **LossIsNoticed** are inductive as they stand: the proofs go through
  every slot that touches the timer, for the current connection or a superseded one, and
  every step of the broker between two of the loop's.

Only model-checked: the liveness properties (`DownloadEnds`, `DoorCloses`,
`EveryRowIsTried`, `LoggedInAgain`, `FaceIsSeen`, `CommandIsDealtWith`,
`SubscribedAgain`, `SilenceIsTold`, `RoundEnds`, `UploadEnds`, `LoggedInForGood`),
since fairness and `ENABLED` are out of the prover's reach. Every invariant and every action
property that a passing run checks is a theorem. Of `SilenceIsTold`, `SubscribedAgain`,
`FaceIsSeen` and `UploadEnds` the proofs have the part that is safety: `HeartbeatIsTimed`,
`LossIsNoticed`, `HeldForAFace` and `OneUpload` say that a timer, a client or a thread which
would have to act is in a state in which it can.

## 6. Findings

A finding is a run that TLC must find violated, of a property that a comment of the
code states.

`sync_flag_stuck`: `m_sync` (`datashare.h:43`, "synchronisation under way")
can stay set with nothing under way: `onAlluserId` sets it, and the loop it
counts on to clear it has been and gone. Nobody is recognised until the
network flag falls or another list comes.

What else the code does that a reader may not expect, without a comment it would
contradict, is named where the excuses of section 4 are, and among the hazards.

## 7. What is not modelled

- `AlgorithmCall`: Main and the frame loop fill and pass one structure to the face
  algorithm. What the binary does with half of each is not known; a model could
  only say that the calls overlap, which the hazard at `facemanager.cpp:479` says.
  `UserSync` takes them as never overlapping.
- `NetSwitch`: `NetManager` changes between ethernet, 4G and Wi-Fi by shell commands, sleeps
  and the answers of `wpa_supplicant`; what the other modules see of it, the flag
  and the clock, is in them.
- `Settings`: `Switch` reads a file once and writes it as a whole; `saveSetting`, `ToolTcpServer`'s
  commands and `UdpServer` convert settings to and from JSON. No property relates
  two of their steps.
- `IcCardModule` reads a number and hands it on; what is done with it is in
  `OfflineRecords`. The tables of cards and authorisations, and the
  rows of authorisations `tcpUpdateUsers` writes: nothing reads them when passage is
  decided, since `dealOpencondition` has no caller.
- The commands of `TcpMiddware` (protocol 2): its thread pushes them, and nobody
  takes them, since `ServerDataDeal` is not started; `dealHttpData` and
  `dealMiddwareFaceData` are never run. Its framing is `Framing`.
- In `HttpsClient`: pictures, QR code, unbinding and firmware, requests of the same
  form that change none of the flags. `httpsUpdateUsers`, which receives the answer
  of `HttpsGetUsers`, looks for the person one level too deep.
- In `TempManager`: the arithmetic of a reading and the update of the sensor's firmware,
  which are there as time only.
- Undefined behaviour beyond stale values (a `QSet` corrupted by two writers, a
  `QList` moved under a reader) is out of reach of the models; where it begins
  is marked (`raced`), the stale outcome, an id that is no person's, is in `UserSync`.
- The creation of singletons and the order of start-up.
- The user interface (`qml`), `Log`: they decide nothing. `idModule`,
  `wgModule`, `rcodeModule`, `countdown`: not built, or never started.
  OpenCV, Eclipse Paho, `wpa_ctrl`, the card reader's driver and the binary face
  algorithm: third-party, present only as what the code above sees of them.
