# Verification of the MMORPG game server

TLA+ models of the game server's core, from the byte streams and event loops up to
players, sessions and views, the TLC runs that check them on small instances, and TLAPS
proofs about database delivery, players, the scene's network admission, gateway sessions, the
service registry, timers, the gateway's connections, buffers, the logger and the views of
clients.
Paths below are relative to the repository; the project's map from definitions to
source lines is `PROJECT.json`.

## 1. The system

A zone is a set of processes. Clients connect to a **gateway**; the gateway
authenticates them and forwards their requests to **scene** servers (game logic),
a **chat** and a **global** service, over TCP with a common frame format.

| Part | State it keeps | Operations | What is hard |
|---|---|---|---|
| Database delivery (`sceneServer/src-cpp/db/taskDelivery.*`, `dbThread.cc`, `transactionRetries.h`) | the owner's table of pending tasks and its active index; the result ledger of a channel; retries | submit, tick, ACK, query, complete; accept, execute, retry, flush, evict | bounded queues refuse any send; results repeat until acknowledged; unknown outcomes must not be retried |
| Player lifecycle (`logic/logicThread.cc`, `player/*`) | actors, loads, latest bindings, save records | bind, load, enter, mutate, save, log out, drain | saves fail, stay unconfirmed, overlap with re-login, drain and kill |
| Network admission (`net/net_server.cc`, `net/workerPendingTasks.h`, `zone_common/base/gatewayPlayer.h`) | connections, client index, pending queues per worker with counters | accept, frame, close, pump | order of lifecycle and business under back-pressure; replies that close connections |
| Gateway sessions (`gatewayServer/gatewayDispatcher.cc`, `clientSession.cc`, `returnRoute.cc`) | sessions, player index, epochs, return routes | authenticate, kick, bind service, request, close, respond, expire | one IO thread per client, one loop per channel; every handler is several lock regions on copies |
| Service registry (`gatewayServer/serviceRegistry.cc`) | channel pools, names, two indexes, pending connections | handshake, replace, remove, select | handshakes of two processes of one scene in any order |
| Timer wheel (`timer/TimerThread.cc`) | slots, live timers, index by user, position against the clock | add, cancel, tick, fire, stop, start | late rounds, capped catch-up, repetition against cancel |
| AOI (`service/aoi/*`, `logic/workerPushSink.cc`) | replicas of other workers' entities, pending moves and publications; grid, watchers, marks; the view committed to each client | enter, leave, move, publish, snapshot, tick, resynchronise | per-target retry reorders; coalesced moves meet leaves and snapshots; a view snapshot is refused between two parts |
| Scene transport (`net/net_server.cc`) | one connection's buffers and write interest, the eventfd | connect, accept, read, write, close, wake, stop | edge-triggered epoll; `connectTo` runs on the main thread |
| Gateway connection (`gatewayServer/tcpConnection.cc`, `event/channel.cc`) | connection state, send buffer, timers, resend entries | send, shut down, force close, idle, resend, destroy | `state_` is loaded and stored by several threads without a lock; closing is spread over three loops' queues |
| Gateway loop and timers (`event/eventLoop.cc`, `timer/timerQueue.cc`) | pending functions, eventfd, timers, timerfd | queue, poll, quit, add, cancel, expire | wake-ups between a check and a sleep; callbacks that change the queue they run from |
| Buffer and codecs (`zone_common/base/buffer.*`, `proto.cc`, `clientProto.cc`) | indices into a vector; the decoder's guard | append, retrieve, read, decode, resynchronise | frames cut into reads; garbage, foreign frames and split magic numbers |
| Chat and global (`zone_common/base/serviceApp.cc`) | bounded input and output queues, output buffers | receive, reply, push a batch | a reply needs a slot of the queue that is full |
| Logger (`zone_common/log/asyncLogger.cc`) | current, next and full buffers, two spares, the file | append, exchange, write, roll, stop | exchange against append and stop |
| Bag, Lua, configuration, metrics, start-up | | | |

How they interact: a client's frame goes through the gateway's session table to the
event loop of a scene channel, arrives at the scene's network thread, is bound to a
player by the client index, waits if the player's worker is full, and is handled by
the logic thread, which submits database tasks and timers and gets their results as
messages in the same queue. A worker shows its clients the entities of all workers: it
publishes its own to the others and keeps replicas of theirs. Every queue is bounded and
refuses instead of blocking.

## 2. Modules

| Module | Models | Used by |
|---|---|---|
| `DbTaskContract` | what delivery promises: registered, decided once and truthfully, handed over once, eventually | refined by `TaskDelivery`; assumed by `PlayerLifecycle` |
| `TaskDelivery` | PendingDbTasks, MsgBus queues, DbResultLedger, DBThread loops, TransactionRetries | `MCTaskDelivery`, `TaskDeliveryProofs` |
| `TaskDeliveryProofs`, `PlayerLifecycleProofs`, `ServiceRegistryProofs`, `GatewaySessionsProofs`, `NetAdmissionProofs`, `AoiReplicationProofs`, `AoiViewsProofs`, `FoundationsProofs` | the theorems of section 5 | |
| `PlayerLifecycle` | LogicThread's bindings, loads and logouts, PlayerPersistence, the versioned row, drain, kill and restart | `MCPlayerLifecycle`, `PlayerLifecycleProofs` |
| `ClientIndex` | GatewayClientIndex as operators on a record | `NetAdmission`, `GatewaySessions` |
| `NetAdmission` | NetServer's handlers and WorkerPendingTasks | `MCNetAdmission`, `MCThreads`, `NetAdmissionProofs` |
| `GatewaySessions` | ClientSessionTable, ReturnRouteTable, GatewayDispatcher, and the scene's index behind the channel | `MCGatewaySessions`, `GatewaySessionsProofs` |
| `ServiceRegistry` | ServiceRegistry and the handshake handler | `MCFoundations`, `MCServiceRegistry`, `ServiceRegistryProofs` |
| `TimerWheel` | TimerThread | `MCFoundations`, `MCTimerWheel`, `FoundationsProofs` |
| `AoiReplication` | AoiService's publication, AoiReplica's copies of one owner's entities, their recovery | `MCAoiReplication`, `AoiReplicationProofs` |
| `AoiGrid`, `AoiViews` | the nine-grid geometry; marks, watchers, AoiViewSet, ProcessAoiClientObserver and what the clients make of it | `MCAoiViews`, `AoiViewsProofs` |
| `TcpConnection` | one gateway connection to its destructor | `MCThreads`, `FoundationsProofs` |
| `EventLoop` | EventLoop and EventLoopThread | `MCThreads` |
| `TimerQueue` | the gateway's TimerQueue | `MCFoundations`, `FoundationsProofs` |
| `ByteBuffer` | Buffer, against the byte queue it stands for | `FrameCodec`, `MCFoundations`, `FoundationsProofs` |
| `FrameCodec` | DecodeFrame, DecodeClientFrame and the loops around them | `MCFoundations` |
| `ServiceApp` | RunService of chat and global | `MCThreads`, `FoundationsProofs` |
| `NetTransport` | the epoll side of the scene's NetServer | `MCThreads` |
| `AsyncLogger` | AsyncLogger | `MCThreads`, `FoundationsProofs` |

`MCFoundations` and `MCThreads` hold several machines side by side that share no state: the
variable `machine` picks the one a behaviour is about, the others rest in their initial
states. `MCThreads` states each module's fairness for the machine that runs.

### State and actions against the code

*TaskDelivery.* A queue is one sequence per lane `<<channel, worker>>`: the bus uses
moodycamel queues, which are first-in first-out per producer only. Timers
(`nextTryAt`, `nextSendAt`, `completedAt`) are abstracted: a timer may be found
expired at any visit. `Submit*`, `Tick`, `SendAck`, `SendQuery`, `Complete`,
`AcknowledgeDuplicate`, `DropStale` and `ObserveStatus` are the owner's methods;
`AcceptTask`, `Retry`, `FlushResult`, `FlushNotice`, `HandleAck`, `HandleQuery` and
`EvictAcknowledged` the channel's. An execution is a pair of the class it reports and
its effect on the data; a plain statement may fail after it took effect, an unknown
outcome may be either. `runs`, `decision`, `effects` and `handed` are history.

*PlayerLifecycle.* The data of a player is a stamp, the number of the mutation that
produced it. Tasks are decided and handed back in any order, as the contract says.
`BindLoading`/`BindLive`/`GoOffline`/`AbandonLoad` are the branches of
`onPlayerBinding`; `Request`, `Dispatch`, `SaveSucceeds`, `SaveFails` and
`PersistTick` are PlayerPersistence; `ExecuteLoad`, `ExecuteSave` and `FailSave` the
transactions on the row, including a commit whose confirmation is lost. The refusal
of an invalid snapshot by `buildSave` and the exhaustion of save versions are not
modelled: no modelled mutation produces them.

*NetAdmission.* The network thread is sequential; handlers that send several times
take one step per send because workers drain meanwhile. Deadlines rise along a queue,
so the expired tasks are the business tasks of a prefix. A failed reply closes its
connection in the middle of the handler.

*GatewaySessions.* Each table call is atomic; a handler is split where another thread
can come in between, and `job[s]` holds the copy of the session it works on. A
submission is queued to the channel's loop and checked again when it runs
(`SubmitScene`). The scene side is `ClientIndex` reading the channel in order. A request runs
through `Business` (the copy and the service), `Select` (`SelectByScene`), `BindScene`
(`SetSceneBinding`) and `Reread` (`sessions_.Get`), which are three lock regions: a login of
the player elsewhere may demote or erase the session between them, and the second copy then
carries no player. `AddRoute` is `routes_.Add`, followed by `Forward` or by `ForwardInvalid`, the
two exits that find the request invalid when it has its route already (no player or the
gateway's own module for the scene, a private chat without a target); `Refuse` takes the route
back and answers the client. `Refuse` answers even if the sweep has taken the route meanwhile,
so the client would be told twice; the model assumes (`BeingRefused`) that the statements
between `Add` and `Take` take less than `routeTtlMs` (15 s by default), the one assumption
about time in this module.

*ServiceRegistry.* `Handshake` is the handler up to `Bind`; `CloseReplaced` closes the
connection `Bind` reports. Indexes that fall back to "any other" connection are a
nondeterministic choice, since the code iterates an unordered map.

*TimerWheel.* `clock` runs freely between steps. `ProcessOp` takes one command,
`StartRound` fixes how many ticks the round moves, `Tick` moves one slot, collects and
fires. Timers carry the time they were asked for and the tick they are due at for the
properties.

*AoiReplication.* One owner, since entity ids carry the owner's number. A send is accepted
or refused freely: the worker queue is shared with everybody else. `RetryPublishes` walks
the whole publication queue in one tick and forgets per target what was taken, so a later
event of an entity may arrive before an earlier one. `Receive` is `onService`: a move only
replaces the waiting one (`CoalesceMove`), an entry or a leave is applied at once, a
snapshot replaces what is not newer. `FlushRemoteMoves` is the tick. `gone` is history.

*AoiViews.* One worker: `entys` and `watchers` are AoiGrid's cells, `dirty` the marks,
`views` the AoiViewSet and `client` what a client makes of the frames it is sent. A
client's frame of a view snapshot may be refused at any part (`SendSnapshot`); the observer
then starts over. Entities of other workers change as `AoiReplication` allows.

*TcpConnection.* Every function of the IO loop is an operator from the connection's record
to the records it may leave behind; a step of the loop is one event, expiry or queued
function. `send` and `forceClose` of other threads take three steps: load `state_`, store
it, queue a function. Messages are two units long so that a write may stop inside one.
`removals` and `ioQueue` are the base loop's and the IO loop's queues on the way to
`connectDestroyed`; `Release` is the last reference.

*EventLoop, TimerQueue.* Queueing a function and writing the eventfd are two steps.
`handleRead` of the timer queue takes the expired timers out in one step, runs one callback
per step, which may add or cancel timers, and puts the repeating ones back in another.

*ByteBuffer, FrameCodec.* A buffer is a record of indices and bytes. The decoders work byte
by byte on it, one iteration per step, over an alphabet that contains both magics, their
halves, versions, lengths and services; `Reference` says which frames a whole stream
contains, and the frames found must be those, however the stream is cut into reads.

*ServiceApp, NetTransport, AsyncLogger.* One step per lock region or system call; bytes are
counted as messages, frames or lines. In `NetTransport` an edge is a mark on the ready list
that `epoll_wait` takes away, and `Emplace` is the second half of `registerConn`. The loop looks
at `started_` only between two batches (`CheckStarted`): a thread that waits in `epoll_wait`
when `stop()` comes leaves only because `stop()` writes the eventfd, and it handles the batch
the wake-up is part of before it leaves. The timeout of `epoll_wait` is taken to be the one it
has while nothing is pending for a worker, none at all; the code has no timeout for a connect.

*Failures of the logger.* `AsyncLogger.Write` has the exits of `write()`: an open that fails, of
the file or of the next one of the sequence, gives up the buffer it was called for, and so does
a failed `file_.write` or `flush` in part or whole; the stream then stays failed, and loses what
follows, until a new day opens another file. `handed` are the lines handed to `write()`, `lost`
those of them that may be missing from the files, `badDays` the days on which an open or a
write failed. Not modelled: `localtime_r` returning null, which drops a buffer in the same way.

## 3. Runs

| Run | Checks | Bounds, and why they are enough |
|---|---|---|
| `task_delivery` | `DeliveryInv`, `ExecutedOnce`, `HandedOnce`, `ResultTruthful`, `ForgottenOnlyWhenHanded`, `AckIsFinal` | three tasks of two workers, one of them unroutable; a table of one, a ledger of one, one retry slot, three attempts, queues of two. The table, the ledger and the retry slots all fill, so refusal, reclaiming, eviction and pausing all happen |
| `task_delivery_live` | `Settles`, `ImplementsContract` | two tasks of one worker, a table of two, queues and ledger of one: the second task finds the queue full and waits for `tick`, and its acceptance needs the ledger entry the first one holds |
| `player_lifecycle` | `LifecycleInv`, `LoadedIsLatest`, `CleanIsSaved`, `DrainLosesNothing`, `BindingNeverRegresses`, `EventuallyServed` | either one player with three bindings on two connections, two mutations and one kill (a save in flight, one queued behind it, a re-login during the final save, a rebinding during the load), or two players and one save record, three bindings and two mutations in all (a save and a logout find no room) |
| `admission` | `AdmissionInv`, `BusinessInsideBinding`, `ViewConverges`, `NeverRevived` | one player, four bindings of two gateways and two epochs, two connections, worker queue of one, two waiting tasks and three bytes |
| `gateway` | `GatewayInv`, `BindingBracketed`, `AnsweredOnce`, `NewestEpochOnly` | two clients of one player, repeated logins, three epochs, two requests, one route, one channel that may be lost |
| `gateway_services` | `NoGhost`, `EveryRequestSettled` | one client that logs in once and changes its service, two channels, two requests |
| `aoi` | `ReplicaInv`, `NeverBackwards`, `EventuallyMirrored` | two entities, two positions, one remote worker, four events of the owner, one request under way: an entity can enter, leave and enter again around another one's events, and every suffix of the events can be overtaken by a snapshot. Remote workers do not interact, so one is enough |
| `aoi_views` | `ViewInv`, `ClientFollows` | a row of three cells (in sight, at the border, out of sight), two players and a foreign entity, parts of one entity, two epochs, four changes |
| `foundations` | `WheelInv`, `DueInWheelTime`, `TimersCovered`, `BytesExact`, `RegistryInv` | registry: four connections, six handshakes: two processes of a scene with two channels, another scene, chat. Wheel: two slots, delays of one, two and three ticks (less than, exactly and more than a turn), catch-up of two ticks, six ticks of time, two commands, one stop. Timer queue: a one-shot timer and two repeating ones, a tick of two units, six units of time. Buffer: six bytes in calls of up to three, two bytes in front. Codec: streams of up to three of nine pieces, reads of one, four and nine bytes, one resynchronisation per call, two errors, two frames per second |
| `threads` | `StreamInOrder`, `LinesKept`, `PushesAgree`, `EventuallyReleased`, `ThreadsServe`, `ClosedReachesWorkers` | connection: two outside threads, two messages, two calls, one message of the peer, one resend. Loop: two posters, two functions. Logger: three lines of two lengths, a roll size of three, two dates, any open and any write may fail. Service: two gateways, queues of three (a batch is three long, so it is refused when anything waits), two requests. Transport: a kernel buffer of one frame, a write buffer of two, two messages. Admission: two workers, one that may never drain, one attempt per pump |
| `gateway_ghost_kick` | `NoGhost` is violated | two clients, two epochs |
| `gateway_expiry` | `SilentExpiry` is violated | one client, one request |

Deadlock is not checked where the system rests when its bounded inputs are used up (the
delivery, lifecycle, AOI, foundations and threads runs). The other models stutter explicitly
in such states (`Quiescent`) and are checked for deadlock. Every run but `foundations` and
`gateway` stays below half a million states; all take less than three minutes.

### The properties that carry the weight

* `ExecutedOnce`, `HandedOnce`, `ResultTruthful`, `ForgottenOnlyWhenHanded`: exactly-once
  hand-over of a truthful verdict, in spite of repeated results and eviction.
* `AckIsFinal`: no query sent before the ACK is handled after it, so an entry is not
  revived when its owner may have forgotten the task.
* `LoadedIsLatest`: a re-login never sees older data than the player last had, however
  the final save, the load and the bindings interleave. `DrainLosesNothing`: a drain that
  reports success has everything in the database.
* `BusinessInsideBinding`, `ViewConverges`: a worker sees business only between the
  ONLINE and the OFFLINE of its binding, and when everything has arrived it knows of
  each player what the index knows.
* `EventuallyServed`: every state of a player reaches the database and every login is decided.
  Three things can hold a save up, and the property names them: the player's own record is
  blocked by a save of unknown outcome; the table of records is full of others' (a record
  stays as long as its player is online or blocked, `kMaxPlayers`); the deadline or a kill.
* `BindingBracketed`, `NoGhost`: what the scene is told by the gateway follows the sessions.
* `RegistryInv`: the channels of two processes of a scene are never selectable together, and
  the four tables of the registry name the same connections.
* `NeverBackwards`, `EventuallyMirrored`: replicas never show again an incarnation that left,
  nor an older position of the one they show, and come to have exactly the owner's entities,
  although events are refused, reordered and overtaken by snapshots.
* `ViewInv`: an observer that is neither marked nor waiting for a snapshot has a client that
  sees exactly the entities in range: no mark is forgotten. `ClientFollows`: a client never
  meets a gap in the view sequence or a change of an entity it was not told of.
* `TimersCovered`: whatever callbacks add and cancel, the timerfd is set no later than the
  earliest timer, and a cancelled repeating timer does not come back.
* `BytesExact`: the frames found do not depend on how the stream was cut, and the guards'
  closes aside they are the frames of the stream.
* `EventuallyReleased`: however a connection closes (peer, idle timer, forced from another
  thread, failed resends, shutdown), it goes through `connectDestroyed` exactly once, after
  the layer above was told, and is destroyed.
* `ThreadsServe`: no wake-up is lost, in the event loop, the logger, the services and the
  edge-triggered transport, the wake-up of `stop()` included: a network thread that waits in
  `epoll_wait` leaves it.
* `LinesKept`: a line goes to `write()` in order and, if it was appended before `stop()`, before
  the logger has stopped. It is a claim about the hand-over; that the line is in a file as well
  is claimed only of days on which no open and no write failed.
* `EveryRequestSettled`: a request with a route is answered by the response, the refusal or the
  sweep. The answer of the sweep is what the code does and what the gateway's README denies
  (section 6, 2); without it only a request that a backend answers would be settled.

## 4. Fairness

* Delivery: weak fairness of the owner's tick and message handling and of the channel's
  loop, which run in `while` loops without conditions; strong fairness of sending an ACK,
  flushing a result and accepting a task, which are retried for ever and whose obstacle (a
  full queue or ledger) is removed again and again, but not for good.
* Lifecycle: weak fairness of the worker loop's steps and of the database; none of the
  deadline, of the kill or of the clients.
* Admission: weak fairness of the network thread and of the workers in `LiveWorkers` only.
* Gateway: weak fairness of the handlers, of the channel loops, of the scene's reading and
  of the periodic sweep; none of the scene's response.
* AOI replication: weak fairness of the owner's tick delivering its oldest publication (it is
  tried at every tick and no worker queue stays full for ever), of the remote's receiving and
  ticking, and of the request and answer of a snapshot; none of the game.
* Threads: weak fairness of each thread's loop and of a caller that is between two statements;
  for the transport also of the kernel finishing a connect and of a peer that reads. None of
  callers, peers that send or close, `stop()` or `quit()`. A worker outside `LiveWorkers` may
  stop draining for ever.
* The registry, the views and the foundations have no liveness property.

## 5. Proofs

Eight modules hold the proofs. Each theorem is for every value of the constants that satisfies
the named assumptions of its model, which ask only for what the code's types give: positive
capacities and limits, tables over the sets they are declared for, an invalid name outside
the valid ones. For the buffer, which `FoundationsProofs` takes as an instance, and for one
theorem about the gateway such conditions are hypotheses of the theorem.

| Module | Theorem | States |
|---|---|---|
| `TaskDeliveryProofs` | `Invariance` | `DeliveryInv` |
| | `RunsOnce`, `HandsOnce`, `TellsTruth`, `ForgetsNothingUnseen`, `IndexIsExact`, `AdmitsOnlyNew`, `TypeCorrect` | the safety properties, each from the invariant |
| | `AckStaysFinal` | the action property `AckIsFinal` |
| | `RefinesContract` | `ImplementsContractSafely`: delivery implements `DbTaskContract` without its fairness |
| `PlayerLifecycleProofs` | `LifecycleInvariant`, `LifecycleTypes` | `LifecycleInv`, `TypeOK` |
| | `LoginRestoresLatest`, `CleanPlayersAreSaved`, `DrainIsLossless` | `LoadedIsLatest`, `CleanIsSaved`, `DrainLosesNothing` |
| | `BindingsRise` | the action property `BindingNeverRegresses` |
| `ServiceRegistryProofs` | `RegistryAgrees` | `RegistryInv` |
| | `SelectionIsLive` | `RoutesToRegistered` (stated in the proof module) |
| `GatewaySessionsProofs` | `SessionsAgree` | `GatewayInv` |
| | `OneAnswer`, `OnlyNewestEpoch` | `AnsweredOnce`, the action property `NewestEpochOnly` |
| | `BracketedBindings` | `BindingBracketed` |
| | `NoGhostWhenLoginsApart` | `NoGhost`, if no player logs in on two clients or twice on one (`LoginsApart`) |
| `NetAdmissionProofs` | `AdmissionSafe` | `AdmissionInv` |
| | `WorkersConverge`, `BusinessInside` | `ViewConverges`, `BusinessInsideBinding` |
| | `BindingsNeverRevived` | the action property `NeverRevived` |
| `AoiReplicationProofs` | `CopiesAgree` | `ReplicaInv` |
| | `CopiesNeverGoBack` | the action property `NeverBackwards` |
| `AoiViewsProofs` | `ViewsAgree`, `ClientsFollow` | `ViewInv`, `ClientFollows` |
| `FoundationsProofs` | `WheelHolds`, `FiresWhenDue` | `WheelInv`, `DueInWheelTime` of the timer wheel, whose delays may be zero or below a tick |
| | `TimersAreCovered` | `TimersCovered` of the gateway's timer queue |
| | `LinesAreKept` | `LinesKept` of the logger |
| | `SentInOrder` | `StreamInOrder` of the gateway's connection |
| | `PushesAreAgreed` | `PushesAgree` of the chat and global services |
| | `BufferIsExact` | `BufferExact`, the half of `BytesExact` about Buffer, if the room in front is a number (`CheapPrepend`) |

Most invariants named in the table are inductive as the models state them (`ViewInv` and
`ClientFollows` together), and TLC checks them on the runs of section 3. Where a property
needs a strengthening that the model does not state (the logger, the timer queue, the buffer,
the order of frames at the gateway, admission, the services, the replicas of other workers'
entities), the proof module states it and the paragraph below says what it adds. All proofs have the same shape: a lemma per action (or per action and
part of the invariant), over lemmas about the containers, and a last step that joins the cases
of `Next`. Facts about a whole sequence (what a selection or `FlattenSeq` returns) are shown by
induction over its length, stated for sets of numbers (`NatSetInduction`).

**Delivery.** The properties are not inductive. "Handed over once" needs that a record that
still awaits its result has not been handed over (`OwnerInv`); "runs once" needs that a queued
task has never run and is queued once (`TaskQInv`), which needs that a record is sent only
from `PendingDispatch`; "forgotten only when handed" needs that an ACK on its way was sent by
an owner that has the result (`CtlQInv`), and truth needs that a result on its way carries the
class decided (`ResQInv`). These make up `RecordsInv`. That an acknowledgement is final needs
the order of the controls: behind an ACK, waiting or already handled, only ACKs of the same
task follow (`ControlsInOrder`); it rests on the lanes being first-in first-out and on the
owner never asking for a result it has. The refinement needs that a task that has run and is
not handed over still has its owner's record (`Awaited`), or a decision could meet a phase that
is `free`. In the refinement `Submit` of a routable task is `Register`, the deciding execution
is `Decide`, `Complete` is `Hand`; all other steps, and an execution that is rolled back and
scheduled again, are stutters (`StepRefines`).

**Lifecycle.** That a login restores the latest state depends on the whole way of a state from
the actor to the row. `VersionsRise` orders row, active snapshot and queued snapshot;
`LoadedInv` says a loaded actor has the player's latest state and is dirty exactly when it
changed since the last save it knows of; `OpenSnapshot` that an open snapshot is the state of
the actor at its revision; `AwayInv` that the state of an absent player is in its final save
or, without one, in the row. `SaveMatchesRecord` and `LoadMatchesRow` tie the tasks in flight to
record and row, and `FinalSaveExcludesActor` keeps a re-login out until the final save is
done. No step can be shown to keep one of them without the others.

**Registry.** `ChannelsMatchNames` relates pools and names in both directions; that a process
replaces another of its scene completely needs `OneProcess` beside `OneIncarnation`, and that
an accepted connection cannot already be indexed needs `NewIsUnknown`.

**Gateway.** One session per player, with the newest epoch (`EpochIsNewest`), holds only
because what a thread kept while others came in between is still usable (`CopiesValid`), a
thread handles a request only on a connection that has not closed (`HandlersOpen`), and a
route always stands for a request without an answer (`RoutesUnanswered`). A thread that goes on
to forward has an epoch but maybe no player (`CopyValid`): a session that was demoted between
two lock regions is refused, not forwarded. The refusal answers without asking whether the route
is still there, so at most one answer needs that no backend has heard of the request
(`RefusedUnsent`), and that needs that every number under way was given out (`NumbersGiven`). `NewestEpochOnly`
then follows from `SubmitScene`'s check under the lock.

`BindingBracketed` speaks of frames in three places: queued to the loop, on the wire, read by
the scene. `Ordered` adds to `GatewayInv` that all frames of a binding are on one channel, that
a player and an epoch belong to one session, that behind the OFFLINE of a binding nothing of it
follows and no thread can still queue any, and that business is preceded by the ONLINE that
declares it, unless the scene has read that already. `NoGhost` is false in general (section 6,
1 and 4). It holds under `LoginsApart`, and `NothingForgotten` says why: whatever binding the
scene has read or will read is either tended by a live session or by the thread that works on
it, which owes the OFFLINE, or its OFFLINE is behind it on its way.

**Admission.** The argument follows the messages of one player through the two queues in which
they wait, the worker's and the pending one behind it. `InOrder` says that each message fits
what the worker knows when it gets there: an ONLINE or OFFLINE only raises it, business is of
the binding that is online. `EndsKnown` says that what the worker knows after the last of them
is what the client index says, or, while `handleClose` still owes the OFFLINE, what it said
(`ClosingInv`). A new message is appended where `EndsKnown` speaks, so the index decides
whether it fits; what leaves a queue from the middle is only business, which tells nothing
(`BusinessRemoved`); sending the head only moves the border between the two queues
(`HeadSent`). `ViewConverges`, `BusinessInsideBinding` and `NeverRevived` are then three ways
to read the invariant. That the counters agree with the queues (`Counts`) rests on what the
recursive functions that select and add up a queue's tasks give for a longer, a shorter and a
thinned-out queue (`BusinessGrows`, `LoadOfHead`, `TakenOut`).

**Logger.** Every line appended is in exactly one place: handed to `write()`, in a buffer the
writer took over, in a full buffer, in the current one. Only lines handed over get lost, and only
with a failure recorded of the day (`LossesExplained`). `LoggerInv` adds that spare and next buffers are empty,
that a buffer's fill is the length of its lines, and where the writer is among its buffers.

**Buffer.** `BytesInv` says that the bytes between the two indices are the content that was not
read yet; each method is shown to keep it, `makeSpace` by moving and by growing.

**Timer queue.** `QueueInv` says that a timer is in one place, queued or in the batch that is
being handled, that the batch remembers what was cancelled meanwhile, and that the tick the
timerfd is armed for is no later than the earliest timer whenever no batch is handled.

**Timer wheel.** `FiresInTime` is the strengthening: the rounds a timer has left and the
distance of its slot from the wheel's position lead to a tick between its due tick and one
turn later. The ids a tick gives to repeating timers are fresh and distinct, so `InOneSlot`
survives a turn; `CancelFindsAll` needs both.

**Connection.** `StreamInOrder` is inductive with its types. The proof shows for each function
on a connection (`sendInLoop`, `handleWrite`, `handleClose`, the timers' callbacks and the
queued functions) that it keeps `UnitsInOrder` of the record it is given, and composes these as the
loop composes the functions.

**Services.** `PushesAgree` compares three places a message passes: queue, output buffer, what is
written. The ids a link was given are read off the three together (`IdsFor` is a homomorphism of
sequences, `IdsForCat`), so draining and writing change nothing, and a batch adds exactly one
push to every link because `Pushes` names every gateway once (`PushesIds`). `NotConnected` says
that nothing but handshakes precedes. That no request is answered twice needs more than the
property says: a request is in one place, on one wire, in the queue or with the logic thread, with
a number no other has, and it is not answered while it is there (`Unanswered`); a chat message
whose batch is refused stays with the logic thread and is answered once all the same. Both hold
while `ok` does, which is why a request that finds no room may simply vanish with the service.

**Replication.** `ReplicaInv` and `NeverBackwards` compare a worker's copies with events the
owner applied long ago, so the invariant (`IInv`) is stated over the owner's log. The log is
orderly: events are numbered, a generation starts with its entry, and later events of an entity
have later versions or generations (`Orderly`); what waits anywhere repeats the log. A copy
shows a state one event left behind whose generation has not ended for it (`CopyOf`), and
everything its watermark covers it has reached or knows to be over (`CopyInv`). `Delivery` is
the part that retry exists for: every event waits in a publication that still owes it to this
worker, or in the worker's queue, or has been heeded. A send that is accepted moves an event from
the first to the second, a verdict of `Apply` that ignores one may do so only because the copy
is already past it, and a snapshot that covers an event heeds it. When nothing waits, every event
is heeded, and the copies are the owner's entities. `GoneOK` says that a generation a worker has
stopped showing is over for it, from which no step brings it back. Over all this lie facts about
the recursive function that selects entries of a sequence (`Chosen`): nothing is added, order is
kept, and what is not selected is exactly what is missing.

**Views.** That an observer with nothing to do has a client that sees the scene as it is
rests on three things. The grid: the cells an observer watches (`getWatchCellIdx`, a clipped
rectangle of cell numbers) are exactly those from which it is visible (`visible`, distances of
columns and rows), for any grid and range (`WatchIsVisible`), so that `GridInv` makes the
entities found in the watched cells the ones in range. The marks: an entity that does not mark
an observer on its way was out of its sight before and is after (`UnmarkedUnseen`). The
history: a client knows only states its entities were in (`HadState` in `HistoryInv`), so equal
generation and version mean equal position, a delta that leaves an entity out leaves out
nothing, and `commitAccepted` never refuses what was sent (`FrameFits`, `FrameShows`). The two
invariants need each other: a frame is complete because the client has the committed baseline
(`ClientFollows`), and it gets the baseline because the frame was complete. `ObserverInv` rules
out that `sendToClient` finds another session than the observer's.

Not proved, checked by TLC only:

* liveness, fairness and ENABLED: `Settles`, the progress half of `ImplementsContract`,
  `EventuallyServed`, `EveryRequestSettled`, `EventuallyMirrored`, `EventuallyReleased`,
  `ThreadsServe`, `ClosedReachesWorkers`;
* `FramesExact`, the codec's half of `BytesExact`: it compares a decoder that resynchronises
  with a recursive reading of the whole stream.

## 6. Where code and documents disagree

Listed in `PROJECT.json` with its run:

1. **A replaced login can leave a ghost** (`gateway_ghost_kick`). The kicked session is
   erased before its connection closes, so no OFFLINE is sent; the new session has no scene
   yet, so no ONLINE is sent either. If it leaves without scene business the scene keeps the
   player online.

2. **An expired route is answered with an error** (`gateway_expiry`), although
   `gatewayServer/README.md:257` says it is only reclaimed (`gatewayDispatcher.cc:213-230`).

Met on the way; each has a property in its module and a configuration that TLC refutes, and
is not among the regular runs (a configuration with several properties refutes each of them:
TLC stops at the first, so leave one line at a time):

3. A timer of the wheel can fire early: delays are counted from a wheel position that may lag
   and is always at the start of a tick (`NeverEarly`, `MCTimerWheelRefuted.cfg`;
   `TimerThread.cc:155`, against the comment at `:165`). `DueInWheelTime` counts in the time of the
   wheel, with a slack of one turn, and sees neither this nor 7.
4. Authenticating again and disconnecting at once leaves a ghost too: the new ONLINE is
   refused because the session is gone, the new OFFLINE does not match the old binding
   (`MCGatewayRefuted.cfg`; `clientSession.cc:142-159`).
5. A session that authenticates as another player stays in the index of the first and gets
   its pushes (`PushGoesHome`, `MCGatewayRefuted.cfg`; `clientSession.cc:77-93`).
6. A restarted scene process replaces all channels of the old one, but only one of the
   replaced connections is closed (`ReplacedIsClosed`, `MCServiceRegistryReplaced.cfg`;
   `serviceRegistry.cc:81-82`).
7. A delay of whole turns of the wheel fires one turn late (`FiresAtItsTick`,
   `MCTimerWheelLate.cfg`; `TimerThread.cc:318`), skipped ticks are never made up
   (`SkippedIsMadeUp`, `MCTimerWheelRefuted.cfg`; `TimerThread.cc:186`) and `byUser_` keeps the
   ids of past repetitions (`ByUserIsLive`, `MCTimerWheelRefuted.cfg`; `TimerThread.cc:378`).
8. `forceClose` of another thread may store `kDisConnecting` over `kDisConnected`; the close it
   queues then runs a second time and the layer above is told twice (`OneCloseNotice`,
   `MCThreadsRefuted.cfg`; `tcpConnection.cc:181`, against the comment at `:545-556`). If a send
   was queued as well, the second close leaves the channel in epoll and `~Channel` runs in the
   thread that drops the last reference (`ReleasedUnregistered`, `MCThreadsRefuted.cfg`).
   `EventuallyReleased` of the passing run asks for at least one notice and does not see this.
9. `onRetransmitTimeout` arms a new timer for an entry that is gone when the resend closed the
   connection; it holds a raw `this` that outlives the object (`NoTimerOutlives`,
   `MCThreadsRefuted.cfg`; `tcpConnection.cc:636`). The same resend hands `entry.data` to
   `sendInLoop`, which buffers it (`:338`) after the close it made has cleared
   `pendingRetrans_` and freed it (`:559`, `:652`); the model buffers the message intact.
   `sendWithRetransmit` has no caller yet.
10. `connectTo` adds the socket to epoll before `conns_` knows it: if the network thread takes
   the only EPOLLOUT edge in between, the link is never announced (`LinkComesUp`,
   `MCThreadsLink.cfg`; `net_server.cc:164-172`).
11. The logger looks at the roll size only when it opens a file, so a file grows past it until
   the date changes (`RollsAtThreshold`, `MCThreadsRefuted.cfg`; `zoneConfig.yaml:41`).
12. A callback of the gateway's timer queue that cancels a timer of the same expiry does not
   stop it from running once more (`CancelledSilent`, `MCFoundationsCancel.cfg`;
   `timerQueue.cc:128`).
13. When nothing is under way a replica has the owner's entities but not always their last
   positions: a move that arrives before its entry is dropped, and the snapshot asked for may
   have been overtaken (`QuietExact`, `MCAoiReplicationExact.cfg`; `aoiService.cc:159`).

Seen and not stated as properties: `loop()` clears `quit_`, so a `quit()` before it is lost;
`Acceptor` repeats for ever on an accept error other than EAGAIN; `handleRead` closes on EAGAIN;
a reply the services cannot queue ends the process with exit code 0.

## 7. Not modelled

* Lua (`lua/*`, `proto/pb_lua.cc`), protobuf bodies, configuration, metrics, map files and
  start-up: binding, parsing or wiring code without a protocol of its own. What scripts do to a
  player appears as mutations; the logout hook (`logoutPrepared_`) is left out with them.
* The bag: a sequential container, part of a player's stamp.
* `chatServer/net/net_server.cc`: an earlier copy of the scene's network server that no target
  compiles.
* The restart of the gateway: the repository documents it as unhandled
  (`sceneServer/README.md:121`). `LoginServer` is empty.
* Inside modelled parts: SQL text and reconnection; epoll, sockets and addresses; formatting;
  the choice of a loop by the thread pool; diagnostics.

## 8. Plan

Done: delivery with its contract and proofs; lifecycle; admission with the client index;
gateway sessions; registry; timer wheel; AOI replication and views; the gateway's connection,
loop and timers; buffer and codecs; the services; the scene's transport; the logger.

What is left to model would repeat code without a protocol (section 7). The one safety
property without a proof is `FramesExact`.
