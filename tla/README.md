# Verification of spring-boot-netty-starter

TLA+ modules that model the core of spring-boot-netty-starter, TLC configurations that check
them on small instances, and theorems about them that TLAPS proves for every value of the
constants. The framework wraps netty for Spring Boot: it accepts (or makes) connections, keeps a
`Session` for every client in a registry, groups sessions, calls interceptors, annotated methods and
listeners for the events of a channel, and reconnects a client whose connection is lost. Paths below
are relative to `src/main/java/site/peaklee/framework/`.

## 1. The system

### Components, their state and operations

| Component | State | Operations |
|---|---|---|
| Session registry, `cache/impl/DefaultSessionManager` | `onlineClient` (id to session), `onlineChannelIdClient` (channel id to session), the group `online`, `onlineGroupClient` (group id to group), the monitor of `groupClientClean` | `registrySession`, `deregisterSession`, `addSession`, `removeSession`, `createGroup`, `removeGroup`, `findSession`, `findSessionInGroup`, `send*` |
| Group of sessions, `session/impl/GroupSession` | `groupSession` (id to session), `channelIdGroupSession`, netty's `channelGroup` | `add`, `remove`, `findSession`, `hasSession`, `sendBroadcast`, `sendSome` |
| Session, `session/impl/Session` | id, channel, channel id, times | `create`, `bindChannel`, `send`, `close` |
| Registration handlers, `handler/impl/SocketSession(Un)RegisteredHandler` | sets of hooks | `channelRegistered`: hooks, `registrySession`, hooks; `channelUnregistered`: hooks, `deregisterSession`, hooks |
| Client, `server/impl/ClientApplication`, `handler/impl/ClientRetryHandler` | `retry`, `retryCount`, `IS_START`, the application's monitor | `start`, `startSuccessful`, `startFailed`, `connect`, the two channel events |
| Application skeleton, `server/impl/SocketApplication`, `ServerApplication` | `IS_START`, `serverSession`, `handlerListener`, the bootstrap | `startApplication`, `bindStartListener`, `initializerChannel`, `addHandlerListener`, `destroy` |
| Handler cache, `server/impl/DefaultHandlerCacheHelper`, `handler/ThreadLocalInboundHandlerAdapter` | a map from names to handlers, a thread-local manager of interceptors | `getCache`, `init` |
| Inbound handlers, `handler/impl/Socket{Intercept,Annotation,Listener,Message,Before..,After..}Handler` | the hooks collected by `init` | one method for each channel event |
| Interceptor managers, `server/impl/SpiBeanManager`, `AnnotationBeanManager` | a map from types to hooks | `getCache`, `findCache`, `run`, `typesIgnored` |
| Bean bridge, `utils/IOCUtils` | the marks of beans already handled | `markExecution`, `isExecute`, `registerBean`, injection |
| Start-up, `core/SpringSocketApplication`, `factory/`, `context/` | the Spring context, a stop watch | `run`, `parseHandler`, `springBeanHandler`, `destroy` |
| Scanning, `utils/ScanUtil`, `ClsUtils`, `TypeCheckUtils` | the cache of scanned packages | pure functions over classes |
| Codecs, TLS, configuration, annotations | none | stateless |

### How they interact

The event loops of netty run the handlers of a channel. A handler finds or makes the channel's
session through `AdapterSessionManager`, which delegates to the one `DefaultSessionManager`. The
application's own threads call the same manager at any time. Netty takes a closed channel out of every
channel group itself, on the channel's event loop, before `channelUnregistered` runs. Sends are
futures that complete on the event loop of the channel. A lost client connection comes back as
`channelUnregistered`, which schedules `startApplication` on the old channel's event loop.

### What is hard

* The registry is five collections that are updated one after the other without a lock, by all event
  loops and all application threads; only the cleaning of the groups is synchronized.
* Tests before updates (`containsKey`, then `put`; `containsKey`, then `get`).
* Hooks of the application run between the steps of the handlers, and may throw, rename or group a session.
* Completion of connects and writes races with the code that adds the listener.
* A reconnection is started while the events of the old channel and the listener of its attempt are
  still in the queue.
* Handlers and lists shared by several event loops without synchronization.

`PROJECT.json` lists each of these as a hazard, at its line, with the properties that cover it.

### What makes each component correct

* Registry: what is found by id is complete; the collections agree when nothing is running; an id belongs
  to one session; a channel that is gone is forgotten; to a caller of `findSession` it is one atomic directory.
* Group: a broadcast reaches every member that stays, and its callback tells the truth about failures.
* Client: reconnections do not overlap, always happen, and start with a fresh budget after success.
* Pipeline: each handler sees the events of a channel's life in order, an exception is told to those who ask
  for it, a message is released, and a session leaves the registry whatever hooks throw.
* Handler cache: no event loop sees a handler before it is initialised, and callbacks hear what they were added for.
* Application: every start is decided, and destroy closes everything, for good.

## 2. The modules

| Module | Models | Builds on |
|---|---|---|
| `GroupSession` | one group: the three collections, each update a step | |
| `DefaultSessionManager` | the methods of the registry, one map operation per step, run by threads with a program counter and a frame | `GroupSession` |
| `SessionHandlers` | the channels' lives, the two registration handlers, the application's calls; the properties | `DefaultSessionManager`, `SessionDirectory` |
| `SessionDirectory` | abstract: an atomic directory with unique ids, in which a session is listed at most once | |
| `SessionInvariants` | the inductive invariants, in named parts, and the uses of the manager they hold for | `SessionHandlers` |
| `SessionHandlers_proofs` | the proofs that need neither unique ids nor a careful application: types, ids, who deregisters whom | `SessionInvariants` |
| `SessionRegistry_proofs` | the proofs of the registry and of the refinement of the directory | `SessionHandlers_proofs` |
| `SessionIndexes_proofs`, `SessionGroups_proofs` | the proofs of what is left over when nothing runs, in the indexes and in the groups | `SessionRegistry_proofs` |
| `Broadcast` | one `sendBroadcast` or `sendSome` with its futures and listeners; its inductive invariant | `GroupSession` |
| `Broadcast_proofs` | the proofs about it | `Broadcast` |
| `ClientApplication` | start, connect, reconnect, destroy and the queue of each channel's event loop; its inductive invariant | |
| `ClientApplication_proofs` | the proofs about it | `ClientApplication` |
| `ChannelPipeline` | the pipeline of one channel, the way of each event and exception through its handlers, the message's reference count; its inductive invariant | `SessionDirectory` |
| `ChannelPipeline_proofs` | the proofs about it | `ChannelPipeline` |
| `ServerStart` | a server's start, its runners, `addHandlerListener`, the handlers shared through the cache, `destroy`; its inductive invariant | |
| `ServerStart_proofs` | the proofs about it | `ServerStart` |
| `MC_SessionHandlers`, `MC_Broadcast`, `MC_ClientApplication`, `MC_ChannelPipeline`, `MC_ServerStart` | values of the constants for TLC | |

The modules meet at the calls. `ClientApplication` leaves to `ChannelPipeline` what the retry handler passes on.
`ChannelPipeline` takes the two registration handlers as one step each, whose inside is `SessionHandlers`; both are shown
to implement the same abstract `SessionDirectory`. `ServerStart` takes an event of a channel as one handler's callbacks,
whose place in the pipeline is `ChannelPipeline`'s.

**Sessions.** An element of `Session` is a client's session, its channel and its channel id, which the code
ties together for good in `bindChannel`; `idOf` is `getId()`, which a hook may set before registration. The
maps keyed by channel id are sets of sessions. A thread is inside at most one method of the manager:
`pc` names the next map operation and `frame` holds the arguments and locals. A method ends at
`returned`, `refused` (it answered false or null) or `threw`. A channel's handlers are `stage`; two channels
of one event loop (`Loop`) never run at once (`LoopFree`), channels of different loops interleave at every map
operation. A `removeBefore` hook that throws keeps the handler from deregistering (`stage` is `kept`). `HookGroups` gives each channel the groups
its registered hooks join. The short text of a channel id, the default id, is `ShortText`. `Throwing` names the hooks that may
throw. The iterator of `groupClientClean` is weakly consistent: `todo` is what it must visit, and it
may visit what is put meanwhile.

**Broadcast.** The future of a write goes from `task` (not yet run by its event loop) to `buffered` (in the
outbound buffer) to `ok` or `failed`. A listener is `waiting` for the future, a `task` of the event loop, or
`adding` to the list, which takes two steps. What appends of two event loops do to the plain `ArrayList` is taken from `ArrayList.add`
(`AfterAdd`): whatever was not in the list from the beginning of an append to its end may be lost, the append may throw, and a slot may stay null
(`None`). An event loop sees its own appends and any part of the others' (`Visible`). What
the caller sees of appends by other loops is any subset, as nothing orders its read after them. The order of
the tasks of one event loop is left open; the properties do not depend on it. A null callback changes
nothing but the answer and is left out.

**Client.** An attempt is one call of `start`. Its channel's event loop has a queue of `registered`, `listener`,
`reset` (the second half of `startSuccessful`), `unregistered` and `count` (the second half of `connect`).
`config` is chosen once, from `Configs`. `monitor` is the application's monitor, which `startApplication` and
`connect` take. `retries` counts the reconnections since the last success and steers nothing. `session` is
`serverSession`, which is null for a moment in every start; `ending`, `closing` and `open` are how far `destroy` has got,
the channels it told to close, and whether the event loops still take tasks: the task of a reconnection is a delayed one,
which a loop that shuts down drops.

**Pipeline.** `pipeline` is what `initializerChannel` assembles (`Assembled`), without the coders. `event` is at place
`at`; a handler runs its hooks and passes it on (`PassedOn`), or throws, and then netty calls `exceptionCaught` of the
same handler (`Throw`). The call chain of a read unwinds through the handlers that own the message (`owners`), which is how
`SimpleChannelInboundHandler` releases it. `threw`, `unheard` and `seen` record history and steer nothing but the bound
`MaxThrows`. `session` is what became of the channel's session in the registry.

**Start.** `bind` is the bind future, `boss` the start listener. Netty notifies a listener on the spot when the future
completes after it was bound (`"waiting"`), and in a task of its own when before (`"posted"`, `late`). Only in the first
case does the boss loop run the runners before it can accept anybody. `stage` takes a channel through the three steps of
`getCache` (find, put, init) that other loops interleave with. `callbacks` counts the callbacks of each event;
`handing` holds an iteration with the size of the list when it began, so that a callback added meanwhile ends it as the
`ConcurrentModificationException` of `LinkedList` does (`lost`). The event loops' reads of the plain field
`handlerListener` are taken to see the latest write, as they do when it is written by the boss loop before it accepts the channel;
with callbacks added by another thread a stale null is possible too and has the effect of an earlier read.

## 3. The runs

Every run explores its whole state space. Deadlock is not checked, because each system may really stop:
all channels gone, no call in progress, the program exited, or the bound on attempts reached.

| Run | Question | Bounds |
|---|---|---|
| `kick` | Do the indexes agree, and is every closed channel forgotten, when the unregistered handler and an application thread deregister the same sessions? Does the invariant of the proof hold? | 2 channels on 2 loops, 1 thread, a hook that renames one of them or throws |
| `rooms` | Does a refused client harm nobody when it leaves, and does a channel that is gone leave the indexes and every group, while groups are made and removed and hooks throw? | 3 channels: 2 of one loop with the same id, 1 of another loop that joins a group; 1 thread, 2 group objects |
| `any_application` | Types and termination under every call of the manager, sensible or not, with registration by the application | 1 channel, 1 thread that calls every method, 2 group objects |
| `broadcast` | Who gets a message, and what is the caller told? | 2 channels on 1 or 2 loops, every caller, all arguments for 2 ids, both channels may close and leave at any step |
| `client` | Reconnection, and its end | 6 configurations, 5 attempts, 2 starts by the application |
| `pipeline` | What do exceptions anywhere in the pipeline do to events, messages and the registry? | 6 applications (server and client, with and without callbacks and handlers of their own, automatic registration or not), 2 events beside the channel's life, 2 exceptions |
| `start` | Start, first channels, callbacks and destroy | 2 channels on 2 loops, callbacks added by a runner or the user's thread, at most 2 |

Two channels are enough for the races of the registry: each concerns two threads that work on one id or
one group (registration against registration, deregistration against deregistration, either against a change
of the groups). `rooms` has two channels that compete for an id by turns, on one loop, and a third one as a bystander. Two channels on two loops are
what the race of two appends needs, and the race of two `getCache` calls. Five attempts let a client with a limit of one use up its limit and give up.
Two exceptions suffice for one that is thrown
while another one travels; the third place that could throw is treated like the second. Two callbacks are what it takes
to add one while another is called.

What the passing runs show:

* `FoundIsIndexed`: whoever finds a session by id finds it in every other collection too. It works because
  `registrySession` publishes the id last and `deregisterSession` withdraws it first; publishing first,
  as a `putIfAbsent` would, breaks it.
* `ImplementsDirectory` (`kick`): the five collections implement `SessionDirectory`, with `entry` the index by id and
  `fate` computed from the handlers' places.
* `IndexesAgree`, `GoneIsForgotten`, `ClosedIsForgotten`: nothing is left over, at rest and in the end.
* `RemovesOnlyItsOwn`: a refused client's handler, which looks for its session under the id it was refused, deregisters nobody else.
* `CallsEnd` (`any_application`): every call ends and the monitor is always released, also when a deregistration fails on null. What such a call
  leaves undone is not this property's subject; it is named below.
* `AllMembersServed`, `CallerIsAnswered`: no member that stays is missed, and the callback is called for all
  calls but a `sendSome` without ids.
* `SameLoopReportIsExact`, `LostOnlyToAnotherLoop`: the callback is exact when the call is made on the members'
  own event loop, and the list of failures loses elements only between event loops.
* `NullOnlyFromRacingLoops`: a null reaches the callback only from appends of two event loops; the null of a lookup is never added.
* `OneConnection`, `ConnectedMeansReset`, `Reconnects`, `FailureIsFatal`: see the client above.
* `DestroyEndsClient`: a client that is destroyed stays disconnected, although closing its connection makes the retry
  handler ask for a new one, which may already be connecting.
* `LeftOnlyByUnregisteredHooks`, `ClosedIsDeregistered`: of all hooks only one that throws while the channel is unregistered
  can leave a session in the registry for good; and `ImplementsDirectory` (`pipeline`) shows that no exception lists it
  again.
* `UnheardOnlyFromBehind`: the application misses only exceptions thrown behind the last handler with error hooks, or by an error hook itself, which netty logs.
* `MessageIsReleased`, `EventsEnd`: a message is leaked only by a hook that throws in a handler that does not own it;
  one released twice is an exception that ends like the others.
* `LifeInOrder`: exceptions make a server's handlers miss events, never see them twice or in another order.
* `ReadyBeforeEvents`: two loops may make, find and replace the cached handler at once, and no event meets one without hooks.
* `RunnersAreInTime`: callbacks the runners add hear every channel and lose no event when the start listener was bound
  before the bind completed.
* `StartIsDecided`, `DestroyClosesAll`: the runners run or the program ends; destroy leaves no channel open, not even one
  that was being accepted.

Five runs end in a violation, each of a statement of the documentation:

* `relogin_race` (`OnlineIsReached`): a kick withdraws the id and then removes by id from the group `online`; a client
  that logs in under the id in between is found by its id and gets no broadcast.
* `login_twice` (`IdKeepsItsSession`): two event loops that register the same id at once both pass the test of `registrySession`, and
  the second takes the id over from a session that is still online, although the guide calls the id the unique primary key. The default is 10 worker loops.
* `broadcast_success` (`SuccessMeansSent`): the callback is told of success before the writes have run.
* `client_gives_up` (`NeverGivesUp`): the late listener of a connection already lost clears `retry`, and
  the next failure exits the program although retries are unlimited.
* `deaf_listeners` (`ListenersAreHeard`): when the bind completes before the start listener is bound, a channel can be
  accepted before the runners add their callbacks; its message handler, made without them, stays in the cache for all.

Other behaviours of the code that the models contain and that limit what the runs can claim:

* `registrySession(id, session)` with another id than the session's files it under two keys, of which
  `deregisterSession` removes one (`RegisterAs`).
* The retry handler passes `channelRegistered` on as `channelUnregistered` (`PassedOn`), so that `LifeInOrder` fails for every client and is stated for servers.
* Errors thrown by the message handlers and behind them, and by error hooks, reach no capture hook in front of them (`UnheardOnlyFromBehind`
  says which; lambda.html:31 promises "Error" without a limit), and `@OnError` methods are handed a set of methods (`Tells`).
* The hooks of a cached handler are those of the loop that initialised it last (`hooks`, `InitHandler`), and its hooks may change
  while another loop runs them. interceptor.html:31 and :47 promise independent instances for each thread or channel.
* A `beforeDestroy` hook that throws, or a `destroy` while `serverSession` is null, leaves the application running.
* A callback added by another thread while an event is handed out ends that event (`lost`); `RunnersAreInTime` is about callbacks of the runners only.
* `findSessionInGroup` fails on null when another thread removes the group between its three reads of the map (`FindHasGroup`, `FindInGroup`, `FindTake`).
* `findSessionInGroup` removes what it finds (`FindTake`), which leaves the session in the other two
  collections of the group for good.
* A session added to a group while, or after, it is deregistered stays in the group (`AddToGroup`, and
  `JoinGroup` of a client whose registration was refused or that was kicked meanwhile).
* `deregisterSession` of an id whose registration is under way (`Ban`) fails on null before the groups are cleaned, and leaves the session in them.
* Two channels with the same short text: the refused one deregisters the other.
* Only the first excluded session is compared (`Matches`): `AllMembersServed` leaves every excluded session open.
* `retry-count` is documented as the maximum of automatic reconnections (additional-spring-configuration-metadata.json:25); n allows n + 1 in a row, or n + 2
  when a late listener clears the count (`ReconnectionsAreBounded` in section 5 says: never more).
* `IS_START` is never set, so a second `startApplication` opens a second connection (`UserStart`).

## 4. Fairness

* `SessionHandlers`: a thread inside the manager goes on (`Step`), an event loop runs the handlers of the
  events it has (`LoopStep`), a call that ended is left (`CallEnds`). Weak fairness on each
  thread is what a preemptive scheduler gives. Nobody has to connect, log in, close or call. A thread that
  waits for the monitor needs no strong fairness: the monitor is entered only for an id that had a session, a session is
  registered once, and so the monitor is taken finitely often.
* `Broadcast`: the caller and the event loops run on. No peer has to read: `Flush` is not fair.
* `ClientApplication`: threads run on, the connect timeout ends each attempt (`NetStep`), a loop closes the channels it is
  told to, and a `destroy` that has begun goes on; nobody has to disconnect or to destroy.
* `ChannelPipeline`: the event loop runs on, and netty unregisters a channel that is inactive. Nobody has to send or leave.
* `ServerStart`: the threads run on. `LoopCloses` is strongly fair: a loop that shuts down closes its channels when it has run its
  tasks, and events may come in between any number of times before. Nobody has to connect, add callbacks or destroy.

## 5. Proofs

Every safety property that a passing run checks is proved below for every value of the constants, some under conditions on the
use of the manager, which are part of the theorem's statement. What stays with TLC is listed at the end of this section.

### The registry

`SessionHandlers_proofs` proves **`TypeCorrect`**: `Spec => []TypeOK`, from the assumptions on the constants alone. The
types are not inductive by themselves: `frame[p].sess` and `frame[p].found` may be null, and a step that uses
them must know they are not at its label. `ControlOK` (`Ready`) says, for each label, which fields are set and
which method the call returns to; `TypeOK /\ ControlOK` is inductive.

`SessionRegistry_proofs` proves **`RegistryInvariant`** and its consequence **`FoundSessionsAreIndexed`**, for any number
of channels, event loops, groups and application threads, under `CarefulApplication`:
registration is automatic, no two channels can be given the same id, and the application deregisters only what
it has found online. Each part is there for a reason the runs show: `relogin_race` has two channels with one id and finds a session that
is online and gets no broadcast, and `any_application` reaches, by `ban` and by registering for itself, states outside the invariant.

`FoundIsIndexed` is not inductive. `RegistryInv` adds where each thread is (`CallsInPlace`), that a session is filed
under its own id (`FiledUnderItsId`), that it is in no index before its handler puts it there (`NotYetListed`), that what
`registrySession` has inserted so far stays (`Inserted`), that what is being removed is listed nowhere and never
will be again (`RemovedAreOut`), and that a closed channel is past its registration (`ClosedAfterRegistration`).

The step proof does not go through the 30 actions one conjunct at a time. It names three kinds of steps by what
they do to the registry and proves once for each that the invariant is kept: `Aside` (not at all: the group methods,
most of the handlers, the start of a call), `Registers` (inserts the handler's own session, and publishes it when it
is everywhere) and `Deregisters` (takes out what nobody can find any more). Every action is then shown to be of
one kind; closing a channel and the renaming by a hook have lemmas of their own.

**`HandlersImplementDirectory`** is the refinement, under `CarefulApplication`: `onlineClient` and `Fate`, which is computed from the handlers' places, take
a step of `SessionDirectory` or stutter. The three kinds of steps do most of it: `RegistrationLists` maps the last insertion, for which `NotYetListed` gives that
the session is outside and the id free; a session whose handler decides without that insertion is declined (`DecisionDeclines`); `DeregistrationDelists` maps the removal of the id, for which `RemovedAreOut` gives that the session
never comes back.

`SessionIndexes_proofs` proves **`QuietIndexesAgree`** (`IndexesAgree`), under `CarefulApplication`. `RegistryInv` says that nothing is missing; `AccountedFor` says that nothing
is left over: whatever is in a collection is listed, or is being registered, or some thread is at the very step that takes it out. The two together are `IndexInv`
(**`IndexInvariant`**). That thread need not be the one that withdrew the id: two threads that deregister one session share the work, and the first to find it in
a collection finishes there.

`SessionGroups_proofs` proves **`GoneSessionsAreForgotten`** (`GoneIsForgotten`). It is about handlers that get to their end: a `removeBefore` hook that throws keeps the handler from
deregistering at all (`kept`), as `LeftOnlyByUnregisteredHooks` of the pipeline says too. Its conditions are more than `CarefulApplication`, and TLC finds a counterexample without each of the others: a session the application adds to a group may be gone already; and
a hook that joins a group while the application kicks the session joins after the groups were cleaned. So either nobody joins the application's groups
(`NobodyJoins`, with any deregistration of online sessions) or only the registered hooks join them and the application's threads only make and remove groups (`OnlyHooksJoin`). `Leaves` says that the unregistered handler works under
the id its session is listed under, if it is, and that the session is unlisted from then on. For the second case `StaysListed` says that a session that joins is listed until its own handler
withdraws it, so that the handler goes through the groups at all, and `MemberOf` that it is in a group only while the group is still to be visited (`ToVisit`), or is no longer
one of the manager's: a group put into the map while the cleaning iterates is new, and nobody that is leaving joins it.

The other two theorems of `SessionHandlers_proofs` allow what `CarefulApplication` excludes, and rest on invariants of their own:

* **`IdsAreTakenAcrossLoops`** (`TakeoversCrossLoops`): `login_twice` refutes that an id keeps its session. The theorem says that this takes two event loops, when registration is
  automatic, whatever ids clients are given and whatever the application calls: a registration that has passed the test finds its id free, or held by a session of another loop, until it
  publishes (`IdFree`), as another registration on the same loop has to wait (`OneHandlerPerLoop`). `KeyInv` is inductive.
* **`HandlersRemoveTheirOwn`** (`RemovesOnlyItsOwn`), in two cases: ids are unique (`OwnInv`: a registration files a session under an id of its own, and the handler deregisters such an id),
  whatever the application calls and whoever registers; or clients share ids on one loop, registration is automatic, no two channels have the same short text and the application deregisters nobody
  (`SharingInv`: the id the handler is about to withdraw has its own session or none, because a refused client's session is not in the index by channel id, and the handler then uses the short text).

TLC has checked `KeyInv` and `TakeoversCrossLoops` on the constants of `login_twice`, `OwnInv` on `any_application`, `SharingInv` on `rooms`,
`KeyInv` and `LeaveInv` with `NoMembers` on `kick`, and `JoinInv` on `rooms` with unique ids, before they were proved. They are not listed among these runs' properties, because a theorem says more.

### The broadcast

`Broadcast_proofs` proves **`BroadcastInvariant`** and from it `TypeOK`, **`NullsOnlyFromRaces`** (`NullOnlyFromRacingLoops`), **`MembersAreServed`** (`AllMembersServed`), **`FailuresLostToOtherLoops`** (`LostOnlyToAnotherLoop`) and
**`SameLoopReports`** (`SameLoopReportIsExact`), for any channels, event loops, callers and ids, from `BroadcastAssumption` alone, which says that there is an id for every session. `MembersAreVisited` says that a member the
caller has not written to is still to be visited, which is what the weakly consistent iterator gives to a member that stays. `VisitedInOrder` orders the writes and the listeners:
`sendBroadcast` writes to all before it adds a listener, `sendSome` has one write at a time without a listener (`OneAtATime`). `Heard` says what a listener may know of its future. For the list of
failures `Appends` says that it holds failures only, and that it and what a listener found in it before its append differ only by failures of which another loop had one too (`Excused`), and `Nulls` that a null
is there only if two loops had a failure (`TwoLoopsFailed`); `OneListenerPerLoop` is why a loop cannot overlap itself. TLC has checked `BroadcastInv` on `broadcast`.

### The server's start, the pipeline and the client

`ServerStart_proofs` proves **`StartInvariant`** and from it **`StartTypes`** (`TypeOK`), **`HandlersAreReady`** (`ReadyBeforeEvents`) and **`RunnersAddInTime`**
(`RunnersAreInTime`), for any channels, loops, events and numbers of callbacks, from `StartAssumption` alone. `ReadyBeforeEvents`
needs `PipesAreReady`: what `getCache` found or made is in the pipeline before `init` runs, and nothing takes hooks away.
`RunnersAreInTime` needs the order of the whole start: nobody is accepted before the bind completes (`BindComesFirst`), the runners
are the first to add (`RunnersAdd`), with the listener bound in time they run while every channel is still new
(`RunnersFirst`), and from then on whatever is made knows the callbacks, or there are none (`Informed`, `Knows`). `start` checks
`StartInv` as well. The proof has a lemma for each group of actions: the boss loop and the user (`MainKeeps`), adding callbacks (`AddingKeeps`), and,
for what channels do, `InsideKeeps`, which reduces the invariant to its last part.

`ChannelPipeline_proofs` proves **`PipelineInvariant`** and from it `TypeOK`, **`LeftOnlyByUnregisteredHooks`**, **`UnheardOnlyFromBehind`**,
**`MessageIsReleased`**, **`LifeInOrder`** and the refinement of the directory, **`ImplementsDirectory`**, for any handlers the application
adds (`config.inbound` of any length) and any number of events and exceptions, from `PipelineAssumption` alone. `AssembledFits` shows by
`HeadedGrows`, handler group by handler group, that `initializerChannel` puts the registration handlers at the ends and the retry handler at the head
only (`EndsOfPipeline`); that the session is listed once (`ListedOnce`), so that the directory's steps are allowed, rests on the first, and that
`unregistered` cannot reach the tail of a server's pipeline without meeting the handler that deregisters (`TakenOut`) on the second. `SeenSoFar` says
that a place has seen less than netty has fired while the event has still to come there; `MessageHasOwner` that the message is the event's, an owner's
or was dropped by a hook that threw; `UnheardSoFar` that an exception nobody was told of has passed no handler that tells. The types need
`MessageHasOwner`, for the count at the tail. There is one lemma for each of these parts, with one step for each action.

`ClientApplication_proofs` proves **`ClientInvariant`** and from it `TypeOK`, **`OneConnection`**, **`ConnectedMeansReset`** and **`ReconnectionsAreBounded`** (`RetriesBounded`),
for any configuration and number of attempts, from `ClientAssumption` alone. The three hold of a client that the application does not start again itself,
and so do the parts of `ClientInv` beyond the types. `EventsFit` says what may wait at a channel in each state of its connection: it is registered once and
loses its connection once (`LosesOnce`). `StartsAlone` says that `start` and `connect` exclude each other by the monitor, so that a channel's listener is bound before
`connect` asks for the next attempt. From both follows that the attempts are a chain (`Chain`): all but the last one are over (`EarlierAreOver`), and only the one
that made the last may still have events, while the last has not begun. The bound on the reconnections is `retries <= retryCount + 1`; it survives the
late listener that clears `retryCount` once more because `retries` is at most 1 then. The lemmas on queues (`HasConcat`, `OnceTail`, `HandleQueue`, `PostQueue`) reduce
each step to what is in a queue, whatever its order.

TLC finds no state of the runs `pipeline` and `client` outside `PipelineInv` and `ClientInv`, which are not listed as properties of these runs.

### Only model-checked

* Liveness, which is out of the prover's reach: `ClosedIsForgotten`, `CallsEnd`, `CallerIsAnswered`, `Reconnects`, `FailureIsFatal`, `DestroyEndsClient`, `EventsEnd`,
  `ClosedIsDeregistered`, `StartIsDecided`, `DestroyClosesAll`.
* `IndexesAgree` and `GoneIsForgotten` where clients share ids on one event loop (run `rooms`): `IndexInv` needs unique ids, as it says who is in a collection by the id.
* The five violations: a counterexample needs no proof.

## 6. Not modelled, and what is left

Left out for good:

* the codecs (stateless conversions by netty classes), TLS (reading a key store), configuration and annotations (declarations);
* class scanning, the interceptor managers, `IOCUtils` and the Spring start-up: reflection, class files, and one thread's sequence of
  calls of Spring, whose outcome, sets of hooks and a constructed application, the models take as given. `ScanUtil` caches a jar's classes
  under the last entry's package, and `typesIgnored` with `allMatch` ignores no type: both are seen by reading, not by a checker;
* the construction of an application (`readHandler` sorts by order, `checkConfig` throws, `registryThis`), the coders, and
  `startError`, which no step reaches that the models contain;
* `Session.close` (adds a listener and changes nothing), `GroupSession.clear` and `DefaultHandlerCacheHelper.clear` (no caller; a second
  application in one program would get the handlers of the first), `sendSession` (a test and a get, either of which may be overtaken, and no change);
* the JavaScript under `docs/assets/js`: minified bundles that VuePress generates from the documentation. It holds none of the
  framework, which is Java.

What is left, in this order:

1. Proofs: `IndexesAgree` where ids are shared on one event loop; the safety half of the liveness properties, for instance that a session that is forgotten stays
   forgotten (`ClosedIsForgotten`) and that the monitor is held only by a thread that can go on (`CallsEnd`).
2. `createGroup` by two threads, and a statement about groups that survives sessions added late.
