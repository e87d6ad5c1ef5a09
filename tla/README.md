# A verification project for Protoactor-cpp

TLA+ models of the actor runtime in this repository and of the layers around it (timers,
routers, persistence, remote, cluster), the TLC configurations that check them, and TLAPS
proofs about all of them. All paths are relative to the root of the
repository. `PROJECT.json` maps every definition to the lines it models.

## 1. The system

An *actor* is an object with a `Receive` method, run by a *context* that is fed by a
*mailbox*. Threads post to mailboxes through *PIDs*, which the *process registry* resolves;
what cannot be resolved becomes a *dead letter*. A *dispatcher* decides which thread runs a
mailbox: one of a *thread pool*, or the posting thread. Around this core are timers,
persistence, routers, supervision, the remote layer and the cluster layer, which are
written as actors or threads on top of it.

| Component | State it keeps | Operations | Talks to |
|---|---|---|---|
| Mailbox (`src/actor/mailbox.cpp`, `queue.cpp`) | two queues, two counters, `scheduler_status_` | PostUserMessage, PostSystemMessage, Schedule, ProcessMessages | dispatcher, context (Invoke*Message) |
| Dispatcher (`dispatcher.cpp`) | throughput | Schedule | thread pool, mailbox |
| Thread pool (`thread_pool.cpp`) | task queue, `stop_`, `stop_now_`, workers | Submit, Shutdown, ShutdownNow, WorkerLoop | mailboxes (tasks) |
| Context and life cycle (`actor_context.cpp`, `props.cpp`) | `state_`, watchers, children, stash, current message | the context interface; Invoke*Message | registry, mailboxes of others |
| Registry, PIDs, dead letters (`process_registry.cpp`, `pid.cpp`, `deadletter.cpp`) | 1024 buckets, id counter | Add, Remove, Get, NextID, Clear; SendUser/SystemMessage | every sender; event stream |
| Event stream (`eventstream.cpp`) | list of subscriptions, id counter | Subscribe(WithPredicate), Unsubscribe, Publish | dead letters, cluster, remote |
| Actor system (`actor_system.cpp`) | the singletons above | construction, Shutdown | everything |
| Futures (`future.cpp`) | result, pipes, completions, timer | Wait, PipeTo, ContinueWith | registry |
| Supervision (`supervision.cpp`, `guardian.cpp`) | restart statistics | HandleFailure, ShouldStop | contexts |
| Timers (`src/scheduler/timer.cpp`) | one thread per timer, cancel flags | SendOnce, SendRepeatedly, RequestOnce, ... | PIDs |
| Persistence (`src/persistence/persistence.cpp`) | events and snapshots per actor | Persist*, Get*, Delete* | persistent actors |
| Routers (`src/router/`) | routees, round robin index | RouteMessage, SetRoutees | PIDs |
| Remote (`src/remote/`) | endpoint map, watch lists, batches, connection state | EnsureConnected, Remote{Deliver,Watch,Unwatch,Terminate}, writer and reader loops | peers, event stream |
| Cluster (`src/cluster/`) | members, gossip state, topic subscribers, PID cache | Start, Shutdown, UpdateTopology, Publish, ... | provider thread, event stream, remote |

What is hard in it:

* **Concurrency.** The mailbox is lock-free between posters and the runner; its
  re-acquisition after `ProcessLoop` is the classic place for lost wakeups and double runs.
  The pool's condition variable is notified once per task. `Spawn` publishes a process
  before it is complete. `Subscribe`, `Unsubscribe` and `Publish` leave and re-enter their
  mutex.
* **Ordering.** System messages go before user messages; `Watch`, `Unwatch` and `Stop`
  cross; `Started` must come first; restarts nest unstashing inside handlers.
* **Failure.** Handlers throw, pools stop with tasks queued, failures climb to the root,
  the endpoint map is cleared while senders insert into it.
* **Timeouts and threads outside the actor discipline.** Timers, gossip loops and the
  provider's polling thread run beside the actors and are cancelled from other threads.

Per component, what makes it correct: the *mailbox* runs one handler at a time, handles
each message once and in order, and never sleeps on a message; the *pool* starts every
accepted task once and drains before a stop returns; a *context* shows its actor `Started`
first, answers a late watch, and keeps its watchers and children in step with the messages
it got; the *event stream* keeps its entries and ids in balance; an *endpoint* forgets no
watch, and its *channel* delivers what was sent or announces the loss; *gossip* stops when it
is told to and has one writer; a cancelled *timer* is silent; *persistence* replays events in
the order of their indices. Several of these hold only with exceptions that the code makes;
the properties name the exceptions, and the hazards in `PROJECT.json` say, line by line, where
each can go wrong.

## 2. Modules

| Module | Models | Depends on |
|---|---|---|
| `Mailbox` | mailbox, queues and both dispatchers, one step per atomic access | `SerialActor` (refines) |
| `SerialActor` | abstract: a message is posted, taken by nobody else, finished | |
| `Lists` | the pass over a list that leaves out some entries | |
| `ThreadPool` | the pool: queue, condition variable, stops, joins | `TaskPool` (refines) |
| `TaskPool` | abstract: how many tasks wait, whether tasks are accepted; this is the pool that `Mailbox` assumes | |
| `ActorContext` | spawning, registry lookup, dead letters, context operations, all system messages | |
| `EventStream` | subscriptions and publishing by several threads | |
| `Endpoints` | `EndpointManager` with its map and mutex, `RemoteProcess`, the `EndpointWatcher` actors | |
| `Channel` | `EndpointWriter` with batches and receive thread, `GrpcService` and `EndpointReader` of the peer | |
| `Cluster` | Start and Shutdown, gossip threads, `MemberList`, `Informer` | |
| `Timers` | timer threads, their cancel functions, receive timeouts | |
| `Supervision` | the three strategies and `RestartStatistics` | |
| `Routers` | the four routers, groups and pools | |
| `Persistence` | the in-memory provider, for one actor name | |
| `Receiving` | receiver middleware with deduplication, stack of behaviors | |
| `Hub` | pub-sub of a cluster, one topic | |
| `Probe` | priority queue, test probe, stream actor | |
| `Registry` | process ids, shards, `ActorSystem::Shutdown` | |
| `MailboxProofs`, `ThreadPoolProofs`, `ActorContextProofs`, `EventStreamProofs`, `EndpointsProofs`, `ChannelProofs`, `ClusterProofs`, `PartsProofs` | theorems | the module of that name, `MCParts` for the last |
| `MC*` | instances for TLC | the module of that name |
| `MCParts` | one behavior per part: `Timers`, `Supervision`, `Routers`, `Persistence`, `Receiving`, `Hub`, `Probe`, `Registry` | those eight |

### Mailbox

`status`, `counter`, `queue` are `scheduler_status_`, `user_messages_`/`sys_messages_` and
the two queues. A thread has a program counter: *count*, *schedule*, *dispatch* while it
posts (`PostUserMessage`, `PostSystemMessage`, `Schedule`, `Dispatcher::Schedule`); *loop*,
*popUser*, *sub*, *handler*, *store* inside `ProcessLoop`; *loadSys*, *loadUser*, *recas* in
the re-check of `ProcessMessages`. A handler returns, throws, or posts to its own mailbox
and then goes on; what it does to other actors does not touch this mailbox. `dispatcher` is
`"pool"` or `"inline"`, and `"stopped"` after the pool was stopped, when `Submit` drops the
task. `TSO` adds a one-entry store buffer for the store of `IDLE`: the store is `release`,
the loads of the counters after it are `relaxed`, and no fence is between them, so other
threads may see the store after the loads. A queue's mutex and a compare-and-swap empty the
buffer. `overtaken`, `posted`, `done` and `lost` are history; `lost` says which event left the
mailbox `RUNNING` with nobody to run it: an exception, a task dropped by a stopped pool, or the
end of `max_rounds` after a successful compare-and-swap.

`ProcessLoop` resets `i` before it compares it with the limit again, so with a positive
throughput the limit never ends the loop; `NextIter` keeps this.

### ThreadPool

A section under the mutex is one step. A worker is about to *test* the predicate, in
*wait*, in *run* or *exited*. `notify_one` wakes any waiting worker, a worker may wake
without notification, and the join of a stop returns when all workers have left.

### ActorContext

The mailbox appears as its loop (system message, else look at the user queue, then pop);
that one thread runs it at a time is what `Mailbox` shows. A handler performs any one
operation of its context, or none. `calls` holds what the thread still has to finish below
the handler: the second half of `HandleRestart`, a nested `Unstash` or `UnstashAll`. Spawn
has the three steps other threads can tell apart: in the registry, handlers registered,
`Started` posted. `crashed` is the undefined behaviour the code can meet: a post to a
mailbox whose dispatcher is null, and the dead letter process reading any message as a
`Watch`. A future cannot be made: `FutureImpl`'s constructor calls `shared_from_this` and
throws. A handler that asks for one (`RequestFuture`, `StopFuture`, `PoisonFuture`) leaves
with the exception (`FutureThrows`) and its mailbox stays marked as running: the actor is
silent from then on.

### EventStream

One step per section under `mutex_`. Outside it are the store of the predicate
(`SetPredicate`), the check of `active_` in `Unsubscribe`, and for each subscription of the
copy that `Publish` goes through the question to its predicate (`AskPredicate`) and then the
call of its handler (`CallHandler`). The store of the predicate is not synchronised with the
question, so a question during the store finds the old value, the new one, or a half stored
function, which ends the process (`crashed`). Ids are the current count, as in the code, so
they are given more than once.

### Endpoints

A call of the manager is three steps: the look at `stopped_`, the look of `EnsureConnected`
with the section under `connections_mutex_`, and the use of the endpoint afterwards. Threads
send, watch, unwatch, publish endpoint events, start and stop; each `EndpointWatcher` handles
its mailbox and calls the manager from its own thread. `told`, `open`, `dropped`, `retired`
and `raced` are history. The repository never spawns the two actors of an endpoint; whoever
embeds it must (`AttachActors`, external). With an activator `Stop` leaves by the exception
of `StopFuture` (`StopThrows`). Spawning the activator fails if its name is taken; the code
ignores that, and `StartActivator` has both outcomes.

### Channel

One direction of one connection: the writer's actor (connect with retries, deliver,
disconnect), its receive thread, which runs from inside `Initialize` on, the batch codec with
its shared tables, and at the peer the handler of the stream, the block list and the server's
shutdown. The stream is external: it breaks at any moment and loses what is under way.
`DeserializeAndDeliver` says what the receiver gets: a system message without its sender; a
user message that has a sender wrapped twice, by the reader (`endpoint_reader.cpp:79`) and by
`RootContext::Send` (`root_context.cpp:53`), so that `Message()` is the inner envelope and
`Sender()` is null.
`CloseClientConn` destroys the stream before it joins the receive thread, which may be inside
`Read` (`endpoint_writer.cpp:301-320`, `328`): a use after free. `ReadFreed` gives its outcomes:
the thread leaves, finds a last message, hangs (and the join with it), or the process dies. The
code under `ENABLE_GRPC` does not compile at this commit; it is modelled as written, and both
settings are initial states.

### Cluster

Gossip threads are detached and end only when they read `running_`. `StartGossiping` loads
`running_` (`Start`) and stores it later (`StartGossiping`): two calls may pass the load
together, and a stop and a start before a thread has read the flag leaves two threads as well.
`UpdateTopology` holds the mutex of the member list until the subscribers have returned. The
counter of the `Informer` is read and written in separate steps, and two threads in its maps
may end the process (`MapsCollide`). `Shutdown` calls `PubSub::Stop` first, which throws if
PubSub was started: the gossip is then not stopped (`ShutdownThrows`), and only the next
`Shutdown` stops it. `stopped` and `overlapped` are history. No gossip of another node is ever
merged: `Gossiper::ReceiveState` is empty, and nothing calls `Informer::ReceiveGossip`,
`MergeState` or `SetState`.

### The parts of MCParts

* `Timers`: a timer is a thread with the shared flags `state` and `cancelled`, in the steps
  between their loads and stores. Two slots: the receive timer of an actor, and a timer whose
  cancel function several threads call. Time is abstract: a sleeper may wake at any moment.
  The scheduler of a receive timeout is freed when `SetReceiveTimeout` returns
  (`actor_context.cpp:211`) although its thread still reads `ctx_` from it: the message is sent
  or lost, or the process ends (`UsesFreed`). With the synchronized dispatcher the handler may
  run on the timer's own thread; if it cancels that timer it joins itself and the process ends
  (`JoinItself`).
* `Supervision`: `Fail` and `HandleFailure` in any order (nothing in the repository calls
  either), any directive; time is the age of the last failure, up to one tick past the window.
* `Routers`: `int` arithmetic with a small `IntMax`, the remainder of C++, and a list that is
  a copy of the group's list until the next `SetRoutees`.
* `Persistence`: every call of the provider holds its mutex and is a step. Callers count the
  index up, as the tests do, and may leave gaps; deletions and snapshots come with any index.
* `Receiving`: the chain and the deduplicator belong to the Props, so several actors run them
  at once; the clock is read before the lock, and a thread may lose `MaxDelay` ticks between.
* `Hub`: each operation looks at `running_` and takes the lock later; `Stop` throws before it
  clears the subscriptions.
* `Probe`: the condition variable of the priority queue, with spurious wakeups.
* `Registry`: ids as lists of digits, shards by hash, a shutdown that clears one shard per
  step. Besides fresh ids threads register `Names`, which callers choose (`SpawnNamed`,
  `SpawnPrefix`, the fixed `$...` names) and may use again.

## 3. Runs

| Run | Bounds | Shows |
|---|---|---|
| `mailbox` | 2 producers, 2 workers, either dispatcher, 3 messages | `MutualExclusion`, `NoNestedProcessing`, `DeliveryOrder`, `BoundedOvertaking`, `CounterExact`, `NoLostWakeup`; under fairness `EveryPostHandled` |
| `mailbox_adverse` | the same with delayed stores, one exception, both pool stops, two rounds | `SerialSpec`: what is handled is handled serially and in order, whatever else is lost; `RunnerAccounted`: what can leave the mailbox `RUNNING` with nobody to run it |
| `mailbox_store_delay` | 1 worker, 2 messages, delayed stores | *violation* of `NoLostWakeup` |
| `pool` | 3 workers, 2 clients, 4 tasks | `StartedInOrder`, `NoTaskSleeps`, `JoinedMeansDrained`, `PoolSpec`; under fairness `EveryTaskRuns`, `StopReturns` |
| `context` | 2 actors and the root, 5 operations of 17 kinds | `StartedFirst`, `LivingChildListed`, `WatchersFollowIntent`, `UnstashedIsReceived`; under fairness `LateWatchAnswered` |
| `context_terminated` | 2 actors, 4 operations | *violation* of `WatcherNotified` |
| `stream` | 4 subscriptions, 2 threads, 2 publications or switches | `IdsBalance`, `FilteredOnceReturned` |
| `stream_stolen` | 3 subscriptions | *violation* of `SubscriberIsListed` |
| `endpoints` | 2 threads, 5 calls, 2 endpoint objects, a watchee with an address and one without | `OneEndpointPerAddress`, `WatchAccounted`, `ClearedStaysClear` |
| `channel` | batches of 2, 4 messages of 4 kinds, 2 retries | `DeliveredIntact`; under fairness `LossAnnounced`, `ShutdownReturns` |
| `cluster` | 1 other node, 2 threads that call `Start`, 2 gossip threads, 2 topologies, 2 sequence numbers | `OneWriter`; under fairness `GossipStops` |
| `parts` | see below | `CancelStops` (also under fairness), `StopNeedsRetries`, `FairShare`, `ReplayInOrder`, `DuplicateGap`, `GoneIsGone`, `NoItemSleeps`, `ShutdownForgets` |

`mailbox` also checks `TypeOK`, which `MailboxProofs` proves; the `TypeOK` of `ThreadPool` and
`ActorContext` is part of the inductive invariants of section 4. That nothing starts after
`ShutdownNow` is part of `PoolSpec`.

Why the bounds are enough. A lost wakeup or a double run of the mailbox needs a runner that
leaves and one poster; a second poster and a second worker give every race for the status, and
the third message gives overtaking (one system message behind two user messages). Rounds are
bounded at two in `mailbox_adverse` because what matters is the round after the last; with
three posts this round is reached. Three workers and four tasks let one worker take a task that
another was woken for while a third sleeps. Two actors give watcher and watched, parent and
child, sender and receiver; five operations reach a stop, a late watch and a restart with a
stash of two. Three subscriptions are the fewest with which an id is given twice; the fourth
lets this happen while a cancel is under way. Two endpoint objects let an address lose its
endpoint and get another; five calls are enough for a watch, an unwatch, an event, a stop and a
start. Four messages in batches of two fill a batch, leave a rest and share table entries. Two
gossip threads are enough to meet in the informer, by a restart or by two calls of `Start` at
once. In `parts`: 2 cancelling threads and timeouts 0, 1, 2; 2 children with 2 retries, a
window of 2 ticks and 4 failures; 3 routees and `IntMax` 4, so the index wraps with a list
length that does not divide the range; 5 event indexes, enough for two deletions with events
persisted before, between and after them; 2 actors and 1 key with a TTL of 3 and 1 tick of
delay (the bound of `DuplicateGap` is reached); 2 clients and 2 subscribers; 3 takers and 3
items; 2 threads, 2 shards, 3 ids of base 2 and 2 chosen names, one of which is also a
generated id. `CHECK_DEADLOCK FALSE` is set throughout: the bounds on posts, tasks, calls and
operations end every behaviour.

Fairness. Threads that have begun are scheduled (`WF` on each thread's steps), a handler or
task ends, a store becomes visible, a worker wakes and tests its predicate. In `Channel` the
receive thread, the writer's actor and the server's threads go on while they can, and nothing
is assumed of the network; in `Cluster` the gossip threads and the thread inside
`UpdateTopology`; in `Timers` the timer threads and the calls of the cancel functions. Posting,
stopping and spurious wakeups are not fair. Weak fairness is enough almost everywhere: a mutex
or a mailbox that is ready stays ready until its own thread takes it. The exception is a handler
that runs on a timer's thread (`HandlerReturns` in `Timers`), for which strong fairness says
that it makes finitely many calls before it returns. In `Cluster` the fairness of
`HandlersReturn` assumes that no subscriber of a topology asks for the member list, which would
deadlock on the mutex that `UpdateTopology` holds (`member_list.cpp:73`).

### Where code and documentation disagree

Shown by runs (with the quotations in `PROJECT.json`, `findings`):

* `mailbox_store_delay`: with the memory orders of lines 95 to 99 of `mailbox.cpp` a message
  can be left in an idle mailbox.
* `context_terminated`: `HandleStop` tells nobody; a watcher gets `Terminated` only if its
  `Watch` arrives after the stop.
* `stream_stolen`: `Unsubscribe` removes the first entry with the id, which may belong to
  another subscription.

Seen while modelling; the models have these steps, and no run is spent on them:

* `max_rounds` ends `ProcessMessages` after a successful compare-and-swap, and an exception
  leaves it, with the status `RUNNING`; the mailbox is never scheduled again
  (`mailbox.cpp:80` says the current processing will handle new messages). Both are steps
  of `mailbox_adverse`, and `RunnerAccounted` lists them.
* A second `Shutdown` of the pool returns while the first is draining
  (`thread_pool.h:45`).
* `Poison` does not stop an actor (`context.h:233`); `Request` wraps its envelope again, so
  the receiver sees no sender (`context.h:89`); a `Restart` revives a stopped actor
  (`docs/ARCHITECTURE.md:473`); a `Failure` is handed upwards and asks no strategy
  (`docs/ARCHITECTURE.md:134`); a message sent by name during `Spawn` may be handled before
  `Started` (`docs/ARCHITECTURE.md:467`; the constant `ByName` of `ActorContext`).
* An event published between the two steps of `SubscribeWithPredicate` is delivered
  unfiltered (`eventstream.h:45`), even after `SubscribeWithPredicate` has returned if `Publish`
  looked at the predicate before (`eventstream.cpp:87`, `92`); and the store of the predicate
  races with its call.
* Every future throws when it is made, and what asked for it with it: an actor's handler,
  `PubSub::Stop` and with it `Cluster::Shutdown`, `EndpointManager::Stop` with an activator,
  and the delivery actor at the first subscriber of its first batch, after which it is stuck.
* A stream's actor puts `Started` into the queue of items, and one `Unsubscribe` stops the
  stream for all.
* `RemoteDeliver` asks for serializer -1: the sender takes the default one, the reader knows
  no serializer -1 and drops the message (`Decodable` in `Channel`).
* A node that the peer refused keeps its stream, and a shutdown of the peer's server waits
  for it.
* All actors of one Props share one deduplicator.
* A user message with a sender arrives from another node as an envelope inside an envelope, and
  `Sender()` is null (`endpoint_reader.cpp:79`, `root_context.cpp:53`).
* `CloseClientConn` destroys the stream under the `Read` of the receive thread; a receive timeout
  uses a freed `TimerScheduler`; a cancel on the timer's own thread joins itself.
* `DeleteEvents` moves what remains away from its index: with events 0 to 9, `DeleteEvents(4)`,
  a new event 10 and `DeleteEvents(6)`, events 7 to 9 are gone too, and `GetEvents` from an index
  after a deletion skips events (`persistence.cpp:112`). The event-sourced example
  (`examples/persistence_example.cpp`) leaves its calls of `PersistEvent` and `PersistSnapshot`
  in comments and still deletes events.
* A caller's name may be a generated id: prefix `a` with the first id is `a1$`, which `NextID`
  ("next unique process identifier", `process_registry.h:38`) makes of 641.
* `Cluster::Shutdown` does not stop the gossip if PubSub was started: the exception comes first.
* `HandleStop` leaves the receive timer of the actor running, and `SetReceiveTimeout` with the
  value it already has re-arms nothing (`actor_context.cpp:462`, `188`).
* With a throughput of 0 the limit of `ProcessLoop` is 0 and nothing is handled
  (`mailbox.cpp:123`); a nested `Unstash` clears the current message of the handler that
  called it (`actor_context.cpp:339`); `FutureImpl::SendUserMessage` calls `Stop` under the
  mutex that `Stop` locks (`future.cpp:102`, unreachable).

## 4. Proofs

Every theorem holds for every value of the constants that its module's named assumption
allows; the assumptions are that sets of threads are finite and disjoint where they are
counted, that a model value such as `None` is none of the real values, and that numbers are
numbers (a base above 1 and at least one shard in the registry). `ChannelProofs` assumes
nothing. Three theorems add a hypothesis on the constants, given below; the run of the same
property satisfies it (`mailbox`: `TSO = FALSE`; `context`: `ByName = FALSE`).

| Theorem | Module | Property | Inductive invariant |
|---|---|---|---|
| `TypeCorrect`, `OneThreadAtATime`, `NeverNested` | `MailboxProofs` | `TypeOK`, `MutualExclusion`, `NoNestedProcessing` | `OwnerInv` |
| `OrderPreserved` | `MailboxProofs` | `DeliveryOrder` | `OwnerInv`, `KindInv` |
| `SystemMessagesFirst` | `MailboxProofs` | `BoundedOvertaking` | and `AgeInv` |
| `MailboxIsSerial` | `MailboxProofs` | `SerialSpec` | the same, step by step |
| `CountersAreExact` | `MailboxProofs` | `CounterExact` | `BaseInv` and itself |
| `WakeupsKept` | `MailboxProofs` | `NoLostWakeup` | `WakeInv`; hypothesis `~TSO` |
| `RunnerKept` | `MailboxProofs` | `RunnerAccounted` | `HeldOrLost`, `RoundInv`, `LimitInv` |
| `TasksInOrder`, `NoneSleepsOnATask`, `StopDrains` | `ThreadPoolProofs` | `StartedInOrder`, `NoTaskSleeps`, `JoinedMeansDrained` | `PoolInv` |
| `PoolImplements` | `ThreadPoolProofs` | `PoolSpec` | `PoolInv`, step by step |
| `ChildrenKept` | `ActorContextProofs` | `LivingChildListed` | `ChildInv` |
| `WatchersAgree` | `ActorContextProofs` | `WatchersFollowIntent` | `WatchInv` |
| `StartedComesFirst`, `UnstashKeeps` | `ActorContextProofs` | `StartedFirst`, `UnstashedIsReceived` | `FirstInv`; hypothesis `~ByName` |
| `FilterHolds` | `EventStreamProofs` | `FilteredOnceReturned` | `FilterInv` |
| `IdsKeepBalance` | `EventStreamProofs` | `IdsBalance` | `ExistInv`, `BalanceInv` |
| `CallsShareEndpoint`, `StoppedMapStaysEmpty`, `WatchesAccounted` | `EndpointsProofs` | `OneEndpointPerAddress`, `ClearedStaysClear`, `WatchAccounted` | `EndpointsInv` with itself, `ClearInv`, `WatchInv` |
| `ChannelIsFaithful` | `ChannelProofs` | `DeliveredIntact` | `ChannelInv` |
| `DownIsQuiet` | `ChannelProofs` | `QuietAfterShutdown`, the safety part of `ShutdownReturns` | `Quiet` |
| `InformerHasOneWriter` | `ClusterProofs` | `OneWriter` | `AloneInv` |
| `ItemsAreTaken` | `PartsProofs` | `NoItemSleeps` | itself with types |
| `RetriesBeforeStop` | `PartsProofs` | `StopNeedsRetries` | `StatsExact` |
| `DuplicatesKeepApart` | `PartsProofs` | `DuplicateGap` | `HeldInv`, `GapInv` |
| `OldIdsAreGone` | `PartsProofs` | `ShutdownForgets` | `IdsInv`, `ShardsInv` |
| `TurnsAreShared` | `PartsProofs` | `FairShare` | `RoutersInv` |
| `ReplayKeepsOrder` | `PartsProofs` | `ReplayInOrder` | `PersistenceInv` |
| `LeaversStayOut` | `PartsProofs` | `GoneIsGone` | `HubInv` |
| `CancelledIsQuiet` | `PartsProofs` | `Quiet`, the safety part of `CancelStops` | `TimersInv` |

The arguments.

*Mailbox.* Mutual exclusion is not inductive: the compare-and-swap alone does not say that the
winner of the status is the only one. `OwnerInv` treats `RUNNING` as a token: while the status
is `IDLE` nobody owns it; while it is `RUNNING` it is owned by at most one thread (one that
dispatches, runs `ProcessLoop`, or has a delayed store of `IDLE`) or by at most one task in
the pool (`TokenInv`). `PlaceInv` says that a thread inside its handler cannot win the token,
because it owns it, and that a thread with a delayed store has left the loop; `HoldInv` that a
message is in hand exactly between `Pop` and the end of the handler. Order follows with
`KindInv` (each queue holds its own kind): only the owner pops. Overtaking needs `AgeInv`:
what has been overtaken is older than what is posted later. Every step maps to a step of
`SerialActor` (push, pop, end of a handler) or to a stutter.

*Wakeups.* A counter is its queue less the posts not yet counted plus the message not yet
subtracted; each step moves one thread in or out of those two sets. While the mailbox is
`IDLE` nobody subtracts, so a counter that reads 0 over a non-empty queue means that a post is
between `Push` and `fetch_add`, and that thread will schedule. `WakeInv` says this for every
message: some thread has posted and not yet scheduled, or re-checks the counters and has not
yet passed the one of this kind. The delayed store breaks exactly this, which is the run
`mailbox_store_delay`; hence `~TSO`.

*Runner.* While the status is `RUNNING`, a task or a thread has it, or `lost` names the event
that left it so, and never two of these (`HeldOrLost`): an exception, a dropped task and the
last round are the only steps that give the token up without a store of `IDLE`. That the last
round takes more than `MaxRounds` posts needs `RoundInv`: a thread has not begun more rounds
than messages have been finished, and one more only while a message waits for it, because a
round begins only when a counter read above 0 (`CounterExact`).

*Pool.* The queue continues the numbers of the started tasks (`OrderInv`); a worker leaves only
from an empty queue that no task can join, and a started task is finished or in the hands of a
worker (`DrainInv`). `NoTaskSleeps` is inductive with types: `notify_one` wakes one of the
sleepers for the task just added, and a worker that takes a task it was not woken for removes
one task and one awake worker.

*ActorContext.* The proofs rest on `BaseInvariant`: the types, and what the list of unfinished
calls may hold. A child is missing from its parent's list only if it is gone, and every
`Terminated` on its way, in a mailbox or a stash, names a child that is gone (`ChildInv`). The
last `Watch` or `Unwatch` of w in a's mailbox agrees with what w last asked for; once there is
none, the list agrees (`WatchInv`). For `StartedFirst`, an actor whose `Spawn` has not returned
has empty queues and is named in no message (`EmptyInv`, `NamesInv`); from then on `Started` is
at the head of its mailbox until its first `Receive`, and never comes again from outside
(`StartInv`). With `ByName` another thread may post to the actor before `Started`, so the
theorem needs `~ByName`. `UnstashedIsReceived` is an action property of the same invariant: a
stopped actor has no unfinished unstash. `watchers` and `children` are sets: the code's
vectors are searched, erased by value (all copies at once) and never indexed.

*EventStream.* A filtered subscription that exists has its predicate, or a thread is inside the
call that stores it; a handler call that was decided on after that call had returned is for an
accepted event, and this stays so until it is made (`FilterInv`). The balance of ids is kept by
every section under the mutex: `Subscribe` adds an entry and an active subscription with one
id, `Unsubscribe` deactivates one and erases the first entry with that id, whoever it belongs
to (`BalanceInv`, counted with cardinalities; `ExistInv` says that only created subscriptions
are counted).

*Endpoints.* A call holds what the map held when it had the mutex; whoever takes it out of the
map retires it. A call reaches the mutex only after seeing `stopped_` false, so once the map is
cleared with nobody between the two (`raced = {}`) no call comes there any more (`ClearInv`).
`WatchInv` follows a watch through the call, the mailbox and the table of its watcher; no
unwatch of the same pair is under way while it is open.

*Channel.* An envelope stands for a message if the tables of its batch hold the message's
target, type and sender where its indices point, senders counted from 1 (`Carries`); what is
delivered for it has the target, the type, and for a user message the sender inside the
envelope. Adding a
message leaves the entries of the tables where they are, so the earlier envelopes go on
standing for what they stood for (`EnvelopeStep`); by induction over the loop every batch
stands for messages it was made of (`EncodeFaithful`), and what is decoded from it is those
messages again, the type included because only a serializer that names it is registered at
the reader (`DecodeFaithful`). `OriginInv` says that queue, wire and deliveries come from the
history of `RemoteDeliver`, `OrderInv` that the numbers delivered are below those on the wire,
those in the order of the batches, and all of them below those in the queue: a batch that is
lost or dropped takes numbers out and never puts one before another. A call of `Receive` that
reads keeps the server from being down (`Quiet`).

*Cluster.* As long as nobody has stopped the gossip and no two starts overlapped, at most one
call of `Start` is past its look at `running_`, and only before the first thread begins
(`OneStart`); so one thread exists, and a number it has read is not behind the counter
(`OneLoop`).

*Parts.* A step of one part leaves the others alone (`OnePartMoves`). `PriorityQueue` is argued
as the pool. The statistics always equal the unforgiven failures (`StatsExact`), so a positive
`ShouldStop` is earned. A thread waits for the deduplication's lock with a clock at most
`MaxDelay` old (`HeldInv`), so a stamp is at most `MaxDelay` older than the last message let
through, or that one is nearly `TTL` old itself (`GapInv`, one disjunction that survives
`Cleanup`). That no link of the chain is the lock needs the value of the recursively built
chain (`ChainOrder`), found by exhibiting the function that solves its equation. An id that was
registered is one given for a number up to `sequence_id` or a caller's name, and a thread that
is about to register an id nobody chose is the only one with it (`IdsInv`); what is listed in a
shard that was cleared was added to it afterwards (`ShardsInv`). Two numbers have the same id
only if they are equal: `DigitsUnique` reads a number back from its digits, one division at a
time (`OneRemainder`), and `ShardOfId` keeps every hash within the shards. A timer that has
sent a message since it was cancelled is done, or repeats and will see the flag before it sends
again (`GoodTimer`); a call between its two flags has announced itself (`GoodCall`); an actor
that has yet to start its next receive timer is joining the one before or has joined it
(`Rearming`), so no thread is dropped. For the round robin router the positions served are
always the last `k` before the one `index` points to, counted around the list (`Ahead`);
`PlaceNext` says that the next index points to the next place, also for the remainder of a
negative number. The persistence provider's entries grow along the list and none is behind its
index (`ListInv`), so a new event, whose index is past all others, lands past them, and a
deletion up to an index takes every event up to it. Until the first deletion every event is at
its index (`InPlace`), and until the second one nothing beyond the deleted index is missing
(`NoneMissing`); `WhatIsRead` carries this through the pass of `GetEvents`. In the hub a
subscriber that has left is in no list, and no call that would add it again is under way
(`HubPending`, `HubListed`); `WithoutKeeps` says what the removal of an entry leaves.

*Loops.* The library's induction theorems take a predicate, which cannot be instantiated
here. `Least` (from `WFMin`, which takes a set) and `Induction` state them for a set of
numbers; `Recursion` shows from this that every loop has a sequence of values, so a recursive
function of the models equals its defining equation. `WithoutKeeps`, the digits of an
id, `EncodeLoop` and `DecodeLoop` rest on it. `PartsProofs` and `ChannelProofs` each
have these short lemmas.

TLC agrees with the inductive invariants on the instances of the runs (`BalanceInv` ranges over
all integers; there TLC checks `IdsBalance`).

Only model-checked, and why:

* all liveness properties (`EveryPostHandled`, `EveryTaskRuns`, `StopReturns`,
  `LateWatchAnswered`, `LossAnnounced`, `ShutdownReturns`, `GossipStops`, and of `CancelStops`
  that every call returns):
  fairness is out of the prover's reach. The safety parts of `ShutdownReturns` and
  `CancelStops` are proved (`DownIsQuiet`, `CancelledIsQuiet`);
* the three properties of the runs that expect a violation, which do not hold.

Every other property of the runs is a theorem.

## 5. Plan

The modules were written in the order of the table in section 2: the mailbox and the pool
under everything, then the context, the event stream, the remote layer, the cluster and the
parts around them, each with its run first and its proofs after. What could follow: a
composition of `Channel` with `Endpoints`, so that the loss which a channel announces is the
event that ends a watch, and a refinement of `Channel` to an abstract lossy, ordered link,
for which `ChannelInv` is the invariant.

## 6. Not modelled

`ReenterAfter`, `Capture`/`Apply` and `Continuation` of a context; `Forward`, which returns
before it sends; destruction of objects at process exit (a pool destroyed while its detached
workers run). The operations of a future, as no state of the program contains one. Guardians:
`GetGuardianPID` always returns nullptr. Merging gossip (`Informer::ReceiveGossip`,
`MergeState`) and `Informer::SetState`, which nothing calls. The event-sourced actor of
`examples/persistence_example.cpp`, whose persistence calls are comments. Identity lookup and
the PID cache: the lookup spawns through `Remote::SpawnNamed`, which always answers
not_supported, and the cache is made by `Cluster::Initialize`, which nothing calls. The cluster
provider, which polls a stub and calls a callback nobody sets. Keys and consensus checks of the
gossip, and its targets, to which nothing is sent. The JSON serializer, a placeholder.
Extensions, captured contexts, PID sets, metrics, logging and platform code keep no state that
another part relies on; the other examples and the benchmarks only call what is modelled.
