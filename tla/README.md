# A verification of perfkit

perfkit is a remote performance monitor in C on GLib. An *agent*
(`perfkit-agent/`, `pka-*`) runs on the machine that is watched, samples it, and
delivers manifests (what a sample has in it) and samples over DBus. A *client
library* (`perfkit/`, `pk-*`) gives programs typed access to an agent; a shell, a
graphical program and a profiler are built on it.

This directory has TLA+ models of the parts of that program where order,
concurrency and lifetime decide whether it is correct, TLC configurations that
check them on small instances, and TLAPS proofs of what matters most for any
instance. A source file is named below by its path in the repository, with a line
where one matters.

Contents

1. The system
2. The models, and how they correspond to the code
3. The runs
4. Bounds
5. Fairness
6. Proofs
7. Where the code disagrees with what it says
8. What is not modelled
9. Plan

## 1. The system

### Threads

The agent has a **main thread** that runs a GMainLoop. Every RPC handler, every
queued emission (`g_timeout_add(0, ...)`, run in the order they were queued) and
every child watch runs there, one at a time, to its end. It has one **shared
sampling thread** (`pka-source-simple.c`) that samples all cooperative sources, and
one **dedicated thread** per source that asks for one; none in the repository does.
The client library may be called by any **application thread**, and dispatches
what it receives from the default main context.

### Components

**Channel** (`perfkit-agent/pka-channel.c`).
State: READY, RUNNING, MUTED, STOPPED or FAILED; an array of sources; the target, pid,
`pid_set`, `kill_pid` and exit status of the process it watches. Operations: the
setters, `add_source`, `start`, `stop`, `mute`, `unmute`, and a child watch that
stops the channel. It notifies its sources by calling them, and a client follows it
by the signals `source-added` and `source-removed`.
Hard: `start` notifies the sources after it has given up its mutex; the inferior
may exit at any time; a pid outlives its process; a stopped channel starts again.
Correct if: no source runs in a channel that is not started, every source of a started
one does, the channel never loses sight of an inferior, no attached process is killed,
an exit ends the run.

**Source delivery** (`pka-source.c`, second half of `pka-subscription.c`).
State: the cached manifest, the array of subscriptions, the running flag, all under
a reader/writer lock; the handlers of each subscription under another. Operations:
add and remove a subscription, deliver a manifest, deliver a sample, five
notifications. The main thread makes the former and the notifications, the sampling
thread the deliveries.
Hard: adding a subscription takes the lock twice, publishing a manifest takes it
twice, and everything may happen in between.
Correct if: nothing is delivered to a subscription after its removal, no manifest
is lost or goes backwards, no sample is read with the wrong manifest.

**Sampling control** (`pka-source.c`, `pka-source-simple.c`, with the channel).
State: per source its running flag, its queue of events on the main loop, and how
often it is in the list the shared thread samples. A source is attached to that list
when it is started or unmuted, detached when stopped or muted. Three parties mute:
a client mutes the channel, a source that starts unobserved mutes itself, and a
source that loses its last subscription does.
Hard: the events are emitted later than the state changes, nobody counts mutes, and
the list takes a source twice.
Correct if: an observed source of a running channel is sampled, an unobserved one
is not, and one that is stopped is not.

**Shared sampling thread** (`pka-source-simple.c`).
State: the list of sources, sorted by the time each is due, a mutex, a condition.
The worker sleeps until the first source is due, samples what is due, and sorts.
Hard: the condition has no predicate of its own; a pass ends at the first source
that is not due, which is right only while the list is sorted, and the pass itself
changes the order.
Correct if: no wakeup is lost, it never sleeps past a due source, no due source is
skipped, every listed source is sampled.

**Subscription membership and registries** (`pka-subscription.c`, `pka-manager.c`,
`pka-source.c`).
State: the registries of the manager; each subscription's trees of sources and of
channels; the entries of sources' arrays; reference counts; signal handlers that
hold a bare address. Operations: create and remove, join and leave, directly and
through a channel.
Hard: one membership is kept in four places that are counted in different ways.
Correct if: what is held is alive, what is listed is observed, a followed channel's
sources are observed, and what has been left is silent.

**Listener RPC layer** (`pka-listener.c`), on the registries of `pka-manager.c`.
State: channels, sources, subscriptions and plugins by number. Each procedure is an
`_async` that completes at once and a `_finish` that finds the objects by number,
calls one operation, drops the references and announces what was made or removed.
Correct if: whatever calls were made in whatever order, a source is attached in one
place, the object paths are those of the registries, and nothing runs after a shutdown.

**DBus listener** (`listeners/pka-listener-dbus.c`).
State: the object paths, a table of peers with their private connection, a table of
delivery handlers that the sampling thread looks up. It finds the procedure for a
message among 52, reads the arguments, and answers.
Hard: two files of thousands of lines agree member by member on names, types and
order; the table is read without its lock; a handler may be replaced while it delivers.
Correct if: every argument and every result arrives as it was given; a delivery reaches
the handler set last, or none.

**Client connection** (`connections/pk-connection-dbus.c`, first part).
For every procedure an `_async` that writes the message and a `_finish` that reads the
reply; a `DBusPendingCall` with a time-out, a cancellable.
Hard: the agent ends, replies come late, callers cancel, at any point of a call.
Correct if: a caller is told the outcome of its own call, performed at most once and in
its turn, and every call ends.

**Client objects** (`perfkit/pk-channel.c` and five more): methods that pass a number
and arguments to the connection, and keep nothing else.

**Encoding** (`pka-encoder.c`, `pka-manifest.c`, `pka-sample.c`, `pk-manifest.c`,
`pk-sample.c`, `cut-n-paste/egg-buffer.c`, `egg-time.h`, the **source plugins**).
Pure: a manifest and samples to bytes and back. Samples carry their time relative to
the manifest's, in the units of the manifest's resolution; rows carry their type in the
manifest only.
Hard: widths, signs, a clock that is set back, and plugins that have to append what
they declared. Correct if: decoding inverts encoding, times are told to the resolution
and keep the order of the clock.

**Synchronous client calls** (`perfkit/pk-connection.c`).
State per call: a mutex, a condition, `completed`. About sixty calls start the
asynchronous call and wait: by iterating the default main context if the thread can
acquire it, by blocking on the condition if it cannot.
Hard: calls nest in the iterations of other calls; the owner of the context changes;
a reply may come before its caller waits.
Correct if: one thread iterates the context at a time, no completion is lost, no
thread waits for itself, every call comes back. (One call does wait for its own thread:
section 7.)

**Client handlers and delivery** (`connections/pk-connection-dbus.c`, last part).
State: a table of handlers under a reader/writer lock, the private connection that the
agent opens back to the client, the manifests kept to decode samples with.
Hard: handlers are set by the application's thread and used by the main loop's, which
gives the lock up in between; the delivery path is set up in several messages.
Correct if: a message finds its handler, a sample is decoded with the manifest it was
encoded with, a manifest that was sent reaches the program.

**Agent process** (`perfkit-agent/main.c`): the registries it starts with, SIGINT, the
shutdown.

**Dedicated sampling thread** (`pka-source-simple.c`), **command shell**, **graphical
programs**, **bindings**: section 8.

### How they interact

    client program --sync call--> PkConnection --DBus--> listener --RPC--> manager
                                                                    |
            +-----------------------+-----------------------+------+
            v                       v                       v
         channel --notify--> source --add/remove---- subscription
            ^                 |  ^                          |
            |          events |  | deliver manifest,       | handlers
       child watch            v  | sample (reader lock)    v
         inferior         shared list <--- worker      DBus to client

`PROJECT.json` lists 40 hazards of this code, each at the line where it bites and
with the properties that watch it, and for those that have none the reason.

## 2. The models, and how they correspond to the code

| module | models | composed with |
| --- | --- | --- |
| `PkaSource` | one source, main thread against sampling thread | |
| `PkaChannel` | one channel, its sources' running flags, its inferior | |
| `ChannelLifecycle` | what a channel promises its sources (abstract) | refined by `PkaChannel` |
| `PkaSampling` | channel, events, automatic mute, shared list | EXTENDS `PkaChannel` |
| `PkaSharedWorker` | the worker, its list, its condition, the clock | |
| `PkaMembership` | subscriptions, sources, channels, registries, references | |
| `PkConnection` | synchronous calls of the client | |
| `PkValues` | the values both ends know | |
| `PkObjects` | methods of the client's objects | EXTENDS `PkConnectionCalls` |
| `PkConnectionCalls` | which slot a procedure of the library calls | |
| `PkConnectionDBus` | a call's message, and what is made of its reply | EXTENDS `DBusMessages` |
| `DBusMessages` | messages as libdbus writes and reads them | |
| `PkaListenerDBus` | the procedure a message asks for, and its reply; object paths | EXTENDS `DBusMessages` |
| `PkaListener` | the 52 remote procedures in the agent | EXTENDS `PkaAgent` |
| `PkaAgent` | the registries and the operations on what is in them | |
| `PkRpc` | calls from program to agent and back | EXTENDS the eight above |
| `AgentService` | what the agent promises its callers (abstract) | refined by `PkRpc` |
| `PkHandlers` | the client's handlers, its private connection, its dispatch | |
| `PkDelivery` | manifests and samples from the sampling thread to the program | EXTENDS `PkHandlers` |
| `EggBuffer`, `EggTime` | the varint buffer; differences and sums of times | |
| `PkaEncoder`, `PkDecoder` | the two ends of the encoding | EXTEND those |
| `PkEncoding` | a plugin, its encoder, the client's decoder and the clock | EXTENDS `PkDecoder` |
| `PkaSourceProofs`, `PkaSamplingProofs` (with the channel's), `PkaMembershipProofs`, `PkaSharedWorkerProofs`, `PkRpcProofs`, `PkConnectionProofs`, `PkDeliveryProofs`, `PkEncodingProofs` | proofs | EXTEND the module they are about |
| `MC...` | instances for TLC | |

`PROJECT.json` "map" gives, for every definition that models code, the lines it
stands for. Throughout, an action named like a function is that function. A call
that the code refuses, and a call that finds nothing to do, is a stuttering step and
has no action. Definitions marked *faulty* are bugs the code does not have: put in
the place of the definition next to them, they make a property fail, which shows
that the property says something about that line of the code.

### PkaSource

`manifest` is a version number for `priv->manifest`; `subscriptions` the array,
with repetitions; `running`, `events`, `handlers` as in the code. `readers` is the
reader side of `priv->rw_lock`; a section under the writer lock excludes all others
and so is one step, while a section under the reader lock has one step per entry
fetched and per entry handed over. `main` and `worker` hold the call each thread is
in and its local variables. A waiting writer holds new readers off, as
`GStaticRWLock` does. `seen` and `late` are history: what a handler was last told,
and which members' handlers were set after they had joined (nobody promises those
the manifest they missed).

`AddSubscription`, `AddLocked`, `AddReaderLock`, `AddRecheck` are the parts of
`pka_source_add_subscription` between its lock operations; `DeliverManifest`,
`PublishLocked` and the walk (`WorkerReaderLock`, `FetchEntry`, `HandToEntry`,
`EndWalk`) those of `pka_source_deliver_manifest`, and so on.

### PkaChannel and ChannelLifecycle

Variables are the fields of `_PkaChannelPrivate`, the running flag of each source,
the kernel's view of each process (free, alive, zombie, reaped), the child watches,
and what each thread still has to do after an unlock (`calls`). A method is one
step, since it holds `priv->mutex`, except that `start` ends with a step of its own
that notifies the sources, and the child watch with one that stops the channel.
`notice` is the notification of the last step, for `PkaSampling` to act on. The
calling threads are a parameter: the agent has one, the documentation allows more.
`SetPid` stores any pid, 0 and that of a process spawned before among them. `late` is
history: the sources that were added to the run that is on.

`ChannelLifecycle` says what sources may rely on: runs that begin and end for all
of them at once, a source that joins a run started with it at once, pauses in between,
attempts that come to nothing. The code does not start a source that joins a run
(section 7). The refinement exempts those sources by name: the mapping
(`members <- sources \ late`) counts one as a member when that run has ended.

### PkaSampling

Each step of the channel is conjoined with what its sources queue in that step
(`ChannelStep`); then there are the subscriptions of a source (only their number
matters), the emission of the oldest event on the main loop (`Emit`, with the class
handlers of `pka-source-simple.c`), the removal of a source by the manager, and a
sampling by the worker. `attached` counts a source's entries in the shared list.

### PkaSharedWorker

`list` is the array, `due[s]` how far `priv->timeout` is ahead of the clock.
`priv->timeout` and the wait's deadline are absolute times in the code; only their
distance from now matters, so `Tick` decreases them. The worker's program counter
says whether it holds the mutex (`next`, `pass`, `invoke`), waits, or has been woken
and waits for the mutex. `g_ptr_array_sort` is any sorted permutation, as it is not
stable. Waits may end for no reason.

### PkaMembership

Each action is an RPC from finding the objects to dropping the references. `refs`
is the reference count of a subscription, `observed` and `followed` its trees,
`entries` its entries in the array of each source, `connected` the handlers of
`source-added` it has in each channel. `left` is history: what the client has taken
out and not added again. Sources are finalized when nothing keeps them, and drop
their array without releasing what it holds, as `pka_source_finalize` does.

### PkConnection

A synchronous call is made where application code runs: outside of the library, in
a callback dispatched by another call's iteration, in a handler of `state-changed`.
So each thread has a stack of frames, callers and signallers. A call's record has
its place in `pk_connection_sync_wait`, what has become of its reply, and
`completed`. `owner` owns the default main context; `loop` says whether Main runs
the main loop. Setting a subscription's handlers is a kind of its own (`AtOnce`): its
asynchronous half completes in the caller's frame, so that the call begins with two
frames, of its caller and of its signaller. A message to no connection is `lost`, for the code only warns; a
caller woken for no reason leaves its call `abandoned`, for `g_cond_wait` is not in
a loop.

### PkRpc and the modules below it

A procedure passes eight functions. In the client a method of an object (`PkObjects`)
calls a function of the library (`PkConnectionCalls`), whose `_async` writes a message
(`PkConnectionDBus.Request`). In the agent a handler per interface finds the member and
reads the arguments (`PkaListenerDBus.Dispatched`), an `_async`/`_finish` pair does it
(`PkaListener`) on the registries (`PkaAgent`), and a callback writes the reply
(`PkaListenerDBus.Answered`), which the client's `_finish` reads
(`PkConnectionDBus.Result`). These are operators with the functions' names, one per
procedure: the arguments and results they take, in the order in which they take them,
are what each side knows of the other, and nothing else makes the sides agree. An
operation of `PkaAgent` takes the agent and returns it changed, with what it answers or
the error, and with what the listeners are told.

`PkRpc` has the processes. `bus[c]` is what the agent has not yet taken of a connection,
`call[c]` the stage of a call; `Invoke` is an `_async`, `InvokeMethod` a method of an
object the library has made itself (whose connection is NULL), `Serve` a message in the
agent's main loop, `ReplyArrives` the pending call's notify, `Finish` the callback and
`_finish`. `CallTimesOut` is libdbus's time-out, `pk_connection_dbus_cancel` the
cancellable, `InferiorExited` the child watch, `AgentQuits` SIGINT and the shutdown. The
registries start as the calls of `Setup` leave them.

`AgentService` has callers, what each has asked for and not been told, and the agent: no
library, no bus, no messages. `askedBar` and `queueBar` are its state as `PkRpc` has it.
In it a call's outcome is that of its own, single performance with the arguments that
were given, and no call is turned away. What the introspection data and the header
promise is `Promised` in `PkRpc`: a new subscription has the buffer that was asked for, and
`pid_set` is that of the channel that was asked. The code keeps less, so the service has
two parameters for what is exempted, and `PkRpc` names it:

* `Instead`, the other arguments that a call may arrive with: zeroes for AddSubscription,
  RemoveChannel and ChannelGetPidSet (`Unread`), whose arguments the agent drops; the
  empty string for a null target or directory.
* `Disconnected`, the calls that may be turned away: methods of objects, as long as the
  objects are constructed without a connection. Of those nothing else is shown by the
  refinement; `MethodsPassOn` is the theorem that with a connection each method would make
  its call with the arguments it was given.

And a caller may be told the empty string or vector for one that is null (`Strings`). So the
refinement fails if any other of the 52 procedures loses, swaps or retypes an argument or
a result on any of the paths a reply can take, and for those three if anything arrives
but what was given or zeroes.

### PkHandlers and PkDelivery

`PkHandlers` is the client: the application's thread connects (`Connect`), sets handlers
and registers their paths, and the main loop's accepts the agent's connection and
dispatches what arrives, one lock section at a time: finding the handler, keeping the
manifest, telling the program. A handler is a number; a replacement frees the one
before. What a manifest says is its version, and a sample carries the version it was
encoded with, which no code reads.

`PkDelivery` adds the agent: its main thread serves SetDeliveryPath and SetHandler, its
sampling thread walks the subscriptions, looks a handler up without the table's lock and
sends. `out` is what libdbus has queued: the agent does not run this connection in its
main loop, so that it is written only while something is sent. `undefined` is set when
freed memory is used; from then on nothing is said. `missed` and `told` are history.

### EggBuffer to PkEncoding

Pure functions on sequences of bytes. `WriteUint` is a recursive function; a loop of the
code is a function of the number of its turn (`Upto`, `Turn`), with as many turns as the
bytes allow; the rest is composed with `Then`, which goes on with what is left of a buffer,
or fails. Numbers have a width: a byte holds `Base`, a word `Word`, a long word
`LongWord` values, all parameters, and what does not fit wraps as in C. `PkEncoding` has
a plugin's rows, each with the type its manifest declares and the function it appends
with; the four plugins of the repository are given as they are, row by row. Its state is
the manifest, what the client has kept of it, the last sample and what the client was
told, and the realtime clock, which may be set at any time.

## 3. The runs

Every property of a passing run has a mutant in `PROJECT.json` that it catches.

| run | module, configuration | what it shows |
| --- | --- | --- |
| `source_delivery` | `MCPkaSource`, `PkaSource.cfg` (359 256 states) | `FetchedIsMember`: no delivery to a removed subscription. `NeverWrongManifest`: no sample meets a manifest other than its own. `NoManifestLost`, `ManifestReachesMembers`: a member whose handler was there when it joined is told the manifest, although both threads give up the lock half-way. `ManifestsInOrder`: never an older one after a newer |
| `channel` | `MCPkaChannel`, `PkaChannel.cfg` (158 552) | For the calls of one thread: `NoSourceLeftRunning`; `InferiorIsKnown`: until a caller sets a pid, no process that the channel spawned is alive but the one in `priv->pid`; `AttachedIsSpared`; `ExitStopsChannel`; `KeepsLifecycle`: the channel implements `ChannelLifecycle`, but for sources added while it runs |
| `kill_after_reap` | `MCPkaChannel`, `PkaChannelKill.cfg` | violation: a reaped pid is killed |
| `sampling` | `MCPkaSampling`, `PkaSampling.cfg` (110 352) | `ObservedIsAttached`, `ObservedGetsSampled`: however the mutes mix, an observed source of a running channel is sampled. `NoPileUp`: its entries in the list do not grow. `AutoMuteIsExact`: without mutes by clients it is in the list exactly when it runs and is observed |
| `shared_worker` | `MCPkaSharedWorker`, `PkaSharedWorker.cfg` (5 300) | `WakesInTime`, `NoLostWakeup`, `PassIsComplete`, `ListedGetsInvoked` |
| `membership` | `MCPkaMembership`, `PkaMembership.cfg` (749 107) | `HeldIsAlive`: no use after the last reference. `ListedIsObserved`, `ListedChannelTells`: what a client can list is true. `FollowsChannel`: sources a channel has and those it gets later are observed alike |
| `client_calls` | `MCPkConnection`, `PkConnection.cfg` (172 436) | `IteratorOwnsContext`, `NoLostSignal`. `OnlyHandlersWaitForThemselves`: the call that sets handlers waits for its own thread, always, and no other call does. `LoopServesCalls`: with a main loop every call comes back, but for those that are lost or set handlers and what is below them on a stack, and for all if the main thread sets handlers |
| `rpc` | `MCPkRpc`, `PkRpc.cfg` (111 499) | `IsService`: each of the 52 procedures, from the program to the registries and back, is the abstract service's but for what section 2 names, and so is every order in which calls are sent, performed, answered, timed out, cancelled and cut off by the agent's end. `PathsAreRegistries`: a path is registered for exactly what the lists show. `AnswersAsDeclared`: answers have the types of the introspection data. `AttachedOnce`: a source is in one channel's array, once. `ShutdownStops`: no channel runs on. `CallsEnd`: every call ends |
| `delivery` | `MCPkDelivery`, `PkDelivery.cfg` (529 890) | `MessagesFindTheirHandler`: nothing arrives that has no handler or path. `DecodedWithItsManifest`: a sample is decoded with the manifest it was encoded with, unless that one was lost. `ToldBeforeSampled`: by a handler that has been called with it. `ManifestReachesProgram`: what is sent gets there, although nothing but more sending writes it out |
| `handler_replaced` | `MCPkDelivery`, `PkDeliveryReplaced.cfg` | violation: a handler is freed under the main loop |
| `encoding` | `MCPkEncoding`, `PkEncoding.cfg` (162 810) | `ManifestSurvives`: what is declared is read. `SampleSurvives`: what is appended as declared is read, or, with a row of a type that no client reads, refused as a whole. `TimeWithinResolution`: times are told to the resolution. `RoundingIsMonotone`: and in the order of the clock, from the manifest's time on |
| `plugin_rows` | `MCPkEncoding`, `PkEncodingPlugins.cfg` | violation: two plugins do not append what they declare |

A module also has a type invariant. It is a property of no run (it says little of the
code), and the proofs of section 6 begin with it.

Deadlock is checked except in `PkaMembership` (subscription and source numbers are
used once, so a history ends), `PkConnection` (an application that has made its calls
may do nothing more, and one that waits for a lost reply can do nothing) and `PkRpc`
(programs make a number of calls, and the agent may have ended).

## 4. Bounds

* `PkaSource`: two subscriptions, three entries, two manifests, two queued events.
  Two manifests are what it takes for one to be held while another is published;
  three entries have a duplicate next to another subscription, and let
  `g_ptr_array_remove_fast` move an entry over the one removed. The events decide
  nothing here: the bound leaves room for what a call queues.
* `PkaChannel`: two sources (one that has joined and one that has not), two pids (so
  that a second spawn is possible, as it is after `set_pid(0)`), and an external
  process. A channel has no counters; the instance has no other bound.
* `PkaSampling`: one source, for sources share nothing but the channel; no process
  to spawn, for the exit of an inferior does nothing but stop, which calls do too;
  two subscriptions; four queued events, with room for the two that the notification
  still owed by a start may queue. Longer queues only delay what the class does.
* `PkaSharedWorker`: frequencies of one and two ticks, so that sources are due
  together and apart; three entries, so that one source is there twice; the worker up
  to three ticks late.
* `PkaMembership`: two subscriptions, two sources, one channel: a call of the channel
  reaches several subscriptions and a call of a subscription several sources. Two
  entries of a subscription in a source, the least with which "directly and through
  a channel" happens; five references are the registry's with all
  four entries, or with three entries and a leaked one. Subscriptions and sources are
  symmetric; the run has no liveness.
* `PkConnection`: two threads and three calls: two that nest and one elsewhere, or
  three deep.
* `PkRpc`: an agent with two channels, one of them running an inferior, two sources, one
  attached, and two subscriptions, one of them removed. One program makes any one call
  of the 52, with arguments that find something and arguments that do not; another
  starts a channel, twice, so that its own time-outs leave messages behind one another
  and what the first asks about changes. Calls meet no other call's data on the way, so that two
  at a time show what more would; the proof needs no bound.
* `PkDelivery`: one source, two subscriptions, since handlers meet in the tables; the
  handler of one is replaced once; two manifests, to have one pending while a sample
  with the other arrives; one message unwritten and two on the wire, which is one of
  either kind on its way while the next waits.
* `PkEncoding`: digits of three bits, words of 10 and long words of 13, so that a number
  has up to four or five digits and its last is partial, as 7, 32 and 64 make it;
  2 ns to a microsecond and 4 µs to a second; resolutions of 1 to 16 µs; values at the
  edges (0, a digit's last, the next, the least and the greatest word); six instants,
  before, at and after the turn of a second, one of them far off. Rows: the four plugins' own,
  and every pair of row types, for rows are written one after another.

## 5. Fairness

Nothing requires a client to call, a source to deliver, or an inferior to exit.

* A thread that is in a call goes on with it: weak fairness of `MainStep` and
  `WorkerStep` in `PkaSource`, of `NotifyStarted` and `StopExited`.
* The reader lock is strong: writers hold a reader off again and again, but a
  leaving writer wakes the readers, and the main thread polls its clients between
  two calls.
* The main loop comes round to its sources: strong fairness of `InferiorExited` and
  `Emit`, which are enabled between calls only.
* The clock runs: strong fairness of `Tick`, which the bound on lateness disables
  while a source is very late. The worker gets the mutex, which the main thread
  holds for a moment only: weak fairness of its steps.
* `PkConnection`: threads run on; a pending call ends, by DBus's time-out at the latest;
  the owner of the context dispatches what is ready; an idle main thread runs its loop
  once the context is free.
* `PkRpc`: the agent's main loop takes messages, a caller's main loop reads what arrives
  and runs the callback. `CallTimesOut` has no fairness: no call needs it.
* `PkDelivery`: the main loops and the sampling thread run on. A started source keeps
  sampling, which is what writes out the messages before: strong fairness of
  `TakeSample`, which waits for the delivery before. A socket that is written to again
  and again takes everything at some time: strong fairness of a complete write.
* `PkEncoding` states no liveness.

## 6. Proofs

The proofs hold for every value of the constants that satisfies the named
assumptions of the modules (distinguished null values are not members of the sets,
frequencies are positive, bounds are numbers, calls are calls of procedures with the
number of arguments they have). Sets may be infinite.

### PkaSourceProofs

`SourceInvariant`: `Spec => []IInv`. No property alone is inductive:

* `FetchedIsMember` needs `ReadersAreInside`: the array does not change under the
  worker because a writer needs `readers = {}`, and the worker is in it.
* `NeverWrongManifest` needs `SeenIsKnown`: a handler is behind the manifest only
  while the worker has yet to reach its entry, and then no sample is handed over.
* That needs `WorkerHolds`: what the worker hands over is the manifest, as it is the
  only thread that publishes.
* `NoManifestLost` needs `MainHolds`: what the main thread holds is not newer than
  the manifest and belongs to a member; if it is older, somebody published after the
  entry was added, and the walk reaches it.

There is one lemma per conjunct, with one step per action; lemmas on the array
(`AppendEntry`, `RemoveFastEntry`, `MemberEntries`) say what appending and
removing do to its members. `SourceTypes`, `NoDeliveryAfterRemove`,
`SamplesMatchManifest`, `ManifestIsHandedOver` and `ManifestsStayInOrder` follow.

### PkaSamplingProofs

Of the channel, `ProcessInv`: a pid that is the external process was set (`pidSet`); until a
caller sets one, a pid is known once something was spawned, so that nothing is spawned
again, and nothing else that was spawned lives. From it `AttachedIsNeverKilled` and
`InferiorStaysKnown`, for any calling threads. Nothing is claimed of the number of
inferiors after a `set_pid`: `set_pid(0)` lets a start spawn a second one (section 7).

`RunInv`: only sources of the channel run, none runs unless the channel is started, and
none while the notification of a start is pending; nor is there a late source then. It holds for one calling
thread (`OneThread`), which is how the agent calls (section 7 has what two threads can do). From it `SourcesStopWithTheChannel` and
`ChannelKeepsLifecycle` (with late sources out of the mapping): a start maps to an abandoned attempt, its notification to
the beginning of a run, stop to its end, everything about the process to a stutter.

Of sampling, `SettleInv`, for any sources, subscriptions and queues of any length, and one calling
thread. The class of a source lags behind its running flag by what is queued, so that the
invariant is about where the queue *leads* (`Leads`): there is a way from the number of
entries the source has now through all its queued events to some number, never above two. A
call puts one or two events at the end and moves that number, an emission takes the first step
of the way and leaves it (`LeadsAppend`, `LeadsTail`); as the way is a function that
exists, no induction over the queue is needed. `Ends` says which numbers a source may
end at: two only in an unmuted channel and while it is observed, none in a muted one unless it is
observed, one at least where it is observed and not muted, exactly one or none while no client
has muted. With `RunInv` of the channel, which the retirement of a source keeps,
`ObservedSourcesAreAttached`, `EntriesDoNotPileUp` and `AutomaticMuteIsExact` follow.

### PkaSharedWorkerProofs

`WorkerInv`: the list is in order except during a pass that has invoked something;
then the entries still to come are in order, provided none is there twice, because
an invocation moves only the timeout of an entry that has been passed.
`SleepsNoLonger`, `WakeupsAreKept`, `PassesAreComplete` follow. The clock keeps
order because it moves every timeout alike (`LaterIsMonotone`).

### PkDeliveryProofs

`DeliveryInv`, for any subscriptions and sources, any number of manifests and of
replaced handlers, and queues of any length. Its heart is `ManifestsGoBefore`, over the
messages on the wire followed by those the agent has not written (`Queue`): who has the
manifest the client has now and is given the queue up to a sample, has the sample's manifest when it
gets there, or none (`Reads`); and the same with the last published version at the end of
the queue, except for a subscription that the sampling thread has yet to come to with that
manifest (`Owed`). A step leaves the queue as it is (`SameQueue`), takes its first message
(`FirstTaken`) or adds one (`OneAdded`), and a manifest that is lost takes its
subscription and source out of the claim.

The rest is what that needs. `HandlersAreKnown`: a SetHandler on the bus, or being served,
or served, is for a path that is registered and a handler that is in the table.
`SentWhenSet`: nothing is sent to a subscription before that, which is why skipping one
owes it nothing. `WalksWithLast`: what the sampling thread hands round is what was last
published. `KeptIsTold`: the kept manifest and the one the program was called with differ
only between the two locks of `dispatch_manifest`, and only while the handler is the one
that was looked up. `ArrivalsAreHandled`, `SamplesAreDecoded` and `ManifestIsToldFirst`
follow.

### PkEncodingProofs

For any widths of digits, words and floats, any resolutions, plugins, values and clock,
as long as what is counted in a word fits in one (`SizeAssumption`) and the clock is not
before the Epoch (`ClockAssumption`).

`EncodingInv` says that what the client keeps is what it reads of the plugin's manifest
(`ManifestIs`), and what it was told is what it reads of the last sample with that
(`SampleIs`); it is inductive by itself, `EncodingIsKept`. The work is to know *what* is read,
from the bottom up, each time in front of any bytes that may follow:

* a number: `VarintSurvives`. `WriteUintDef` has to show first that the recursive function
  has a solution, and `ValueOfWritten` goes by `StrongInduction` over the quotients.
* a tag, a sign, a string, a field of a message: `TagsAreKept`, `SignsAreKept`,
  `UintFieldSurvives` and the like; a row (`RowSurvives`) and a value that is written as its
  row is declared (`ValueSurvives`).
* any number of rows or of fields (`RowsSurvive`, `FieldsSurvive`): `Pieces` are put one after
  the other, of which a loop takes one in each turn, and `TurnsSuffice`. A row of a type that
  is not read, `BOOLEAN`, fails in its turn and what fails stays failed (`FieldRefused`,
  `FieldsRefused`).
* a message: `ManifestDecoded`, `SampleDecoded`.

`SubtractIsExact`, `AddIsExact`: with or without a carry, a difference and a sum of times are
exact. `ToldTimesAreClose`, `ToldTimesKeepOrder`: from those and the two divisions (by a
microsecond's nanoseconds and by the resolution), the time a client computes is early by
less than a unit and a microsecond and never late, and rounding keeps order, under `Sound`;
and `TimesAreSound` shows that the system's times are, once a sample is not before its manifest.
`ManifestsSurvive`, `SamplesSurvive`, `TimesWithinResolution` and `RoundingStaysMonotone`
follow. The last says that of two samples, neither from before the manifest's time, the one
with the later clock is not told the earlier time; that is not the order of taking, if the
clock was set back in between (section 7).

The provers know too much of `\o` to be of use with more than two of them, so the proofs
write `Cat`, of which they know two lemmas. As the induction theorems cannot be used, induction
is over a set of numbers (`LeastNumber`, `Descent`), as in `PkRpcProofs`.

### PkaMembershipProofs

`MembershipInv`, for any subscriptions, sources and channels. `HeldIsAlive` compares a count
of references with the number of a subscription's entries in all sources, so that the
proof is one of cardinalities: a call that adds adds a set of entries as large as the
references it takes (`ObserveEffect`, `AddedEffect`), one that takes out takes out a set as large
as the references it drops (`ForgetEffect`), and finalizing a source only takes entries
away (`FinalizeEffect`). That references never fall below none (`MembershipTypes`) needs
it. The four views agree by their own invariants: `ListedIsObserved` because what a subscription
lists keeps a source from being finalized; `FollowsChannel` from `ListedChannelTells`,
since a source added to a channel reaches whom the channel's signal reaches; and `Untouched`,
for a number not given yet has neither references nor handlers when it is given.

### PkConnectionProofs

`CallInv`, for any threads and any number of calls, nested to any depth. What
`pk_connection_sync_wait` needs to be right is spread over several frames of several
threads, so that the invariant relates calls to stacks: every frame on a thread's stack is of a
call that exists, and a caller's frame is on the stack of the thread that made the call (`Types`); a
call that is locking or blocked is at the *top* of its caller's stack, or one that sets
handlers just below its own signaller (`BlockedIsOnTop`), so that nothing its thread runs on
top of it, such as a callback that signals, can coincide with it; a call that sets handlers
stays where it has begun, with its mutex locked (`HandlersStayLocked`); a call that iterates is somewhere in the stack (`IteratesInFrame`), which is why
the context it owns is not given up while it does. `IteratorOwnsContext` is part of the
invariant. `NotSignalledYet` holds because the mutex is held from the beginning of
the call to the wait, and the signaller cannot get it. `OneIterator`,
`CompletionsAreKept`, `HandlersWaitForThemselves` (exactly the call that sets handlers
deadlocks with its own thread, and always) and `NoEarlyReturn` follow.

### PkRpcProofs

For any callers, calls, plugins, numbers of processes and calls made before the start.

What the agent does is proved procedure by procedure, 52 times, of the operators the module
is made of. `AgentOK` says what its objects are: records with their fields, numbered
without a gap, and a source in the array of the channel that it keeps, once; each
procedure keeps it and tells the listener of just what enters or leaves a registry
(`RegistryPaths`). A call's message is read by the agent as the call that was meant
(`Arrives`: writer and reader of the arguments are inverse, but for what the agent does not
read and for null strings), and what its callback writes has the types of the introspection
data and is read by the caller's `_finish` as it was stored (the lemmas on the way back).

`Inv` is then about the processes. `AnswersAsDeclared` is not inductive, for a reply says
nothing of the message it answers: `StageFits` has for each stage of a call the slot it was
sent with and, once it is replied, types that fit *that* procedure; and as the reply comes
from the last message on the connection, `CallerFits` says that this one is the caller's, also
behind messages of calls that have timed out. `PathsAreRegistries` needs that what the
procedures announce is all that changes the registries, and that channels stay in theirs as
long as the agent runs; `AttachedOnce` needs `Attachments`, which goes both ways, from the
array to the source and back; `ShutdownStops` needs every number below the next to be a
channel's, since the shutdown walks the registry. The state of the start is what any number of calls has left,
by induction over it: as the induction theorems cannot be used, `LeastNumber` takes a least
element from the well-foundedness of finite sets, and `Descent` is induction with a *set*.
`TypesHold`, `PathsHold`, `AnswersHold`, `AttachmentHolds`, `ShutdownHolds` follow.

`Refinement`: `Spec => IsService`. `AgentService` is given the procedures themselves as
parameters, in the form in which they are promised, so that what is proved is what lies
between, up to the exemptions named in section 2. `PerformsAsPromised` is the step from the
agent's procedures, run on what it reads of the arguments, to the promised ones, run on the
arguments that were given or on those `Instead` names. Every step of `PkRpc` is one step of it
or none under `askedBar` and `queueBar` (`InvokeIsAsk` to `NextIsNext`). A reply's arrival
and the end of a call that was not its caller's last are stutters; the rest needs
`Inv`, for what a caller is shown depends on the slot that its call was sent with.

`MethodsPassOn` is about the 36 methods of objects, of which the refinement says nothing but
that they are turned away: given a connection, each makes the call of its name, with the
number of its object and the arguments it was given.

### Only model-checked

Liveness (`ManifestReachesMembers`, `ExitStopsChannel`, `ObservedGetsSampled`,
`ListedGetsInvoked`, `LoopServesCalls`, `CallsEnd`, `ManifestReachesProgram`), which is
beyond the prover. Every invariant and every action property that a passing run checks has
a theorem. No module declares a RECURSIVE operator.

## 7. Where the code disagrees with what it says

With a run that shows it:

1. `kill_after_reap`. The child watch has reaped the inferior when it calls
   `pka_channel_stop`, which kills the pid all the same (`pka-channel.c:876`). By then
   the kernel may have given it to another process.
2. `handler_replaced`. `dispatch_manifest` gives the lock up between looking a handler
   up and using it (`pk-connection-dbus.c:218`), and a program that sets another in
   another thread frees it in between. The comment at 156-159 says that no locks should
   be necessary, for only the main loop touches handlers.
3. `plugin_rows`. `sched` declares its counters INT and appends them as UINT
   (`sources/sched.c:192`, 219), `netdev` the other way round (`sources/netdev.c:131-146`,
   104). Signs are folded in by one and out by the other: a `sched` counter of 7 is told as
   -4, and `netdev`'s are told doubled.

Seen while reading or modelling, without a run:

*Channels and sources*

* With two calling threads, `pka_channel_start` notifies after its unlock
  (`pka-channel.c:815`) and a stop can overtake it. The agent calls from one thread;
  the documentation says the object is thread-safe (`pka-channel.c:111`). `PkaChannel`
  takes the threads as a parameter; the run has one and the proofs assume one, so that
  no property catches this.
* `pka_channel_set_pid` stores any pid (`pka-channel.c:397-400`), 0 too. With `kill_pid`
  off, a start, a stop, a start that a source refuses, `set_pid(0)`, `set_target` and a
  start spawn a second inferior while the first one lives. `InferiorIsKnown` is
  stated until a caller sets a pid.
* A source added to a started channel is not started (`pka-channel.c:530-531` and
  `pk-connection.c:259-261` say it is at once). `KeepsLifecycle` exempts it by name. It
  does not run, so that it drops the stop (`pka-source.c:611`): after a mute and an
  unmute, which attach it, it is sampled in a stopped channel.
* A restart does not clear `priv->pid` (`pka-channel.c:730`): it spawns nothing and
  tells the sources of a process that has gone.
* The first subscription to a source of a muted channel unmutes it
  (`pka-source.c:490`); `pka-channel.c:900` says samples are dropped while muted.
* Between the locks of `pka_source_add_subscription` (`pka-source.c:494`) the new entry
  may be handed a sample before any manifest, which `pka_subscription_deliver_sample`
  encodes with an uninitialised time.
* `cleanup` is emitted when a source is muted, too (`pka-source-simple.c:494`; the
  comment at 758-761 says after it has been stopped).

*Subscriptions*

* A source added directly and through its channel has two entries in the source and one
  node in the subscription: a removal leaves the other entry, and the subscription goes on
  being delivered to (`pka-source.c:539`).
* Removing a subscription leaves its handlers in the channels, with its address
  (`pka-subscription.c:277`), and its entries in the sources
  (`pka-manager.c:1120`), which deliver to it for good.
* SetHandler without a delivery path keeps a reference
  (`listeners/pka-listener-dbus.c:4262`).
* The muted state of a subscription is read by nothing (`pka-subscription.c:492`).

*Remote procedures*

The first three and the one of null strings are exempted from `IsService`, by the names
given in section 2.

* `pka_listener_channel_get_pid_set_async` does not keep the channel
  (`pka-listener.c:781`), so that the answer is channel 0's.
* AddSubscription's arguments are not read (`listeners/pka-listener-dbus.c:1617-1631`),
  and are declared `uu` but sent `ii`; RemoveChannel's is not either (1709-1721), its
  procedure does nothing and answers that it did. Monitor and drain are ignored.
* The client's objects have no connection: `set_property` does not know the property, and
  every method of theirs warns and returns FALSE (`pk-channel.c:2784`).
* A NULL string arrives as "", in either direction: a target or a directory that has been
  set cannot be taken back.
* Cancelling a call before its reply fails the assertion on its result and ends the
  program (`pk-connection-dbus.c:496`; 480-481 and 504-505 say otherwise).
* SetHandler is sent without asking for a reply, and its `_finish` is always TRUE.
  SetEncoder calls an operation that is defined nowhere; `encoder_get_plugin` answers
  TRUE with NULL.
* A message that cannot be sent leaves the call without its pending call
  (`pk-connection-dbus.c:1112`): it never completes. After a disconnect the state
  stays CONNECTED, so that a connect is refused. Both are in `PkConnection`.
* The agent's SIGINT handler calls `g_main_loop_quit` and `g_print` (`main.c:51-56`).

*Synchronous calls*

* A thread blocks because another call owns the context (`pk-connection.c:196`); that
  call returns, and if no main loop runs nobody dispatches. In the model; `LoopServesCalls`
  is about calls while the main loop runs.
* `g_cond_wait` is not in a loop (`pk-connection.c:197`).
* The synchronous `subscription_set_handlers` completes inside of its asynchronous
  call and waits for its own mutex (`pk-connection-dbus.c:8997`). It never comes back, nor
  does what it is nested in, and in the main thread it ends all dispatching:
  `OnlyHandlersWaitForThemselves` says that exactly this call does so. No program of the
  repository makes it; they use the asynchronous one.

*Delivery*

* Handlers set before the agent has connected are never announced to it
  (`pk-connection-dbus.c:672`); the state is CONNECTED even if no socket could be opened.
* The callbacks run under the reader lock (`pk-connection-dbus.c:326`): one that sets
  handlers waits for itself (8964).
* The agent looks handlers up without the lock (`listeners/pka-listener-dbus.c:3897`):
  while a handler is inserted one that is there may not be found, and the delivery is
  dropped; while one is replaced the sampling thread may use what was freed. Manifests
  lost by that, or by the next, are exempted as `missed`: no property catches them.
* `g_hash_table_insert` keeps the old key, a field of the handler it frees, on both sides
  (4269; `pk-connection-dbus.c:8965`): lookups compare freed memory.
* A handler that replaces another starts without manifests, and drops samples until the
  next one.
* Handlers set after a subscription has joined a source are not told the source's
  manifest (`pka-subscription.c:749`); `NoManifestLost` exempts them (`late`).
* `handle_connection` walks the handlers without their lock.

*Encoding*

* A sample is decoded to the end of the message instead of its length, so that a buffer
  with several, which `dispatch_sample` loops for, is not readable. The agent sends one.
* `pka_manifest_append` takes CHAR, BOOLEAN, LONG and ULONG, which no client can read,
  and not INT64 and UINT64, which every client can (`pka-manifest.c:286`,
  `pk-sample.c:206-230`). BOOLEAN can be appended, too (`pka-sample.c:266`): a sample with
  such a row is refused as a whole, although HACKING:24-26 says that buffers can be
  decoded on the other end. `SampleSurvives` says so of it, and no more.
* `timespec_add` carries at more than a second, so that exactly one is left standing.
* Sample times are differences of the realtime clock encoded as unsigned
  (`pka-encoder.c:116`): after the clock has been set back before the manifest they
  are told far in the future. Set back between two samples, it makes the second told
  the earlier of the two. `TimeWithinResolution` and `RoundingIsMonotone` exempt the
  former; of the latter they say that the times told follow the clock, back and forth.

## 8. What is not modelled

* Dedicated sampling thread: no source of the repository asks for one. Read, it returns
  from `pka_source_simple_started` with the mutex locked (`pka-source-simple.c:555`), and
  its thread never gets it.
* `pka_source_simple_set_frequency`, which only tests call.
* Manager's and plugins' introspection; options, key files, logging and the loading of
  modules; `pka-context.c`, which grants everything.
* Source plugins: how they parse `/proc`; gdkevent, which works in the instrumented
  process. The models take a delivery at any time as input, a manifest before the
  first sample.
* Command shell, graphical programs, bindings, build, vendored code: sequential
  user interfaces over the client library, or not part of the running system.
* Of the modelled components: working directory, arguments and environment of an
  inferior, as far as they do more than come back when asked for; cancellation of a
  synchronous call, which none uses. A callback that sets handlers is left out
  of `PkHandlers` (section 7). Memory that is used after it has been freed has no defined
  outcome: the models stop at the use and leave out what it would do.

## 9. Plan

Done: the modules of section 2, the runs of section 3, the proofs of section 6.

Next, in this order:

1. `ManifestFeed`: what a handler is promised (manifests in order, samples of the last
   one), with `PkaSource` shown to implement it, as the link between `PkaSource` and
   what `PkDelivery` takes from it.
2. `PkaDedicatedWorker`, should a source ask for a thread of its own.
