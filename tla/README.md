# A TLA+ model of virtual-supla

virtual-supla is a Linux device for the SUPLA home-automation cloud. The
program `supla-dev` connects to a SUPLA server over TCP, registers the channels
named in its configuration file, executes the server's commands by shell
commands or MQTT messages, and reports values that it reads from files,
commands and an MQTT broker. The repository carries the rest of SUPLA too: the
library `supla-common` that device and server share, an older `supla-server`,
a client library and bridges.

The models are about the device, the library under it, and the part of the
server that keeps its connections with devices. All paths below are under
`src/src/` of the repository: `supla-dev/…` stands for
`src/src/supla-dev/src/…`.

1. [The parts of the system](#1-the-parts-of-the-system)
2. [The plan](#2-the-plan)
3. [The modules and the code](#3-the-modules-and-the-code)
4. [What the runs check](#4-what-the-runs-check)
5. [Bounds](#5-bounds)
6. [Fairness](#6-fairness)
7. [What is proved](#7-what-is-proved)
8. [Disagreements found](#8-disagreements-found)
9. [What is not modelled](#9-what-is-not-modelled)

## 1. The parts of the system

| Part | State | Operations | Talks to |
|---|---|---|---|
| `supla-common/srpc.c`, remote calls | in and out queue of `SRPC_QUEUE_SIZE` packets (10 on Linux, 2 on the ESP), one scratch packet, next rr_id, version | `srpc_async__call` (any thread), `srpc_iterate`, `srpc_getdata` (connection's thread) | sproto for frames, eh to wake the thread, callbacks for socket and received calls |
| `supla-common/proto.c`, frames | in and out byte buffers, `begin_tag`, version | append, pop, shrink, set version | srpc only, under its lock |
| `supla-common/eh.c`, event handler | an eventfd, the socket | raise, wait, clear | wakes `devconnection_execute` |
| `supla-common/sthread.c` | terminated flag, finished flag | start, terminate, join | all threads |
| `supla-dev/devconnection.cpp`, the connection | srpc object, `registered`, times of registration and last call | connect, register, iterate, ping, offer initial configurations, callbacks for every server call | channel-io, client_device, mqtt_client, main |
| `supla-dev/channel-io.cpp`, channels | callbacks and their user data; runtime state of thermostats, impulses and shutters, tracking marks | set value, raise, configurations, the thread w1 every half second | all three threads meet here |
| `supla-dev/client_device.cpp` | the 8-byte value of a channel, which only `setValue` locks, its configuration | get, set, timers | channel-io |
| `supla-dev/client_subscriber.cpp`, `client_publisher.cpp` | topic filters | message to value, value to message | MQTT thread |
| `supla-dev/mqtt/mqtt_client.cpp` | client object with its mutex, its thread, reconnect delay | start, stop and join, subscribe, publish, reconnect | MQTT-C (vendored), channel-io |
| `supla-dev/supla-dev.cpp`, main, `supla-common/tools.c` | `st_app_terminate`, the event handler `st_eh` that signals raise | start, wait, stop, free | everything |
| `supla-dev/ipcctrl.cpp`, `devcfg.cpp`, drivers | – | local diagnostics, parsing at start, hardware | – |
| `supla-server`: `accept_loop.cpp`, `serverconnection.cpp`, `user.cpp`, `cdcontainer.cpp`, `cdbase.cpp` | connections with a thread each, slots to register in, the list and the trash of a user's devices, a counter of references in each device | register, replace an older connection, find and hold a device, retire and delete it | devices, clients' threads, IPC |
| the rest of `supla-server` | channels, clients' updates | values, commands | database, web services |
| `supla-scheduler`, `supla-client`, `supla-mqtt-client`, `supla-afl` | – | separate programs | server |

### Threads of the device

Three threads change state at run time, and little of it is locked:

* the **connection's thread** runs `devconnection_execute`: connect, register,
  iterate srpc, execute what the server asks, ping;
* **w1** runs `channelio_w1_execute` over all connections: it reads files, ends
  impulses and countdowns, follows weekly schedules and reports values;
* the **MQTT thread** exists while a device is registered: it is started on the
  registration's result and joined when the connection ends. It takes states
  of real devices and reports them.

The **main thread** starts the first two, waits for a signal and takes
everything down. The three meet in the channel's value (`setValue` takes its
lock, `getValue` does not, so that a read may be torn, and a sequence of the two
is never atomic), in the callback and its user data (no lock), in the runtime
state of thermostats and impulses (no lock), in the srpc object (one lock for
queues and buffers) and in the MQTT client (a global pointer without a lock to
an object with one).

### What is hard, and what makes each part correct

* *srpc*: many callers share one scratch packet; the thread that writes sleeps
  on an eventfd; queues are bounded. Calls must leave once and in order, frames
  be handled once and in order, nobody sleep on work.
* *sproto*: TCP cuts frames anywhere; the data may contain the tag; the peer
  may be newer. What arrives must be what was sent, or an error deserved.
* *connection*: callbacks, objects and threads of a connection go away while
  others use them; values change around the registration; calls are refused by a
  full queue. `data_write` may lose what it is given. The server must be told of
  the device first, be in step with it once things are quiet and nothing was
  lost, be offered each configuration once and hear the device in time.
* *channels*: commands, timers, schedules and states of the real device come
  from three threads. A manual command must not be undone by a schedule, a
  countdown restore what was there before it, an impulse end, the device and
  the server follow the value, and a shutter keep its position.
* *MQTT client*: it is freed and made anew with each connection while others
  publish through it, and it reconnects by itself. Sockets must be closed once,
  CONNECT come first, and a broker that is away be survived.
* *life cycle*: the program can be told to end in any state. It must end, leave
  nothing behind, and free nothing that a thread still uses.
* *the server's devices*: threads hold devices of other connections, connections
  end in any state, a device comes back before its last connection is gone.
  What is held must not be freed, what has ended be deleted, one connection of
  a device stay, and slots be given back.

Each of these is listed with its line under `hazards` in `PROJECT.json`,
together with the properties that would fail if it went wrong.

## 2. The plan

| # | Module | State |
|---|---|---|
| 1 | `Srpc`, its abstract specification `CallQueue`, proofs in `Srpc_proofs` | done |
| 2 | `DevConnection`, proofs in `DevConnection_proofs`: callbacks and threads around the connection | done |
| 3 | `HvacRuntime`, proofs in `HvacRuntime_proofs`: schedule, countdown, commands of a thermostat | done |
| 4 | `ChannelCommand`, proofs in `ChannelCommand_proofs`: relay, impulse, shutter | done |
| 5 | `Framing`, proofs in `Framing_proofs`: frames in a stream of bytes | done |
| 6 | `Session`, proofs in `Session_proofs`: initial configurations, ping | done |
| 7 | `MqttClient`, proofs in `Lifecycle_proofs`: the client's life, reconnection, publishing | done |
| 8 | `Lifecycle`, which composes `MqttClient` with main, the connection's thread and w1, proofs in `Lifecycle_proofs` | done |
| 9 | `Connections`, proofs in `Connections_proofs`: the server's connections, devices, list and trash | done |

`Srpc` comes first because everything else goes through it: the modules of the
connection take the srpc object for the queue that `Srpc` is shown to be.
Composition is by that abstraction: `DevConnection` and `Session` hold an
`out_queue` with the behaviour of `CallQueue`, refusals included, and assume of
the rest of srpc only `NoLostWakeup`. `Lifecycle` composes by conjunction: it
extends `MqttClient`, its actions call the client's, and the theorems about
the client hold of the whole device because each of its steps is a step of
the client or leaves it alone.

## 3. The modules and the code

Every definition that models code is listed in `PROJECT.json` under `map` with
the lines it stands for. What is marked external there is not in the
repository: the numbering and the framing of the server's stream as the socket
delivers it, the broker, and the clock.

The grain of the actions is the code's own: a critical section is one step, and
code outside of locks is cut at each access to something another thread writes.
Program counters of threads are named after what the thread does next (`pc`,
`step[t]`, `at[t]`).

### `Srpc` and `CallQueue`

`Srpc` is one srpc object with its connection's thread `Conn` and any set of
`Callers`. `srpc_async__call` is `StartCall` (the look at the version, outside
the lock), `PushCall` or `RefuseCall` (the locked part: build the packet in
`sdp`, number it, queue it, raise the event). `srpc_iterate` is split where it
leaves the lock: `Read`, `PopFrame` (append, pop, queue, then the callback
without the lock), `GetData` by the handler, `PopCall`, `Write`, and
`RaiseIfMore`. `eh_wait` is `Wake`, `ClearEvent` (the clear is not atomic with
the wait) and `WaitTimeout`. A frame is complete or not there (`Framing` is about
bytes), and `Lossy` says whether `data_write`, whose result the code ignores,
may drop a packet.

`CallQueue` is what callers count on: a bounded queue from which calls are
delivered or lost. `Srpc` implements it with
`pending <- chunk \o out_queue`, the packet in the hand of `srpc_iterate`
counting as one more place.

### `Framing`

Two sproto objects and the stream between them, byte by byte: `Send` is
`sproto_out_buffer_append` of a popped packet, `Flush` is `sproto_pop_out_data`
and one `data_write`, `Iterate(n)` reads `n` bytes and calls
`sproto_pop_in_sdp` once, `Overflow` is a buffer at its limit. Every header
field is one byte, so that data is at most 255 bytes long (`FramingAssumption`;
in the code the sender's own limit keeps `data_size` far from its end) and the
packet's number starts again at 1; `call_type`, which nothing in `proto.c` looks at,
is left out. Sender and receiver may be different builds. One `data_write` may take
less than it was given (`torn`): nothing in the code notices, and the
properties except `TypeOK` and `BeginTagIsCurrent` are stated up to then.

`ImplementsQueue` takes the whole, `Peers`, for a `CallQueue` in which the packets
sent and not received wait: what `Srpc` assumes of the bytes below it, as
`DevConnection` and `Session` assume a queue of `Srpc`. It supposes that no write
is cut short (`~Lossy`), so it is a theorem and not a property of the run,
whose stream is lossy.

### `DevConnection`

`devconnection_execute` with its own `pc`: connect, set the callbacks, register,
iterate, take one message of the server, clear the callbacks, free srpc, join
the MQTT thread, and again. `W1` and `Mqtt` run `channelio_raise_valuechanged`:
`Get` (the value, read without its lock: `Readable` says that a set under way may
tear it), `Check` (the callback), `Load` (the pointer
to the srpc object), `Deref` and `Push`. A step through a cleared pointer or
into a freed object sets `fault`, after which nothing more happens. `server` is
what the server knows: values, registration, and what it heard first.

A message that leaves the queue is sent (`Send`) or lost (`Lose`), as
`srpc_iterate` ignores the result of `data_write` on a non-blocking socket. A
socket that takes a part of a message loses those that follow as well, which is
`Lose` again for each of them. `mqtt_client_free` is two waits: for the client's
mutex in `mqtt_disconnect` (`DisconnectMqtt`) and for the end of the thread in
`sthread_twf` (`JoinMqtt`). Neither returns once the MQTT thread is stuck on its
own mutex after an attempt to connect that failed (`MqttSticks`, `mqtt_stuck`;
section 8).

History variables say what a state cannot: `overlapped[t]` (the connection was
being replaced during the report of `t`), `raced[t]` (another report of the
channel was under way), `strayed` (threads whose report was queued on a later
connection than it began in), `missed[c]` (a value of `c` was dropped, refused
or raced since the last one that was not, or the last one queued was lost).

### `Session`

The same loop seen from the calls it makes when nothing happens: registration,
`channelio_send_initial_configs_if_needed` one configuration at a time, ping,
`srpc_iterate` as one message in and one call out, wait. Runtime configurations
of the server arrive at any time (`OnConfig`, `Reply`), other threads fill the
queue (`Report`). Times are the differences the code computes, in seconds,
saturating above the timeout. `Tick` may come anywhere, also inside a handler, and
nothing bounds how often: a handler may run `system(command)` or wait for the MQTT
thread for any time. `Send` gives a call to the server or loses it. What the
server hears in time can therefore only be said with two exceptions, which
`excused` notes since the server last heard the device: a call was lost, or an
iteration with its wait took more than `Slack` seconds (`late`). `Slack` bounds
nothing; it says what counts as long. The thread waits with an empty queue or is
woken at once, which is `NoLostWakeup`, proved of `Srpc`; here `Wake` needs no
reason.

### `HvacRuntime`

One channel of the function `HVAC_THERMOSTAT` with heating mode. A command is
`Command`, `Cancel` and `Build`, or `KeepRestore` and `Arm` if it is timed, then
the commit that all writers share (`Compare`, `Set`, `Publish`), and
`TellTimer`. W1 runs `W1Weekly` (the program of the current quarter) and
`Countdown`, `TellLeft`, `Expire`, `Clear`; the MQTT thread runs
`UpdateHvacState`. `Configure` is a runtime weekly schedule, `Register` forgets
it (`channelio_reset_runtime_config_tracking`). `Clear` is
`channelio_clear_hvac_countdown` with its four writes, each of which another
thread may come between (`ClearEnd`, `ClearAvailable`, `ClearSent`,
`ClearValue`): a countdown that is started among them keeps its end and restores
a value that is all zeros (`Blank`). Every read of the value is `Readable`:
while another thread sets one, half of it may be old and half new. `Tracked` is
whether the channel's number is above 0. `hist.overlapped` and `hist.disturbed`
note that sections of two threads met.

### `ChannelCommand`

One channel, a relay, an impulse channel or a roller shutter. `SetChannel`,
`ClearImpulse`, `Restore`, `ArmImpulse` are `channelio_set_value`; `EndImpulse`
and `ReadState` are w1; `Message` is a state over MQTT. `ReadToTell` and `Tell`
are `channelio_raise_execute_command`, which reads the value again before it
runs `command_on` or `command_off`; `Report` tells the server.

### `MqttClient`

`mqtt_client.cpp` over the calls it makes to MQTT-C, each of which takes the
client's mutex. The client's thread is `sync`: `BeginSync` (lock, and in an
error keep the lock for `reconnect_client`), `Reconnect` (close the old socket,
look at the time), `Connect` or `ConnectFails`, `Subscribe`, `Receive`, `Send`,
`Notice` (a read or a write fails). Its owner is `life`: `InitClient`, and
`mqtt_client_free` as `Disconnect`, `Terminate`, `Join`, `CloseFreed`, `Delete`,
`Forget`. A publisher looks at the global pointer (`BeginPublish`), reads it
again (`LoadClient`), and waits for the mutex (`Publish`). A use of a freed
client or a second close of a socket sets `fault`. `Stuck` is a thread that
waits for the mutex it holds. `hist.met` notes that a client was freed during a
publisher's call, `hist.refused` that an attempt failed.

### `Lifecycle`

`main` is the main thread from `Start` or `FailToStart` to `exited`: `LeaveLoop`
and `JoinConn` are `devconnection_stop`; `DeleteChannels`, `FreeMqtt`, `StopW1`
and `JoinW1` are `channelio_free`; `FreeLoop` is `st_mainloop_free`. `conn` is
`devconnection_execute` as far as it sets and clears the callbacks, which makes
and frees the MQTT client, or ends on a version error. `w1` uses the channels
once per turn, and so does the MQTT thread when it receives. `sthread_terminate`
sends a signal as well: `signalled` are the threads that have not handled
theirs, which raises `st_eh`.

### `Connections`

The server's `serverconnection::execute` with its `pc`: take a slot or not
(`TakeSlot`, `NoSlot`), `Register`, then `supla_user::add_device` as `LookUp`
(an older device with the GUID is found and retained), `AddToList`, `Replace`
(its connection is told to end) and `ReleaseOld`. It ends by `Leave`,
`MoveToTrash`, `EmptyBefore`, the wait for others to release the device (`Waited`
or, after ten seconds, `GiveUp`), `Unref`, `EmptyAfter` or `DeleteRefused`, and
`Finish`, which deletes the connection. Holders are any other threads: `Find`,
`Use`, `Reconnect` (`device_reconnect`), `Drop`. What a lock of an array or of a
device covers is one step. A device is named by its connection; that its memory
may be used again for another is not modelled, as an access to it is a fault
already. `hist.gave_up` are the connections that stopped waiting,
`hist.crowded` the GUIDs whose registrations overlapped.

## 4. What the runs check

| Run | Distinct states | Properties |
|---|---|---|
| `srpc_calls` | 104,280 | `TypeOK`, `HandledInOrder`, `NoLostWakeup`, `ImplementsQueue`, `AcceptedIsWritten` |
| `connection_reports` | 1,384,742 | `FaultOnlyWhenOverlapped`, `RegisterFirst`, `ServerInStep`, `TerminatedEnds` |
| `hvac_threads` | 768,094 | `NeverBoth`, `TimerInStep`, `ExpiryRestores`, `ManualIsKept`, `ProgramApplied`, `CountdownEnds` |
| `command_all` | 795,811 | `DeviceFollows`, `ServerFollows`, `PositionKept`, `ImpulseEnds` |
| `framing_chunks` | 288,018 | `TypeOK`, `FramesKept`, `BeginTagIsCurrent`, `ErrorIsDeserved`, `AllReceived` |
| `session_configs` | 338,703 | `KeepAlive`, `OfferedOnce`, `ConfigsSettle` |
| `lifecycle` | 255,862 | `ConnectFirst`, `SocketsKept`, `StuckOnlyWhenRefused`, `Recovers` of the MQTT client; `FaultsAreKnown`, `OnlineUnlessRefused`, `CleanExit`, `ExitCompletes` |
| `connections` | 564,238 | `HeldIsLive`, `ConnectionOutlivesUse`, `OneOnline`, `RetiredIsDeleted`, `SlotsReturned` |
| `hvac_reconnect`, `hvac_channel0` | – | `ProgramIsReceived` is violated |
| `mqtt_reconnect` | – | `Reconnects` is violated |
| `command_offonly` | – | `DeviceFollows` is violated |

The runs check the types of `Srpc` and `Framing`; those of the other modules are
theorems (section 7). `FaultsAreKnown` joins what is said of each kind of fault
of the device: `FaultOnlyWhenFreed`, `OnlyW1OutlivesChannels` and
`SignalsFindHandler`.

What they show, beyond the sentence at each property:

* **srpc** is one FIFO queue to all its callers, however their calls, the
  handler's calls, the reads and the wake-ups interleave, and also while the
  number of a packet wraps around. A refused call uses up a number and changes
  nothing else.
* **connection**: the unlocked callbacks are safe outside of three windows
  (between the two assignments that set, the two that clear them, and after
  `srpc_free`), which `overlapped` names. The MQTT thread cannot carry a
  report into a later connection; w1 can. The server may show an old value, and
  keep it until the next change, after a report that a full queue refused, one
  that found no callback, two that raced, or one that `data_write` lost:
  `ServerInStep` says that there is no other way. The connection's thread ends
  when it is told to, unless the MQTT thread it waits for is stuck on its own
  mutex: `TerminatedEnds` names that exception, and the finding `mqtt_reconnect`
  shows that the code gets there.
* **thermostat**: the flags for the timer and the schedule exclude each other in
  every interleaving. With sections that do not overlap, timer and server
  agree, a countdown restores what it interrupted, and the schedule never
  undoes a manual command; an overlap can break each of these, which is why
  the properties name it. They do not catch those races, which the code has: a
  command OFF between w1's read of the value and its set is undone
  (`ManualIsKept` exempts it), and they show that the race is the only way to it.
  `NeverBoth` and `CountdownEnds` hold through all of them, torn reads and the
  piecemeal clear included.
* **commands**: an impulse ends in every interleaving. Device, server and a
  shutter's position follow as long as sections do not overlap; here too the
  properties name the overlap, which in the code does lose an update.
* **framing**: the receiver gets what was sent however the stream is cut, and a
  tag in the data changes nothing, because the length decides.
* **session**: the ping is in time although `last_call` also counts calls that
  the queue refused, since a full queue will be sent. It counts lost calls too,
  and then the ping may be late; so it may after a handler that took long. These
  are the two exceptions of `KeepAlive`, and both end with the next call the
  server hears. A configuration is queued once though the queue is shorter than
  what is offered.
* **MQTT client**: sockets and the order of packets are right in every
  interleaving with publishers and with the client's end. Two things can go
  wrong, and no others: a publisher uses a client that was freed during its
  call or is just being freed, and the thread locks itself out after an
  attempt that failed.
* **life cycle**: the channels go before w1 does, and only w1 can meet that; a
  signal never finds `st_eh` freed, because every thread it is sent to is joined
  before. A failed start ends in `sthread_twf` of a thread w1 that was never
  started (fault `thread_w1`), so `CleanExit` and `ExitCompletes` are about
  starts that succeed.
* **the server's devices**: the counter of references protects devices, also
  while threads of other connections empty the trash; it protects connections
  only for ten seconds. Two registrations of one device that overlap can leave
  both online, as each looks for an older one before it is in the list.

## 5. Bounds

Constants named `Max…` are bounds of the model; the others are parameters of
the code.

* `Srpc_calls`: two threads besides the connection's, as in the device; three
  calls for a queue of two, so that the third is refused or waits
  (`SRPC_QUEUE_SIZE` is 10 on Linux, 2 on the ESP; here it is a parameter, and
  the proofs are for every size); three numbers, so that they wrap (refused
  calls use them up as well); two frames in the buffer. Callers differ only in
  name.
* `DevConnection_reports`: two connections, the least in which a report can
  stray; two changes, one for each thread or two that race; queue of 2;
  `MaxOther`, one command of the server or one call of the connection's own,
  which fills the queue; one channel, as channels share nothing but the queue.
* `HvacRuntime_*`: at most two commands, one configuration and one message (two
  configurations in `hvac_reconnect`), of which `MaxInputs`, three, come in
  together in `hvac_threads`: each pair of writers meets, and a third follows.
  Two temperatures, two quarters of the week of which one has no program, a
  throttle and a countdown of one step (each is only compared with its end).
* `ChannelCommand_*`: three commands and two states of the device let an end of
  an impulse meet a command and a message, and a new impulse follow.
* `Framing_chunks`: two frames; a tag of two bytes, so that a tag inside the
  data, one across the end of a read and half a tag at the end of the data
  all occur; payloads of none to five bytes, of which the last is too large;
  reads of 0 to 8 bytes, more than a frame.
* `Session_configs`: thermostats 0, which is untracked, and 1: three
  configurations for a queue of two, five items the server may set; a timeout
  of 5 with a margin of 2, twice the slack, the tightest that the assumption
  allows. The proofs are for all values.
* `Lifecycle_exit`: two clients, so that a publisher can meet the next one; one
  publish, one outage: an attempt that fails, a session that ends, and the
  growth of the delay from 1 to its limit of 2; a buffer of two packets, so that
  CONNECT and SUBSCRIBE fill it and a publish finds it full. The proofs are for
  all values. `MqttClient_reconnect` has one client and the code's delays.
* `Connections_devices`: three connections of one device, so that one registers
  while two others are there or end; two slots, so that the third waits for one
  or is refused; one holder, as holders only meet in the counter, which
  registrations that look up a device change as well. The proofs are for all
  numbers.

Deadlock is checked in `HvacRuntime`, `Framing` and `Session`, whose loops never
end. The others stop: `Srpc` and `DevConnection` with a dropped connection, a
finished thread or a fault, `ChannelCommand` when its commands and states are
used up, `MqttClient` when it is stuck or freed for the last time, `Lifecycle`
when the program has exited, `Connections` when all its connections have ended.

## 6. Fairness

* `Srpc`: strong fairness of a step of the connection's thread and weak fairness
  of a call it has begun. Its handler may make calls of its own, each of which
  interrupts the iteration, so that the iteration's steps are enabled again and
  again rather than always; a handler makes only so many calls before it
  returns. The other threads are not fair.
* `DevConnection`, `HvacRuntime`, `ChannelCommand`: weak fairness of each
  thread's steps: threads are scheduled and every lock is held for a few
  instructions. Nothing is assumed of the server, the broker, the main
  thread or the socket, which may lose what it is given, nor that the MQTT
  thread gets stuck or does not. A shell command that a handler runs is supposed to
  return in the end, at no particular time. Time passes (`Tick`) in the last two.
* `Framing`: weak fairness of writing and of reading, with and without data:
  both peers iterate at least once a second. Sending is not fair.
* `Session`: weak fairness of the thread's steps and of `Tick`, which is
  enabled anywhere but for the answer to a registration that is due.
  The server's messages and other threads' reports are not fair, and
  `ConfigsSettle` supposes that they stop in the end: while they fill the queue
  for ever, nothing can be promised.
* `MqttClient`, `Lifecycle`: weak fairness of each thread's steps, of time and of
  the return of a broker that is down; strong fairness of `Notice`, as a session
  that has ended shows in some read or write, between which the mutex may be
  taken. The connection's thread leaves its session only once it is told to.
  Publishers, signals from outside, outages and the server are not fair.
* `Connections`: weak fairness of the threads of connections. They leave their
  loop when they are told to, or, before they have registered, after the
  registration's timeout. Nothing is asked of holders, who may hold a device for
  ever: `GiveUp` is fair for that reason.

## 7. What is proved

`tlapm` checks eight modules, for every value of the constants that the named
assumptions allow. Each safety property that a passing run checks is a theorem.

**`Srpc_proofs`** (`SrpcAssumption`: callers distinct from the connection's
thread, queues and numbers of at least one, bounds in `Nat`). The invariant is
`IInv == TypeOK /\ OutInv /\ InInv /\ WakeInv`. `AcceptedInOrder` alone is not
inductive: that the packet in hand is there exactly between popping and writing
(`OutInv`) is needed for it; `HandledInOrder`, which says that frames are
handled in order and that the in queue is drained whenever its lock is free,
needs where the frame just read and the one just queued are (`InInv`); and
`NoLostWakeup` needs that the local `raise_event` tells whether the in buffer
holds a frame wherever it will be used (`WakeInv`). From it: `TypeCorrect`,
`CallsInOrder`, `FramesInOrder`, `WakeupIsKept`, and `Refinement`, that `Srpc`
implements `CallQueue`: `PushCall` maps to `Accept`, `Write` to `Deliver` or
`Lose`, all else to a stutter.

**`Framing_proofs`** (`FramingAssumption`: a tag of one to five bytes, data,
versions and numbers that fit their byte, buffers that are not empty). What a
frame is does not depend on the values of bytes; what the buffers hold is a
concatenation of any number of frames, so its proofs are inductions. The
library's induction theorems take an operator as a parameter, which the provers
cannot instantiate; `Induction` says the same of sets of numbers, and is proved
from the well-foundedness of the inclusion of finite sets. With it, `FlatExists`
and `FlatUnique` tell what `FlattenSeq` returns, and `FlattenAppend` and
`FlattenCons` how it grows at either end; `Peel` is how the head of a
concatenation is told from the part of it that has been read. The invariant is
`Correct == TypeOK /\ BeginTagIsCurrent /\ FramesKept /\ ErrorIsDeserved`: the
four properties are inductive together and none is alone, as `FramesKept` tells
that a frame is at the head of the buffer (`NextFrame`), from which `PopNext`
derives what `sproto_pop_in_sdp` does with any beginning of it, and
`BeginTagIsCurrent` that skipping the look at the tag changes nothing.
`NoFrameIsOverlooked` says that each time a read finds no packet there are fewer
bytes in the buffer than the next frame has, `ReceivedInOrder` adds what is true
after the connection was given up, and `Refinement` that without cut writes the
peers implement `CallQueue`: `Send` maps to `Accept`, a read that completes a
packet to `Deliver`, all else to a stutter.

**`Session_proofs`** (`SessionAssumption`: the slack is at most half the ping's margin,
and the latency of the registration with three slacks is below the server's
timeout. The slack bounds no delay; the assumption chooses from when on a delay
counts as an exception, and allows up to 2 seconds with the code's margin of 5).
The invariant is
`IInv == TypeOK /\ MarkInv /\ PassInv /\ FlowInv /\ SilenceInv`:

* `MarkInv`: what was offered, and nothing else, is marked as sent, and what the
  server set is marked as received wherever the mark is looked at. It gives
  `OfferedAtMostOnce`.
* `PassInv`: what the walk over the channels has passed by was offered or set by the
  server, unless the queue is full. It gives `IterationSettles`: the step that ends
  the walk leaves every configuration settled, or the queue full.
* `FlowInv`: on which connection which calls are queued; above all that an
  answer to the registration can be due only with an empty queue.
* `SilenceInv`, as long as nothing is excused: with an empty queue the silence
  is no longer than the time since the last call. An iteration that ends with an
  empty queue found that no ping was due, or has just been told of the
  registration; so the silence is then below timeout minus margin, or below the
  latency and a slack (`Within`), and the wait and the next iteration add a
  slack each before a call leaves. It gives `HeardInTime`, that is `KeepAlive`.

**`DevConnection_proofs`** (`DevConnectionAssumption`: a channel and a value at
least, three distinct threads, a queue of one at least). The invariant has
three independent parts beyond the types:

* `CallbackInv`, which callback is set where the connection's thread is, and
  `SafeInv`, that a report which met no window finds what it has read. From them
  `FaultsAreOverlaps`.
* `HeardInv`, that a callback is set only while `registered` is 1, and that a
  report which has read one of this connection began on it, and `FirstInv`, that
  the first message in the queue is the registration as long as the server has
  heard nothing. From them `RegistrationIsFirst`, for every number of reports
  and connections.
* `StepInv` follows each value from the channel to the server: an undisturbed
  report has read the present value of its channel (`ReadInv`), and the value of
  a channel is what the last message about it in the queue says, or what the
  server has if there is none, or it is being reported, unless it was missed
  (`ToldInv`), which a message lost in `data_write` may make it; an undisturbed
  report has met no set, so that its read was not torn; `KnownInv` ties
  `registered` to the messages that say so. Lemmas about what a message appended
  or removed does to the last word on a channel carry it through the queue. At
  rest it is `ServerIsInStep`.

**`HvacRuntime_proofs`** (`HvacAssumption`, `NoValueAssumption` and
`MessageAssumption`: what requests, schedules and messages are; the throttle is not
zero; three distinct threads).

* `ValueInv`: no value that a thread holds or that is set is both timed and
  weekly. It holds in every interleaving and gives `TimedOrWeekly`.
* `ReadableSound` and `ReadableAlone`: a torn read never has both flags, as they are
  in one half, and a thread that is alone reads the value as it is.
* `MetInv` and `KeptInv`: two busy threads have met, and a program that met nobody
  finds the channel as it was read, so it commits over a value that is
  still weekly. It gives `ManualKept`.
* `TimerInv` says how far each section is from value, countdown and server
  being in agreement, for sections that are `Clean`: they have met nobody and began at
  rest, or are a plain command, which puts all in order whatever it finds
  (`CommandInv`). It gives `TimersAgree`.
* `RestoreInv`: what the countdown is going to restore is the last value without
  one, and a clean section keeps it so; a value to restore is there for a
  countdown or on its way in or out (`Owned`), which the four writes of the
  clear make necessary. It gives `ValueRestored`.
* `ExpiryInv`: an expiry that met nobody still finds the countdown at its end. It gives
  `CountdownLasts`: nothing but a plain command, or an expiry that met another
  section, ends a countdown early. That it does end is `CountdownEnds`, left to TLC.

**`ChannelCommand_proofs`** (`CommandAssumption`: positions and movements are
distinct values, a longest impulse of one at least, three distinct threads).
`ImpulseInv` needs no condition on interleavings: a channel that is on because of
a timed command has its end armed, or the connection's thread is about to arm it, or
some thread is about to set "off". It gives `ImpulseHasEnd`, that no impulse is
stuck at rest, of which `ImpulseEnds` is the live counterpart. `OrderInv` is about
sections that met nobody: `SoloInv` how far the device and the server have
been told, `ShutterInv` that a command to a shutter gives back the position it
found, `RestInv` that nothing is left when all threads rest. They give
`DeviceIsTold` (if `command_on` is configured wherever `command_off` is, without
which section 8 refutes it), `ServerIsTold` and `PositionRestored`.

**`Lifecycle_proofs`, the client** (`MqttClientAssumption`: the client's thread
is none of its users, the delays are in order, the buffer takes two packets).
The invariant `MqttInv` has six parts: types; `FlowInv`, which state of the
thread, of its owner and of the mutex go together, above all that the mutex is
held only in `reconnect_client` or after it failed; `SocketInv`, which error
goes with which socket: "initial" is the error in which nothing is to be closed;
`SessionInv`, that what is queued begins with CONNECT while the broker has heard
nothing; `PublishInv`, that a publisher's client is the present one unless
`met`; `RetryInv`. None of the four properties is inductive without the first
two parts. `ConnectComesFirst`, `SocketsAreKept`, `StumblesOnlyWhenFreed` and
`RefusedBeforeStuck` state them both of the client alone (`MqttSpec`) and of the
whole device (`Spec`).

**`Lifecycle_proofs`, the device** (`LifecycleAssumption`: the publishers are w1 and the
connection's thread, which owns the client). `MqttInv` is carried over by the
lemmas about the client, one for each of its actions. To it come
`ConnInv` (where the connection's thread is tells whether there is a client),
`MainInv` (which threads have ended where main is; with it that a signal is
pending only for a thread not yet joined) and `FaultInv`. From these follow
`StumblesAreKnown`, that is `FaultsAreKnown`; `StaysOnline`, `ExitsClean` and
`JoinedAreTold`.

**`Connections_proofs`** (`ConnectionsAssumption`: one slot at least). The heart
of `IInv` is `RefInv`: `ptr_counter` is the cardinality of the set of those who
use the device, its own connection, holders, and registrations that have found
it. It makes “nobody uses it” out of the counter, so that `TakenInv` (what others
use is live, and its connection has not ended unless it gave up) is kept by
whoever empties the trash. `PlaceInv` and `UserInv` say where a connection is
while its device is in the list or the trash, `EndInv` that an ended one has
left nothing. `PairInv` gives `OneOnline`: of two connections of a device one
has found the other, or one is told to end. `SlotInv` gives `SlotsAreKept`.

Only model-checked: the liveness properties (`AcceptedIsWritten`,
`TerminatedEnds`, `ProgramApplied`, `CountdownEnds`, `ImpulseEnds`,
`AllReceived`, `ConfigsSettle`, `Recovers`, `ExitCompletes`, `SlotsReturned`):
that something happens rests on fairness, that is on ENABLED, which is beyond the
prover. For some of them the invariant that their argument begins with is proved:
`WakeupIsKept` for `AcceptedIsWritten`, `ImpulseHasEnd` for `ImpulseEnds`,
`NoFrameIsOverlooked` for `AllReceived`, `IterationSettles` for `ConfigsSettle`,
`JoinedAreTold` for `ExitCompletes`, `SlotsAreKept` for `SlotsReturned`.

## 8. Disagreements found

Four runs show that the code does other than it or its documentation says.
Each is a configuration of the same module that the passing runs check.

* `hvac_reconnect`: after each registration the received weekly schedule
  counts as unavailable, and w1 applies the default one, whose programs are all
  off, to a thermostat in weekly mode until the server has sent the schedule
  again.
* `hvac_channel0`: index 0 means “not tracked”, and channel 0 exists: its
  schedule is dropped and the default, all off, is followed.
* `command_offonly`: `command_off` is run only if `command_on` is configured.
* `mqtt_reconnect`: an attempt to connect to the broker that fails, or one that
  is not due yet, returns with the client's mutex locked. The MQTT thread then
  waits for itself: the client never reconnects, the delay that grows is never
  used, and the connection's thread waits for ever when it frees the client.
  A passing run, `lifecycle`, shows that this is the only way to get there.

## 9. What is not modelled

* Formats: topics, payloads, JSON, the configuration file. They decide which
  value a message is, not what happens to it.
* Dimmers, electricity meters, fans and water heaters, sensors beyond “w1 reads
  a value and reports it”. Their commands and reports take the paths of
  `ChannelCommand` and `DevConnection`.
* The table of calls in `srpc.c` (the size of each call's data and the version it
  needs): a long `switch` without state; `Srpc` has a set of the allowed types.
* The server, except its answers to this device and the life of its connections
  and devices. Clients' connections are of the same kind; users share one
  container each, so one user is enough. What the server does with channels,
  values for apps, its end (`moveAllToTrash`), the database and web services are
  left out.
* The scheduler, the client library, the console client, the fuzzing harness, the
  MQTT bridge: separate programs. The IPC control of the device is compiled and
  never started.
* GPIO, 1-wire and DHT drivers: I/O. `mqtt.cpp`, `jsoncons`, `cJSON`, `gtest`:
  vendored, and most of the repository's lines.
* Memory that cannot be allocated, and the 32-bit and ESP builds (`#ifdef`
  branches other than Linux with threads).
