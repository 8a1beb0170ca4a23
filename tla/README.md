# rednet in TLA+

rednet is a small actor framework in C++: *services* (Lua scripts, a logger, game
gateways) own a queue of events each, and a few worker threads run their
handlers, one event at a time per service.  This directory holds a
specification of it, the TLC configurations that check the specification on
small instances, and TLAPS proofs of the results that hold for every instance.

Contents:
[1 The system](#1-the-system) ·
[2 Modules](#2-modules) ·
[3 Dispatch and the code](#3-dispatch-and-the-code) ·
[4 EventRing and the code](#4-eventring-and-the-code) ·
[5 Registry, Timer, Env and the code](#5-registry-timer-env-and-the-code) ·
[6 Socket and the code](#6-socket-and-the-code) ·
[7 Framing and the code](#7-framing-and-the-code) ·
[8 Payload and the code](#8-payload-and-the-code) ·
[9 Gateway and the code](#9-gateway-and-the-code) ·
[10 Lifecycle and the code](#10-lifecycle-and-the-code) ·
[11 What is checked](#11-what-is-checked) ·
[12 Findings](#12-findings) ·
[13 Fairness](#13-fairness) ·
[14 What is proved](#14-what-is-proved) ·
[15 What is left out](#15-what-is-left-out) ·
[16 Plan](#16-plan)

## 1 The system

Paths are relative to `src/`.  `PROJECT.json` lists every component with its
files; the ones below carry the logic.

| Component | State | Operations | Talks to |
|---|---|---|---|
| **Event queue** `rednet-src/uevent_queue.{h,cc}` | circular buffer `eqs__ head__ tail__ cap__`, flag `inglobal__`, spinlock; one global queue of queues `uglobal_queue` | `push`, `pop`, `overload`, `length`, `local_expand`, destructor that answers what is left with `EP_ERROR` | pushed by every thread, popped by workers |
| **Workers** `uframework.cc`, `uwork.cc` | `q_ptr` of each `onWorkLogic`, `count__`, `shutdown__`, one mutex and condition | `onDispatchEvent`, `wait`, `wakeup`, `stop` | contexts, both queues |
| **Contexts** `ucontext.{h,cc}` | id, component, queue, `inited__`, reference count; global `contextTotal__` | `init`, `execute`, `session`, destructor | registry, workers |
| **Registry** `uctxMgr` in `ucontext.cc` | open-addressed slot table, hash map of names, rwlock | `registerId`, `registerName`, `grab`, `unRegister`, `retireAll`, growth | everyone that turns an id or name into a context |
| **Service calls** `ucall.cc` | none | `sendEvent`, `sendEventName`, launch, exit, abort, environment, timeouts | the rest |
| **Timer** `utimer.{h,cc}` | timing wheel of one near and four coarse levels, current tick | `timeOut` (any thread), `tick` (timer thread) | posts `EP_RESONE`; its thread ends the run when `contextTotal__` is 0 |
| **Modules** `umodule.{h,cc}` | a map of shared objects by name, rwlock | `query`: look up, else open and enter | called by `ucontext::init` |
| **Socket server** `network/usocket_server.cc`, `usocket.cc`, `uchannel.cc` | slots with a state word, send buffers, in-flight counters, a pipe of commands | listen, start, send, close, shut down; one thread polls | posts socket events; reads commands from the pipe |
| **Connection driver** `unetdrive.cc` | a map of connections, each with a receive buffer and callbacks | `onData`, `onAccept`, `onOpen`, `onError`, `onClose`, `check`, `read`, `clone`, `send`, `close` | called by the game services, and calls them back from `onData` |
| **Environment** `uenv.cc` | a Lua table behind a spinlock | `get`, `set` | Lua services, configuration |
| **Services** `service-src/`, `lualib/` | logger file; Lua state; netgames' connections and routes | callbacks | all of the above through `ucall` |

What makes this code hard:

* **One flag decides who answers for a queue.**  `inglobal__` is set when a
  queue is pushed into the global queue and *stays set* while a worker serves
  it; only the pop that finds the queue empty clears it.  Handlers run outside
  every lock, so the flag is all that keeps two workers out of one service, and
  all that keeps a queue with events in it from being forgotten.
* **Destructors do work.**  Objects are counted references.  Whoever drops the
  last reference to a queue, perhaps deep inside `unRegister` with the
  registry's write lock held, runs its destructor, which sends: it takes the
  registry's read lock.
* **Life and death race with use.**  A service can be killed between a
  sender's `grab` and its `push`, or between a worker's `grab` and its `pop`.
* **Nobody is woken by a push.**  `push` signals no worker; the timer thread
  signals one on every tick.  A lost signal is a delay, never a loss, and that
  is an argument about fairness.
* **Data is handed over by convention.**  An event carries a pointer; who frees it
  when the event is not handled depends on which function noticed.
* **Commands and events cross.**  A gateway and the socket server know each other's
  state only by what is in the pipe and in the queue.
* **Ending.**  The run ends when the timer thread reads a zero `contextTotal__`,
  a `uint32_t` that every context destructor decrements, counted or not.
* **Growth under fire**: of the slot table, the circular buffer, the timing
  wheel's cascade.

`PROJECT.json` `hazards` places each of them at its line, with the properties
that cover it.

What makes each component correct, in the terms of the properties below: queues
are first in first out (`ImplementsFifo`) and are a token (`TokenExclusive` and
`TokenTracked`, parts of `IInv`), and the data of an event has one owner until it is freed
(`OneOwner`, `EventuallyFreed`, `BuffersFreed`); the dispatcher gives each service a mailbox
with one handler at a time (`ImplementsMailbox`) that is always
served (`EventsServed`, `NoneStranded`), and the registry's lock is taken twice only where a service is
killed in its launch (`HangsOnlyInLaunch`); the registry never gives out a dead service
(`DeadStaysDead`, and in detail `LookupExact`, `KilledAreFreed`, `NamesLead`) and keeps its lock no
longer than a growth takes (`RegisterReturns`); the
run stops when it may (`TotalExact`, `WorkersReturn`); a module is opened once
(`OpenedOnce`), and a script starts after it was loaded, and only then (`StartNeedsLoad`,
`LoadedStarts`); the timer keeps every request until it fires, once (`KeptOnce`), and counts the
clock's ticks (`TicksCounted`); the environment sets a key once and
keeps what it gave out (`OneWinner`, `PointersStay`), at the price of an assertion that fails (`AssertionHolds`).  Sockets carry a service's bytes to the wire once and in order on
either way there (`Conserved`), count what is in flight (`Counted`), keep the old owner
of a slot away from the new one (`EventsAreFresh`, `ClosedIsSilent`), and end once
(`NothingAfterTheEnd`).  The gateway's buffer keeps the stream whole (`Conserved` of `Framing`)
and has room for what has begun (`RoomForPacket`), and commands are carried out as
they were sent (`AsSent`).  What the gateway believes of its clients is so or about to be
corrected (`ConnectedIsOpen`, `NoneForgotten`, `AcceptFindsListener`, `ShutdownsAreDue`), and each client's session ends
once, and is reported (`ImplementsSessions`, `EndsReported`).

## 2 Modules

| Module | What it is |
|---|---|
| `Dispatch` | Workers, queues, contexts, launching, killing, the timer and socket threads as far as they touch them.  The core. |
| `Mailbox` | Abstract specification: what a service is promised, without workers, locks or a queue of queues. |
| `DispatchMailbox` | `Dispatch` with the refinement mapping to `Mailbox`. |
| `DispatchInv` | The inductive invariant of `Dispatch`. |
| `DispatchProofs` | TLAPS: twelve theorems about `Dispatch`, the refinement of `Mailbox` among them. |
| `EventRing` | The circular buffer of one queue. |
| `Fifo` | Abstract specification of a queue. |
| `Payload` | Who frees the data of events: senders, a killed destination, handler and destructor, over `EventRing`. |
| `PayloadProofs` | TLAPS: two theorems about `EventRing`, four about `Payload`. |
| `Registry` | Slot table, growth, ids and names of `uctxMgr`. |
| `RegistryProofs` | TLAPS: four theorems about `Registry`. |
| `Timer` | The timing wheels of `utimer` and the thread that turns them. |
| `TimerProofs` | TLAPS: four theorems about `Timer`. |
| `Env` | The environment, `startup()`'s defaults and `rednet.setenv`. |
| `Socket` | The socket server: slots, the pipe of commands, the polling thread, services that send. |
| `SocketProofs` | TLAPS: seven theorems about `Socket`. |
| `Framing` | How the game gateway cuts one connection's stream into packets. |
| `FramingProofs` | TLAPS: four theorems about `Framing`. |
| `Sessions` | Abstract specification: the course of a client's session at a gateway. |
| `Gateway` | The game gateway and the driver's map, with what the socket server does to them. |
| `GatewayProofs` | TLAPS: six theorems about `Gateway`, the refinement of `Sessions` among them. |
| `Lifecycle` | Launching, loading, starting, killing, aborting; the table of modules; over `Env`. |
| `LifecycleProofs` | TLAPS: three theorems about `Env`, two about `Lifecycle`. |
| `MCDispatch`, `MCPayload`, `MCRegistry`, `MCTimer`, `MCEnv`, `MCSocket`, `MCFraming`, `MCGateway`, `MCLifecycle` | Instances for TLC; they add only symmetry sets and values of constants. |

The queue is modelled in two layers.  `Dispatch` has each queue as a sequence
together with its token; `EventRing` shows that the buffer behaves as such a
sequence (it implements `Fifo`) whatever the wrapping and growth.  The registry
is in two layers as well: `Dispatch` has a set of services, `Registry` the table
that stands for it, and [section 5](#5-registry-timer-env-and-the-code) says how
far the set is right.

Two modules compose others: `Payload` EXTENDS `EventRing`, so that the events whose data
it follows are in the real buffer, and `Lifecycle` EXTENDS `Env`, so that the environment is consulted
before the first service runs.  `Gateway` stands on `Socket` as `Dispatch` on
`EventRing`: it has of a socket only what a service can tell apart.

## 3 Dispatch and the code

A step is what one thread does under one lock, or one atomic operation.

| State | Code |
|---|---|
| `gq` | `uglobal_queue::eq__` |
| `mq[c]`, `inglobal[c]` | the events and `inglobal__` of c's `uevent_queue` |
| `reg` | the slots of `uctxMgr`, as a set |
| `phase[c]` | how far `ucontext::init` has got: `registered` after `registerId`, `named` after `registerName`, `counted` after `contextInc`, `open` after the push of its queue |
| `total` | `contextTotal__`, modulo `CountMod` for 2^32 |
| `pc[w]`, `q`, `nq`, `old`, `cur` | the worker's place in `onWorkLogic`/`onDispatchEvent`, or an undefined outcome (`hung`, `wild`), and its references: `q_ptr`, the queue to switch to, a queue it has given up but still refers to, the grabbed context |
| `lau[w]` | the context whose `init` the worker is inside (a handler launched it); a raw pointer, which keeps nothing alive |
| `hold[t]`, `wire[t]` | the context a sender has grabbed, and the event it is about to push |
| `reaper[c]` | the thread that runs the destructor of c's queue |
| `tmr`, `shutdown` | the timer thread; `uworks::shutdown__` |

Reference counts are not variables.  A context is `Alive` while a slot, a
worker or a sender refers to it, a queue is `Referenced` while its context, the
global queue or a worker refers to it, and the step that removes the last
reference (`Reap`) does what the destructor does: it decrements `total`, and
makes the thread the `reaper` of the events that are left.  `Drain` is one turn of
the loop in `~uevent_queue`.

| Actions | Code |
|---|---|
| `Continue`, `Leave`, `Finish` | `onWorkLogic`, `uframework.cc` |
| `Fetch`, `FetchNone`, `Grab`, `GrabGone`, `PopEvent`, `PopNone`, `Return`, `Yield`, `Keep`, `Requeue`, `RetNext`, `RetNone` | `onDispatchEvent`, in its order |
| `Wait`, `Wakeup`, `Stop` | `uworks::wait`, `wakeup`, `stop` |
| `Send`, `ExtSend`, `Push`, `Release` | `ucall::sendEvent` by a handler or another thread: grab under the read lock, push under the queue's lock, drop the reference |
| `Kill` | `ucall::exit`, `uctxMgr::unRegister` |
| `Register`, `InitOk`, `InitFail`, `Count`, `Open`, `OpenGone` | `luaLaunch` and `ucontext::init`; `OpenGone` is the push through a pointer to a context that is gone |
| `Tick`, `SocketWake` | `onWorkTimer`, `onWorkSocket` |

Decisions a reader may want to argue with:

* *Weight.*  `onWorkLogic` always passes -1, so a dispatch handles one event.
* *Wakeup.*  The `wakeup` calls use a `count__` that wakes whenever some worker
  sleeps; the model signals exactly one sleeper if there is one.  The pre-test
  and the signal are one step: a missed signal is followed by another at the
  next tick, and no property depends on which tick it is.
* *Start events.*  The components in the repository either post a start event
  to themselves inside `init` and succeed (`ucstart`, the script service), or post
  nothing and may fail (the logger, when it cannot open its file).  `InitOk` and
  `InitFail` are these cases.
* *Whom a handler can name.*  Every registered service from `registerName` on, to
  send to it and to kill it.  Nothing in `ucall::exit` asks whether a launch is over, and a
  kill between `registerName` (`ucontext.cc:45`) and the push (`:48`) goes wrong in one of two ways:
  - the last reference goes inside `unRegister`, and with it a queue that has the
    start event in it.  Its destructor calls `sendEvent`, which asks for the read
    side of the lock that this thread holds for writing.  POSIX leaves that undefined: the
    thread hangs, or the call fails, nobody looks at the result (`urwlock.h:58`) and the lock is released
    twice.  The worker is `hung`;
  - the queue is empty (the service posted nothing to itself), the context is freed, and the launcher goes on with its raw
    pointer: it counts the service, writes `inited__` into freed memory and pushes a queue it reads
    from there.  The worker is `wild`.

  A behaviour ends there (`Undefined`), for what follows says nothing of the code.  If a
  sender still refers to the service, until after the push, the launch ends as if nothing had been; the worker that
  takes the queue then finds the service gone.
* *Ids and services* are the same thing, since an id is handed out again only
  after 2^24 registrations.  Slots, names and growth are in `Registry`.
* *Several queues destroyed by one thread.*  A destructor may nest in another
  (a notice is sent to a service that has just died).  The model lets the thread
  interleave the loops where the code nests them: more behaviours, same results.
* *The logger* is an ordinary service that sends nothing.  Log lines
  (`ucontext::error`, an event to the logger) are left out everywhere.

## 4 EventRing and the code

`eqs`, `cap`, `head`, `tail`, `threshold` and `overload` are the fields with
these names.  `Push` is `push` with its `local_expand`, `TakeFirst` and
`PopNone` are the two branches of `pop`, `Overload` is `overload()`, which
`onDispatchEvent` calls after each event it popped (`PopEvent`, `due`); the destructor pops
without asking, and reports nothing (`Drop`).  New slots hold `Junk`: `new T[]` of a
plain struct writes nothing.  `reported` is a history variable.  The constants
64 (`DEFAULT_SIZE`) and 1024 (`EQ_OVERLOAD`) are parameters; `MaxLength` bounds
the length for TLC only in `Push`.

## 5 Registry, Timer, Env and the code

**Registry.**  `slots`, `cap`, `ser`, `names` are `ctxs__`, `ctxsCap__`, `ctxsSer__`
and `ctxsName__`; `id[c]` is the field of the context and `given[c]` the number
`registerId` returned, for `ucontext::init` writes the one from the other after the
lock is released (`WriteId`).  `Register` is `registerId` up to a free slot
(`Take`) or to a full table (`Full`, which keeps the write lock: `writer`); `Grow` and
`Retry` are the next turn of its loop.  `Grow` copies slot by slot, in the order
and with the reads of the code: the table is resized first, so a context that has
been copied to the upper half stays in its old slot too, and `ctxsCap__` is
assigned only where some context changes place.  `Started`, `Label`, `Kill` and
`Fail` are `registerName` from `init`, `luaName`, `exit` and the failing `init`.
The id of a context that was not written reads as anything, in a growth (`Readings`) as well as where
`grab` and `unRegister` compare it with the address they seek (`Finds`): nothing initialises
the field, and the context is in its slot before.  So a kill with an address that is
out of date may end a context that is being launched, which is `lost`; its launcher does not notice
and takes the steps that are left.
An `unRegister` erases one name of the id, whichever the hash map meets first
(`EraseName`).

Growth is where the table stops being a set, and the properties say up to where
it is one, and they are proved for tables of any size: `Sound` holds until the table grows a second time, or grows while a
context has no id yet.  `LookupExact` says that up to then the id of a registered service leads to it, and
that no id leads to an unregistered one; that an address out of date leads to nobody
at all would be too much, for it may meet a context whose id is not written.  Both parts of `Sound` are needed.  Without
`~raced` TLC refutes `LookupExact` in the run's own instance; with `~raced` alone it needs a second growth in
a table of 4 (one launcher, one name, `FirstCaps` {2}, `MaxCap` 8, `IdMark` 7, 5 services), where
the trace has 18 states; the same instance with all of `Sound` passes.

* A growth that reads an unwritten id copies the context to an arbitrary slot,
  where a lookup does not find it.
* A copy that stays behind outlives its service.  With ids 1, 2, 3, 6 in use
  and 2 killed, its stale copy is still in slot 0 of the table of 4 grown to 8
  slots; the second growth copies it over a slot in which a live service is:
  the live one is lost and the dead one can be grabbed again.
* A stale copy keeps the context's memory and its place in `contextTotal__`
  from the first growth on, so the timer thread of such a run never reads zero.
* A growth that moves no context never assigns `ctxsCap__`; the loop goes on
  for ever with the write lock held (`Stuck`).  `RegisterReturns` says that
  a launcher that finds the table full leaves the loop otherwise, after as many growths as it takes.

Names outlive their service when it had several, for `unRegister` takes away one, whichever the map comes upon.
`NamesLead` bounds what stays: never more names for an id than the services that had it were given, less one for each that was killed.
With one name each, as `init` gives them, no name of a service that was killed is left; `luaName` may give more.

`Dispatch` has the registry as a set.  It is faithful while the table has its
first size, and up to the reference that a stale copy keeps while `Sound`
holds.  The group bits above `ID_MARK` are left out: an address with the group of
this process is the id (and is not zero, so that the address of an id 0 is not the null address).  Beyond `ID_MARK` slots an assertion ends the process;
`MaxCap` is below.

**Timer.**  The fields have the code's names, except `lists`, which has all wheels in
one function from places (`Near(n)` for `slots__[n]`, `Coarse(i, n)` for
`ts__[i][n]`).  `TimeOut` is `timeOut` by any service; `Tick`, `Update`, `Pop`,
`Dispatch`, `Emptied` and `Shift` are the timer thread in `tick`, `update`,
`local_process`, `local_dispatch` and `local_shift`, with a step for every stretch under the
lock.  `Place` is `local_append`, as it is written: the masks of the first test
are mixed up, so that `CurrentRound` holds only for the last tick of an odd
round, and such a request is put at an index of a coarse wheel's size.  What
follows from it in the model, step by step from the code:

* A request that expires in the round the near wheel is in goes to the list of
  that round in a coarse wheel instead of the near list of its tick.  In the
  first round, and in every 64th, that is list 0 of the first coarse wheel,
  which `local_shift` never moves: the request does not fire.
* A request that expires in another, later round ends up in the list of that
  round; when the round begins `local_move` pops it and appends it to the same
  list, for ever, with the lock held (`pc = "hung"`).  Every later `timeOut` waits.
* Only the last tick of a round may come out in the near wheel, at a wrong
  index.

No script in the repository asks for a timeout, so the thread turns empty
wheels, and this is what the fairness of `Dispatch`'s timer thread assumes: its
`Tick` (which wakes the workers and tests `contextTotal__`) is fair as long as no
request has hung the wheel.  `KeptOnce`, `TicksCounted` and `HangsOnlyWhenDue` hold of
the code as it is.  When the clock goes back `tick` only notes it; that is no
step of the model.  The comment "current round" on the test (`utimer.h:134`) is thus not what the
code does.  The session of an answer from the wheel is not initialised,
and is not in the model.

**Env.**  `env` is the Lua table of `uenv`.  `Startup` is the main thread's reading of
a setting with a default (`__getInt` and its kin: `getEnv`, then `setEnv`), which
ends before services run; `GetEnv`, `TestEnv` and `SetEnv` are the critical
sections of services.  `Put` is `setEnv` with its assertion, active in the
Makefile's build; `aborted` ends every behaviour.  Init takes every
configuration `loadDeploy` may have read.

## 6 Socket and the code

| State | Code |
|---|---|
| `sock[s]` | a `usocket` of `sockAry__`: `id__`, `status__`, `protocol__` is TCP, `sck__` (the id it was made for stands for the descriptor), `forwardIn__` as `tag` and `refs`, `forwardList__`, `forwardBuffer__`, `forwardSize__`, and whether the poller has it, for reading (`reg`) and for writing (`wr`) |
| `lock[s]` | `lock__`, as far as a service holds it; what the polling thread does with it is one step |
| `pipe` | `uchannel`'s pipe: listen `L`, start `S`, packet `D`, close `K`, close with the shutdown flag `H` |
| `call[c]` | where service c is in `socketListen` or `socketSend` |
| `at`, `op` | where the polling thread is inside a command or an event |
| `check`, `ready` | `cCtrl__`; the events of the last poll that are not handled |
| `owner`, `heard` | `opaque__`; the notices sent about an id |
| `wire`, `target`, `stale` | history: the bytes written, the sends, and whether a slot's new owner was met |

`Listen`/`ListenPost`, `Request` and `Send` to `Post` are the calls of services;
`ListenSocket`, `StartSocket`, `SendSocket` with `Dec`, and `CloseSocket` with `CloseFlush` and
`CloseAsk` are the commands; `Wait`, `Accept` with `Accepted`, `Receive` and `Write` are
the events; `Close` is the part of `onClose` under the lock, `BeginClose` the part before.
A message has two parts, which is enough to be cut.

The code protects little: the lock covers a service's direct write, the
forwarding by the polling thread, and the close.  The model keeps every other
read and write where the code has it:

* `reserveId` claims a slot by a compare-and-swap and writes the id afterwards.
  In between (`Claim`, `Named`) the slot is reserved under the *old* id.
* `isCanDirectWrite` reads the lists first (`Probe`), then counter and status
  (`Try`, `Verify`), without the lock and again with it.
* `incForwardRef` asks for the tag of whatever socket is in the slot now.
* A command is taken from the pipe as a whole, and a packet is put into the list
  (`SendSocket`) before it is counted off (`Dec`).

What the model showed of the code, beside the properties:

* `evIdx` and `evNum` are local to `onWait`: whenever a handler returns, as every
  close does, the rest of the poll is forgotten and asked for again.  It looks
  like waste, and `EventsAreFresh` rests on it: with the events kept (mutant
  `CloseKeeps`) an event would be handled for a slot's next owner.  The branch for
  an invalid socket in `onWait` is therefore never taken, and is no action.
* A close or shutdown that names the old id meets a slot between reservation and
  new id: `onClose`, `newSocket` or `beginForward` fails an assertion, and the
  process ends.  `stale` marks these runs, and `AssertionsHold` says that there
  are no others.  It takes the reuse of a slot, after 2^16 ids.
  With two services such a close may also *succeed*: it frees the slot while its new owner is still
  between reservation and id, `reserveId` gives the slot out once more, and two sockets share it.
  `EventsAreFresh`, `Conserved` and `NothingAfterTheEnd` have therefore the premise that there
  was no such step; `ClosedIsSilent`, `Counted` and the counter's assertion hold all the same.
* A sender delayed between its test of the id and `incForwardRef` counts for the
  slot's next owner: the count is never too low but may stay too high
  (`Counted`), and this socket never writes directly and closes softly only.
* `onClose` drops the list before it has the lock, so a service may write once
  more after what was dropped.  The peer sees a gap, and then the end.
* A listening or accepted socket that was not started and has an id from 65536
  on cannot be closed softly at all: it is half-closed and not registered.

Left out: connecting sockets (`operOpenSocket`) and UDP, which no command reaches;
`socketBind`, which nothing calls; warnings (the comparison with `NT_WARNING_SIZE` at
`usocket_server.cc:826` keeps the notice that a queue is empty from being sent); the wait
of a sender at 65535 packets; the exit command; descriptors that
are used again by the kernel while an old `sck__` still names them; errors of
the poller that come without a read event, which TCP sockets do not have.  A
socket belongs to one service, whose handler makes one call at a time: `Dispatch`
guarantees it (`OneHandler`), and it sends only after the open notice, as
`unetdrive::send` does.

## 7 Framing and the code

An event of the socket server brings a block of bytes for a connection.
`unetdrive::onData` copies it into the connection's buffer, in several passes if
it does not fit, and after each pass calls back `netGame::onRecv`, which takes packets
out of the buffer until there is no complete one.

| State | Code |
|---|---|
| `buf` | `socketBuffer`'s `data` up to `sz` |
| `data`, `write` | the block and the local `write` of `onData` |
| `at` | nothing going on, at the top of `onData`'s loop, or in the loop of `onRecv` |
| `fed`, `eaten`, `done` | history: the stream, how much of it has left the buffer, the commands carried out |
| `asked` | whether `onRecv` has asked for the connection to be closed |
| `trouble` | history: the block was read beyond its end, a packet was lost, `onRecv`'s `bufferData` was overrun |

A packet is a length, a command and a body.  Length and command are two bytes each; the
unit of the module is such a field, or as much of a body, so streams are cut at even
places only, and what is told apart is how many fields have arrived.  `Arrive`
is the event, `Fill` a pass of `onData`, and `Incomplete`, `Bad` and `Packet` are the three outcomes
of `protoAnalyze` with what `onRecv` does about them; the first two return to
`onData` (`Leave`).  `SizeOf` stands for the sizes of the structures of the known
commands.  The connection is open throughout; opening and closing are in `Gateway`.

What the model showed of the code:

* `read` compares `maxBuffer - s->buffer.sz` with zero; `sz` is a `uint32_t`, so the
  difference is positive unless the two are equal, and `read` takes the whole buffer.
  Packets behind the first are dropped, as is the beginning of one that is not
  complete, and what comes next is cut at a wrong place.  A buffer longer than
  2048 bytes overruns `bufferData`.  `AsSent` is what is left: blocks that bring no more than
  the end of one packet.
* `onData` tests `space - sz - write > 0` where `sz - write` is what has to fit.
  From the second pass on a copy may go beyond the event's data (`Beyond`); the
  buffer itself is never overrun (`TypeOK`).
* `packCount` has 16 bits.  A length of 65532 makes it 0, which is taken for
  "not yet": the packet stays in front, the buffer fills, and the loop of
  `onData` goes on without copying anything.  `RoomForPacket` and `HandlerReturns` say that only
  such a length does that.
* After a bad packet the buffer is emptied and a close is asked for; until the close notice comes
  the stream goes on being parsed from an arbitrary place (`asked`).

## 8 Payload and the code

An event has a pointer to a block that somebody allocated, and somebody has to free it.
`Payload` follows blocks through `EventRing`, whose events they are here.

| State | Code |
|---|---|
| `mem[b]` | 1 while the block is allocated, less one for each further `umemory::free` |
| `sending[b]` | the sender's `ctx_ptr` between grab and push, with the kind of the block |
| `attached` | the blocks whose field `buffer` points to a second block, as that of a packet does |
| `buf[b]` | 1 while that second block is allocated, less one for each further free |
| `worker` | the worker that has the destination's queue, in `onDispatchEvent`: it has grabbed the destination, runs the handler, or is through with it and about to free the data |
| `dest` | the destination: registered, unregistered, in `~uevent_queue`, gone |

A block is of one of three kinds, by how it is sent:

* a *text* (`sendString`, start events, notices) goes by `sendEvent` with an address, which frees what it cannot send;
* a *request* of `netgames` goes by the same call with a name; the five `...Proc` functions test
  its result with `!` and free the data when it is 0, which is the session of an event that *was* sent.
  They do not free what is queued only because `"gamemanage"` begins neither with `:` nor with `.`, so that `addrTo`
  never resolves it (`Resolves`).  Put a dot in front, and every request is freed twice: this is the mutant `ResolvesAll`,
  under which `OneOwner` fails;
* a *packet* (`forwardSocket`) goes by `sendEvent` with an event, which frees nothing; the caller does.

`Handle` is the handler, whose driver frees a packet's buffer behind its callbacks and clears the field (`onEvent`); `Execute` is its
return: every handler in the repository returns 0, for which `execute` frees the data.  A sender that is refused (`Refuse`) frees the buffer
with the packet.  The destructor frees the data and not the buffer: a gateway killed with
packets in its queue leaks them.  `BuffersFreed` relates the second block to the first: it is allocated exactly while somebody has the
packet that leads to it, so that handlers and senders free it, once, and no later than the packet; what the destructor
drops is the one exception, and only from then on.

Left out: `sendEvent` with the destination 0 and an id in place of an address returns before anything
is sent or freed (`ucall.cc:59`); it happens when the timer or a script names no one, and nothing in
the repository does it with data.  The notice to the sender of a dropped event has no data.

## 9 Gateway and the code

A gateway listens, takes up clients, and drops them; it does so by commands to the socket server, which
answers by events.  Both are queues, and neither side waits.

| State | Code |
|---|---|
| `sock[i]` | `status__` of the socket with id i: prepared (`plisten`, `paccept`), `listen`, `open` for `TE_CONNECTED`, `half` for `TE_HALFCLOSE`, `gone` for `TE_INVALID` or another id in the slot |
| `pipe` | commands: listen `L`, start `S`, close `K`, close with the shutdown flag `H` |
| `queue` | the gateway's event queue |
| `conns` | `netSocketMap__`, with `connected` |
| `replied` | sockets with an answer that may not have been written yet |
| `fd` | the number of the listener's descriptor, which a failing accept puts where an id belongs |
| `unlined[c]` | history: calls of `unLineProc` |

`Handle` is the gateway, a handler at a time: `onStart`, and `onEvent` of the driver with the callbacks of `netgames` inside.
`Serve` are the commands, `Accept`, `AcceptFails`, `Data` and `End` the events of the poller, as far as they show outside
the socket server; what goes on inside is in `Socket`.  Ids are given out in order and not again (in `Socket` they are);
`reserveId` and the poller may fail.

`Sessions` is what the game may rely on: a client is admitted, may open, and ends once, when it is
lost.  `ImplementsSessions` is the refinement, and `EndsReported` that the end is reported.

What the model showed of the code:

* The end of a connection has three forms (a close, an error, and a command that meets no socket), and the entry in the map
  goes only with a close event.  `onError` therefore asks for a shutdown even of a socket that is gone, and the
  socket server answers commands for sockets it does not have.  Without either (mutants `OnErrorErases`,
  `CloseSocketSilent`) entries stay for ever or clients are forgotten.
* A client above the limit is closed without having been started.  If its id has a tag (from 65536 on), the close waits for a write
  that never comes (finding `socket_close`): the socket is neither registered nor freed.  In the model it is `"lame"`, and
  `NoneForgotten` leaves it out.
* An accept that runs out of descriptors reports the error of the id `fd`.  If a client has this id, it is
  shut down (`ShutdownsAreDue`); if it is the listener's own, the gateway stops listening.
* `onStart` does not look at the result of `beginListen`: a socket with the id -1 is entered in the map and started;
  the error that comes back is answered by a shutdown, and the close event takes it out again.
* An answer to a client that has gone is freed by `socketSend` and by `netgames`.  It takes an answer
  between the end of a socket and the event about it; `ConnectedIsOpen` is that window.

Left out: `onWarn` (it writes a log line), a gateway that is killed while its sockets stay (nobody closes them),
answers of the game manager that name no client of the gateway.  In this repository no request reaches
a game manager (section 8), so that answers come from services that send on their own; `Reply` has them nevertheless.

## 10 Lifecycle and the code

| State | Code |
|---|---|
| `mods`, `opened` | `umodMgr::mods__`; history: how often a module was opened |
| `life[s]` | the context: not made, in the registry, unregistered, deleted |
| `queue[s]` | its events, of which only the sender matters |
| `callback[s]`, `loaded[s]` | `callback__`; what `loadlua` returned |
| `pc[s]`, `launches[s]` | what a worker does with s: grabbed, in `launch`, in `start` (or another handler of a C++ service), within it in `query`, `init`, `luaLaunch` or `retireAll` |
| `env` and the rest | module `Env` |

`Configure` is `startup()` reading its settings, `Bootstrap` the launch of the first script; `Grab`, `Pop`, `Load`, `Finish` are
a dispatch; `Query` and `Open` the two halves of `umodMgr::query` under its two locks; `Launch` and `Read` the rest of `luaLaunch`;
`Kill` is `ucall::exit`, for another service or itself; `Abort` and `Retire` are `retireAll`, slot by slot.
A C++ service built on `ucstart` takes the same course as a script, with an `onStart` that cannot fail.

What the model showed of the code:

* A script that cannot be loaded unregisters itself, then sets the callback and sends itself the event that
  starts it, all the same.  It does not start: the send finds nobody, and the worker that still refers to the service serves one event with a reference.
  `StartNeedsLoad` holds by this, and fails for a worker that goes on with what is queued (mutant `LoadGoesOn`), which is what a
  weight other than -1 would do.
* Once started, `callback__` stays `start`: each further event runs the script's `start` again, notices included.  So does an event
  of another service that comes before the second one of its own.
* `luaLaunch` reads the id of the new service after its queue was pushed.  `Read` happens with the child in any state: a
  script that fails to load may be freed by then.
* `retireAll` is called by `rednet.abort` and has no end.  The caller keeps a worker, and its own context; `contextTotal__` does not
  reach zero, and the timer thread does not stop.  What is launched after is retired in the next pass.
* Reports about a failed load go to `.launch`, which no service of the repository is called.

Left out: slots, names and ids (`Registry`), the registry's lock, several workers competing for queues (`Dispatch`), what `start` does
besides the calls.  A launch that fails because the registry has no service to spare is not in the code; in the model
launchers stop when `Services` is used up.

## 11 What is checked

Each run finishes within about two and a half minutes on two cores.  `Ctx` has the logger
`lg`, the bootstrap service `bs` and, in `dispatch_launch`, the services `s1` and `s2` that
some handler may launch.

| Run | Instance | Question |
|---|---|---|
| `dispatch_launch` | 2 workers, the timer thread, 4 services (the second launch in place of the send), 1 send, 1 failing launch | Is the invariant of the proofs one, who counts, is nothing stranded, what can a kill in a launch do, and does the dispatcher implement the mailboxes? `IInv`, `NoneStranded`, `HangsOnlyInLaunch`, `TotalExact`, `ImplementsMailbox`, `DeadStaysDead` |
| `dispatch_live` | 2 workers, timer and socket thread, 2 services, 1 send | Is every event served, does every destructor end, do the workers return? `EventsServed`, `DestructorEnds`, `WorkersReturn` |
| `payload` | 3 blocks of 3 kinds, sizes 1, 2, 4; threshold 1 | Is every block freed, once, by its owner; is the buffer a queue, are its warnings sane? `OneOwner`, `EventuallyFreed`, `BuffersFreed`, `ImplementsFifo`, `WarningsGrow` |
| `registry` | 2 launchers, 4 services, tables of 1 or 2 slots that grow to 4, 4 ids, 2 names | Does an id lead to its service and to no other that has one, also when ids start again, how many names stay, and does `registerId` return when it can? `LookupExact`, `KilledAreFreed`, `NamesLead`, `RegisterReturns` |
| `lifecycle` | 3 services, 3 modules, 1 setting, 1 value, 1 send | Is a module opened once, does what was loaded start, and only that? `OpenedOnce`, `StartNeedsLoad`, `LoadedStarts` |
| `timer` | near wheel of 4, coarse wheels of 2, 64-tick clock, 2 requests, up to 2 ticks behind | Is a request kept, once, and the clock counted? `KeptOnce`, `TicksCounted`, `HangsOnlyWhenDue` |
| `env_assert` | 3 services, 3 keys, 1 of them a setting, 2 values | Does `setEnv`'s assertion hold? `AssertionHolds`, violated |
| `socket` | 3 slots, 5 ids, 3 commands, 2 sends | Are bytes, counts, events and ends right, whoever comes into a slot? `AssertionsHold`, `EventsAreFresh`, `Conserved`, `Counted`, `NothingAfterTheEnd`, `ClosedIsSilent` |
| `socket_close` | 2 slots, 2 ids, 3 commands, no send | Is a close answered? `CloseAnswered`, violated |
| `gateway` | a listener, 3 clients, 2 of them within the limit, 1 with a tag; 1 datum, answer or failing accept | Do map, sockets and what is on its way agree, and does each session end, once? `AcceptFindsListener`, `NoneForgotten`, `ConnectedIsOpen`, `ShutdownsAreDue`, `ImplementsSessions`, `EndsReported` |
| `framing` | 5 values, lengths modulo 8, buffer of 5, packets of up to 3, 6 units | Do bytes and commands get through, is there room, does the handler return? `Conserved`, `RoomForPacket`, `AsSent`, `HandlerReturns` |
| `framing_readout` | the same, 5 units | Is the buffer read out? `ReadOut`, violated |

Why the bounds are enough to mean something.  Two workers are what a race for
a token takes; a third can only repeat what the second does, and the proofs
cover any number.  With a send, the start event and the timer's
events a queue has events from several senders, so yields with and without
competition, pushes against the empty pop, and notices that bounce to a service
that is dying all happen; `dispatch_live` adds the socket thread, which sends and wakes
workers in its own time.
Three services make two queues wait while a third is served.  A kill in the launch takes one more at a time: one service that launches,
one that is launched, and one of which the other worker runs the handler that kills; with the logger, whose handler calls nothing, these
are four.  In `dispatch_launch` services and sends together are at most four (`MaxCalls`), so that with the
fourth service there is no further send.  TLC reaches both undefined outcomes within these bounds.  One failed launch
is enough to make the counter wrong by one.

The buffer of `payload` starts with one slot, so that three blocks make it grow twice, and
it wraps at each of its three sizes.  A block of each kind can be at each stage at the time the
destination is killed: before the sender looks, between its look and its push, in the queue, with the
handler.  A block that is free may be sent again, as another kind.

The registry's table begins with 1 slot or 2 and grows to 4, with launches and kills before, during and
after: from 1 slot it takes two growths, so that `Sound` ends either way, and a launcher may have to grow the table twice, or find
that a growth moves nothing, before `RegisterReturns` is due; a growth past 4 slots is beyond `MaxCap`.
Ids are read before they are written, by growths and by lookups.  Four ids and `ser` = 1 at first make `ser` pass
`ID_MARK` with the third service, while the others are registered, and the fourth service may be given an id that a name still leads to.
Two names let a service have both, or two services one after the other, and give `EraseName` a choice.
Two launchers let one keep the lock or have an unwritten id while another grows
the table.  The timer's two wheel sizes are the smallest whose masks differ as
8 and 6 bits do (a near list count that is a multiple of a coarse one); five wheels make a
clock of 64 ticks, which `MaxTicks` = 66 lets wrap, with a cascade at every level
on the way.  The waits are one of none, one in the same round, one in the next, one a few
rounds off, one that needs a high wheel.  `env_assert` has three services and two keys that are no
settings: a race for a key takes two, with one to look on.

`lifecycle` has three services, so that the script that bootstrap launches may launch one
while that launches another, and one module of each kind: that of scripts, one of C++ services, one that
cannot be opened.  One event from one service to another lets a foreign event come before, between and
after the two a script sends itself.

`gateway` has a listener and three clients, one more than the limit lets in
(`Limit` = 2 compares with the listener's entry counted), the last with a tag in its id.  One datum, answer or failing accept
in a run is enough for each to meet every state of the others, and `fd` may be any of the ids.

A socket's first id without a tag is that of the listener; of the three slots two are left
for connections, one with a tag and one without, which may write directly.  The
five ids go round the slots, so that slots are used again by connections and by
listeners while packets, commands and senders of the old owner are on their way; two
sends are what a reordering takes (one in the pipe, one direct).  `socket_close` has
two slots, so that its one connection has a tag.

The framing's buffer is a little less than two packets; in six units it is filled, comes
to a second pass, is overread and drained again.  The values are two commands, a body's
length that fits and one that is too long, and the lengths that wrap to 0 and 1.

The bounds are `MaxSend`, `MaxFail`, `CountMod`, `MaxLength`, `MaxServices`, `FirstCaps`, `MaxCap`,
`MaxLabels`, `MaxDiff`, `MaxTicks`, `MaxId`, `MaxCalls` (of `Dispatch` and of `Socket`), `MaxFed`, `LastId`, `MaxExtra`, `MaxSends` and the sizes of the sets; nothing else is
limited.  The runs say `CHECK_DEADLOCK FALSE` because the system really
stops: once the timer thread has ended and the workers have returned, or where the code has no defined outcome, no
step of `Dispatch` is left; `Payload` stops when the destination is gone and every block is
freed, `Gateway` when all clients have come and gone, `Lifecycle` when all services
are gone or have nothing to do, the registry and the
timer at their bounds or in a loop that never ends, the environment when every
key is set or an assertion has failed, the socket server when nobody calls and no
peer does anything, the framing when no more comes in.

What the conditions in the properties say about the code:

* `TokenTracked` and `NoneStranded` hold *until shutdown*: `Leave` drops `q_ptr`
  with whatever is in it.
* `HangsOnlyInLaunch` holds *until shutdown* too: a queue that `Leave` has given up with
  events in it goes with its service, whoever unregisters that, and the unregistering thread then hangs.
* A failed launch makes `total` one too low, for `~ucontext` decrements what
  `init` never incremented; so does a launch that is killed before it has counted, until it does.  `TotalExact` says so exactly; `WorkersReturn` is
  therefore about runs without a failed launch.  After
  one, the timer thread stops a system that still has a service, or, with the
  counter past zero, never stops.  Nothing in the repository claims otherwise,
  so this is a property of the code and not a finding.

Every property has a mutant in `PROJECT.json`: a definition changed the way a
plausible bug would change the code, under which the property fails.

## 12 Findings

Three runs are meant to be violated; each states what the source says of itself.

* `framing_readout`: the comment "each read requires the buffer to be read out" in `onData`
  (`rednet-src/unetdrive.cc:258`), for which `onRecv` loops.  In the trace two packets come in two
  blocks, and both are in the buffer when `onRecv` looks: the unsigned comparison in `read` (line 162) takes
  them together for the first, and the second is not carried out.
* `env_assert`: the assertion in `setEnv` (`rednet-src/uenv.cc:34`).  `rednet.setenv`
  (`lualib/rednet/base.lua:59`) tests the key first, in another critical section.
  Two services set the same key: both tests pass, and the second write ends
  the process.
* `socket_close`: the remark in `unetdrive::close` (`rednet-src/unetdrive.cc:208`) that the
  callback of the close deletes the resources.  `isForward` (`network/usocket.cc:33`)
  tests `(forwardIn__ && 0xffff) == 0`, with `&&` for `&`, and so counts the upper half, the tag of
  the id, as packets in flight.  For an id from 65536 on a close of an idle
  socket makes it half-closed, and nothing is left whose sending would end it:
  the socket stays, the peer is not told, and the callback comes only if the
  peer closes.  The trace is a listener, one connection and one close.

## 13 Fairness

`FairSpec` has weak fairness per thread, not per action:

* a worker continues with dispatching, launching or a send it has begun: these
  steps wait for nothing but short locks;
* the socket thread finishes a send it has begun;
* the timer thread finishes a send, ticks, and stops: it sleeps 2.5 ms a turn
  and waits for nobody.

A handler may send, launch or kill, and is not obliged to; the bounds on sends
stop a handler that posts to itself for ever from being the only behaviour.
All of it ends where a worker is `hung` or `wild` (`~Undefined`), and the liveness properties are about what comes before.
Strong fairness is not used.  `Wait`, and so the question which sleeper a
signal wakes, is left to chance: `EventsServed` has to hold although the same
worker might be woken every time.

In `Registry` the launcher that has the write lock goes on with its loop
(`Retry(t) \/ Grow(t)`, for each launcher): it waits for nobody.  Nothing else is assumed there.

In `Socket` the polling thread goes on, and a service finishes a call it is in; both wait
for nothing but a short lock.  Peers and services need not do anything.

In `Framing` the worker that is in `onData` goes on (`Handler`); it waits for nobody.  Nothing has
to come in.

In `Payload` a worker goes on with the destination, a destructor that has begun ends, and a sender that has
found the destination pushes: the first two are what `EventsServed` and `DestructorEnds` show of `Dispatch`.

In `Gateway` the service is served (`Handle`), and the polling thread takes the commands that
are in the pipe (`Serve`): `onWait` looks there before each poll.  Clients, peers and the game need not do anything.

In `Lifecycle` a service with events is served as far as the end of its load (`Grab`, `Pop`, `Load`).  A
`start()` need not return: a script may run for ever, and one that aborts does.

## 14 What is proved

Each theorem holds for every value of the constants that the named assumption of its module allows.
`[]` of a state predicate, unless the table says otherwise.

| Module | Theorem | Property | In a run |
|---|---|---|---|
| `DispatchProofs` | `Inductive` | `IInv` | yes |
| | `TypeCorrect` | `TypeOK` | |
| | `TokenIsExclusive` | `TokenExclusive` | |
| | `TokenIsTracked` | `TokenTracked` | |
| | `NoEventStranded` | `NoneStranded` | yes |
| | `HandlersExclusive` | `OneHandler` | |
| | `AssertionsHold` | `OnlyOpenExecuted` | |
| | `UnregisterHangsOnlyInLaunch` | `HangsOnlyInLaunch` | yes |
| | `StopReachesAll` | `NoSleeperAfterStop` | |
| | `TotalIsExact` | `TotalExact` | yes |
| | `TheDeadStayDead` | `DeadStaysDead`, an action property | yes |
| | `DispatchImplementsMailbox` | `ImplementsMailbox`, a refinement | yes |
| `PayloadProofs` | `RingStaysInOrder` | `RingOK` of `EventRing` | |
| | `RingIsFifo` | `EventRing` alone implements `Fifo` | |
| | `EventsGoThroughFifo` | `ImplementsFifo`, with `Payload`'s users at work | yes |
| | `BlocksHaveOneOwner` | `OneOwner` | yes |
| | `BuffersGoFirst` | `BuffersFreed` | yes |
| | `WarningsAlwaysGrow` | `WarningsGrow` | yes |
| `RegistryProofs` | `RegistryIsSound` | `RegInv` | |
| | `LookupsAreExact` | `LookupExact` | yes |
| | `KilledLoseTheirSlots` | `KilledAreFreed` | yes |
| | `NamesLeadToServices` | `NamesLead` | yes |
| `TimerProofs` | `TimerIsSound` | `KInv` | |
| | `WaitersAreKeptOnce` | `KeptOnce` | yes |
| | `TheWheelKeepsTime` | `TicksCounted` | yes |
| | `OnlyDueRequestsHang` | `HangsOnlyWhenDue` | yes |
| `SocketProofs` | `SocketIsTyped` | `TypeOK` | |
| | `WritesAreToTheLiving` | `ClosedIsSilent`, an action property | yes |
| | `CountersAreExact` | `Counted` | yes |
| | `AssertionsAreKept` | `AssertionsHold` | yes |
| | `EventsKeepTheirSocket` | `EventsAreFresh` | yes |
| | `TheEndIsLast` | `NothingAfterTheEnd` | yes |
| | `NothingIsLost` | `Conserved` | yes |
| `GatewayProofs` | `GatewayIsSound` | `GInv` | |
| | `AcceptsAreExpected` | `AcceptFindsListener` | yes |
| | `NoClientForgotten` | `NoneForgotten` | yes |
| | `NoUndueShutdown` | `ShutdownsAreDue` | yes |
| | `ConnectionsAreTrue` | `ConnectedIsOpen` | yes |
| | `GatewayImplementsSessions` | `ImplementsSessions`, a refinement | yes |
| `FramingProofs` | `BufferFits` | `TypeOK` | |
| | `RoomStays` | `RoomForPacket` | yes |
| | `StreamIsConserved` | `Conserved` | yes |
| | `CommandsAreThoseSent` | `AsSent` | yes |
| `LifecycleProofs` | `PointersAreStable`, `SettersAreFew` | `PointersStay`, `OneWinner` of `Env` | |
| | `ConfigurationIsStable` | `ConfigurationStays` of `Env`, an action property | |
| | `ModulesOpenOnce` | `OpenedOnce` | yes |
| | `OnlyLoadedStart` | `StartNeedsLoad` | yes |

**The dispatcher** (`DispatchAssumption`: the logger and the bootstrap service are
different services, workers are not external threads, `None` is none of them,
`Ctx` is finite and `CountMod` exceeds its size).  That a queue is a token is not inductive.
`IInv` in module `DispatchInv` is, and is a conjunction of

* `TypeOK`;
* `Shape`: what a worker refers to at each place in `onDispatchEvent`; without
  it a worker in `Requeue` might push a queue it does not have;
* `Phased`: how far a launch has got decides who can know of the service.  A
  service whose queue was never pushed has `inglobal__` set and is in no one's
  hands but its launcher's, so no push can enqueue it early;
* `Sourced`: sources of events got past `registerName`; a notice from a
  destructor therefore goes to a service whose queue may be pushed to;
* `TokenExclusive`;
* `Flagged`: the flag is set on every queue that is held or not empty, and, as
  long as the workers run, a registered service with the flag set has its queue
  held;
* `Reaping`: nothing refers to a queue whose destructor is at work;
* `Carried`: an event on its way has a thread that holds its destination;
* `HangsOnlyInLaunch`, which is a property of its own.

`Flagged` is where both halves of the flag protocol meet: a push enqueues when
the flag is clear, thus when nobody holds the queue (exclusion), and a queue with
events has the flag, thus a holder (no stranding).  The proof that `IInv` is
inductive has one lemma per action or group of alike actions.
`UnregisterHangsOnlyInLaunch` follows because a registered service whose launch is over has a non-empty
queue referenced from elsewhere (`KillReaps`): `unRegister` cannot be the one to
drop its last reference.  A service that is being launched has its queue in the hands of its launcher, whose pointer
keeps nothing alive.  `TotalExact` is an equation of cardinalities modulo `CountMod`, carried along
`IInv`: the lemmas say how the two counts move together.  The refinement of `Mailbox` has a lemma per group of actions: a step of the queue
protocol is a stutter, and the last reference going is the abstract service's end, also where it goes in the launch.

**The buffer and its blocks** (`PayloadAssumption`; `RingAssumption`: its initial size is positive).  The refinement maps the content, the `Length`
elements from `head__` on, to the abstract sequence.  `Positions` is the arithmetic
of wrapping; `PushRoom`, `PushFull` and `PopStep` show what each operation does
to the content.  For the blocks, the holders of a block are its sender, the places of the buffer it is in, and the handler
(`HoldersCount`).  `BuffersFreed` is carried along them: a packet that is with its sender, in the buffer or with a handler is
allocated, so its second block is; the steps that free one of the two are `Refuse`, `Handle`, `Execute` and the destructor's.  `PInv` adds to the properties what a worker has in hand (`Shape`) and that the threshold
covers every report (`Warned`).

**The registry** (`RegistryAssumption`).  `RegInv` says what is written of a context at which moment (`Written`,
`Launching`), and, as long as the table is `Whole`, that a registered service is in the slot its id belongs to
(`Placed`), and that a context without an id is in the slot of the number it was given and in no other (`Fresh`), so
that it cannot stand in a lookup's way to a registered service.  A growth copies slot by slot, and what the loop has copied is a recursive function; its
invariant is proved by the induction over natural numbers that first-order logic allows, from a least counterexample (`CopyInduction`).
Before the first growth the table is `Tight`: the premise of `KilledAreFreed` is needed for a stale copy.

**The timer** (`TimerAssumption`: a near list count not below that of a coarse one, as 256 and 64).  `KInv` says that the wheels
hold the requests that wait, each in one list and once, except for the one in hand.  A move keeps this whatever
`local_append` computes, so that `KeptOnce` does not rest on the arithmetic that section 5 finds wanting; `HangsOnlyWhenDue` does.

**The socket server** (`SocketAssumption`: finitely many services; `None` is no service, number or assertion).  The invariant is in five layers, each
proved with the help of those before it:

* `SlotsInv`: types, what a service or the polling thread holds, and that a service that writes has the lock and its
  socket only closes softly under it.  `ClosedIsSilent` follows, however the slots are reused.
* `OnceInv`: an id is given out once; nothing is sent, asked or told of it before it has an owner, and its `L` is the first command about it.
* `CountInv`: `Counted`.  A socket that is made starts with nothing in flight, for it has not been told open (`Opening`).
* `Sound`, until the first `stale` step: a reserved slot has one claim on it (`Claimed`, `OneClaim`: a service in `socketListen`, an `L` in the pipe,
  or the polling thread in an accept); an open slot has its socket where its id says, with its size right (`OpenSlots`); what the
  polling thread has in hand and what the last poll reported is open (`OpenInHand`); an id that has ended is neither in a slot nor on its way there (`Ended`).
* `LineInv` adds to these, until the same step, how the messages of a connection stand in line.  `Traffic`: only its owner sends on it
  (`OwnSends`), and packets are in the pipe in the order of their numbers, all before the message of the call (`Queue`).
  `FlowInv`: the wire, the rest of a direct write and the list hold exactly the messages that have left the pipe and the call
  (`FilledAt`), all older than those in the pipe; a service that writes itself has nothing of its own in the pipe, and neither rest nor list in
  its way (`HeldBy`), which is what the second test of `isCanDirectWrite` is for; a connection that was not told open has sent nothing (`UnopenedAt`).

`Conserved` speaks of ascending numbers and of positions in the pipe; `LineMeans` puts the three sets of messages, each older than the next,
together again as one sequence (`Ascending` of a union).  A step that concerns one connection leaves those of all others as they were (`FlowStays`).

A lemma for each action says first what it does to one slot, the calls and the pipe (`ListenStep`, ..., `ReceiveStep`); the layers are
proved from these lemmas and do not look at the actions again.  Most actions leave every slot its face (`Faces`) and are dealt with by one lemma, `Calm`.

**The gateway** (`GatewayAssumption`).  `GInv` relates the map, the sockets, the pipe and the event queue: what each event and each command says of its
socket (`Sound`, `Apt`), which may not come before which (`Ordered`, `StartsFirst`), and that every client is on somebody's account (`Accounted`).
The refinement of `Sessions` has a lemma for the steps that show to a client (`OnAcceptMaps`, `OnOpenMaps`, `OnCloseMaps`) and one for the rest.

**The framing** (`FramingAssumption`: a header is a packet, a packet is shorter than the
buffer, the buffer is below `Wrap`).  `TypeOK` and `RoomForPacket` are inductive together:
a pass never copies more than the space, a packet that is taken leaves an empty buffer, and
one that stays is either shorter than the limit or has a length that wraps.  The
bound on `write` is where reading beyond the block is limited to one buffer.
`Conserved` compares sequences and does not say where in the stream they are; `Tracked` does, unit by unit: the buffer
begins behind what was eaten, the rest of the block ends where the stream does, and the lengths add up.  A pass moves units
from the one to the other, and an emptied buffer moves its beginning.
`AsSent` speaks of a stream that has come to rest; `Carried` of every moment: whatever comes after what has been eaten, the commands of the whole
are those carried out and then those parsed from there on (`Agrees`, `Split`), and a handler that has returned leaves no whole packet in the buffer.
`Parsed` is a recursive function on the places of a stream.  That there is one (`ParsedExists`), and that it yields
packets (`ParsedMeans`), is an induction from the end of the stream to its beginning; the step needs only `ParsedLocal`, that what is parsed from a place
depends on later places alone.  The induction itself is first-order (`SetInduction`), from the least number outside a set of
numbers (`LeastNatural`), and that from the well-foundedness of inclusion on the finite sets `0 .. m`, which the library proves.

**The environment and the lifecycle** (`EnvAssumption`; `LifecycleAssumption`: bootstrap is a service, and the module of scripts can be
opened).  `EnvInv` adds to the two invariants the types
and that a key someone has won is set; a key that is set stays as it is, because
`Put` writes only keys that are not.  That argument needs the
assertion: in a build with `NDEBUG` all three would fail.  `IInv` of `LifecycleProofs` adds to `OpenedOnce` and `StartNeedsLoad` that nobody is at work before bootstrap
is made (`BootFirst`), for the main thread enters the first module without looking; and that the first event
loads, is served once, and leaves a service that failed unregistered and idle (`LoadFirst`).

**Only model-checked.**  Liveness (`EventsServed`, `DestructorEnds`, `WorkersReturn`, `RegisterReturns`, `HandlerReturns`, `EventuallyFreed`,
`LoadedStarts`, `EndsReported`): the prover has neither fairness nor `ENABLED`.  Every invariant and action property
that a passing run checks is stated by a theorem.


## 15 What is left out

See `components` in `PROJECT.json` for each part and reason.  In short: bindings
to Lua, becoming a daemon, the configuration file, the
memory hook, the pollers' system calls and formats of log lines are outside a
specification of this kind.  `uluaseri` packs and unpacks Lua values and nothing calls it, `ucoroutine` is not in the build,
`service_depotgames.cc` does not compile.  The Lua side of calls and answers (sessions in `base.lua`, which pair with `session()` of a
context and the timer's answers) is not modelled yet.

## 16 Plan

All modules of section 2 are done, and all the invariants, action properties and refinements that the passing runs check are proved.  Next, the most important first.

1. Sessions of calls in `base.lua`, with `session()` at a scaled width and the answers of the timer.
2. Composition: an abstract registry (a set of services) that `Registry` implements while `Sound`, under `Dispatch` and `Lifecycle`.
