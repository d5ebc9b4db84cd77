# A verification project for libmq

libmq is a small C library that gives an application one interface to several
message queues. This directory holds TLA+ specifications of it, the TLC
configurations that check them, and proofs checked by TLAPS.

## The system

| part | source | state | operations |
|---|---|---|---|
| engine table | `engine.c` | the array `engines`, `enginecount`, the rwlock `enginelock`, `mq_init_once_` | register, three kinds of unregistration, look up the engine of a URI and construct a connection, initialise once |
| plug-in loader | `plugin.c` | the position in the plug-in directory, a path buffer, the files mapped | load every shared object and call its `mq_entry()` |
| connection and message API | `connection.c`, `message.c` | none | dispatch to the engine; release what a failed connect leaves, and what accept, reject and pass dispose of |
| error macros | `libmq-engine.h` | `syserr`, `errcode` of a connection | reset and set the error; the `BACKOFF_` macros, which no engine uses |
| AMQP engine | `queues/qpid-proton.c` | connection: state, error, messenger, address; message: kind, tracker, body, `addressed` | connect, receive, dispose, compose, send, deliver, release |
| random engine | `queues/random.c` | connection: state, error, partition, cluster; message: text, partition | receive random numbers; partitions |
| `mq-recv` | `mq-recv.c` | the message at hand | print and accept every message |
| `mq-send` | `mq-send.c` | an input buffer | read the input, send it as one message |

How they interact. An application, or a tool, calls the connection API.
`mq_connect_*()` calls `mq_create_()`, which runs `mq_init_()` through
`pthread_once()`: the built-in engines are registered, then the loader maps the
plug-ins, whose `mq_entry()` calls `mq_register()` back. `mq_create_()` then
looks the scheme up under the read lock and calls the engine's constructor.
Every other call is dispatched through the function table of the connection or
message. The AMQP engine calls the Proton messenger, which talks to a broker.

What is hard. The table and the initialisation are shared by threads, plug-ins
register from inside the initialisation, and code may be unloaded while the
table still points to it. A connection belongs to one thread, but its calls may
come in any order, fail at any point, and depend on one another through the
error state, the messenger's window of deliveries and the trackers that
messages hold.

What makes each part correct:

* engine table: one engine per scheme; every call is atomic; vacant slots are
  reused; a constructor that runs is of a registered engine; nobody looks
  before the initialisation is over; threads do not wait for one another in a
  circle; every call returns.
* loader: no engine of an unmapped file; nobody looks an engine up before the
  plug-ins are loaded; the loader finishes whatever fails; it uses the table as
  any caller.
* AMQP engine: a messenger is freed once; a disposition takes effect; a
  delivery is settled with its message; errors are reported and do not
  survive; a message arrives as it was composed, where it was addressed.
* random engine: a message's partition follows the rules of its comments, no
  partition in use is freed, and errors are told.
* mq-recv: a message is accepted only after it was printed, so none is lost
  but by a kill or a failure of stdout, and no more than those may cost; the
  queue is drained.
* mq-send: the buffer is never overrun; a successful exit means the broker has
  the whole input.

## The modules

**`EngineRegistry`** models `engine.c`. The variables are those of the C code:
`engines` (a sequence of slots; indices start at 1 where C's start at 0),
`writer` and `readers` for the rwlock, `once` and `runner` for
`pthread_once()`, and for every thread its place `pc` and the arguments and
locals of the function it is in (`arg`, `uri`, `c`, `spare`, `count`). Each
iteration of each loop is an action. What happens between the last write and
the unlock is one action with it, since the lock excludes whoever could see a
difference. Pointers that are only compared (handles, constructors) are model
values. `RegisterNoMemory` stands for the two allocation failures, which leave
the same table. The slots that `mq_unregister()` and `mq_create_()` skip because
they are vacant or do not match are one action each.

A call made by a plug-in's `mq_entry()` is made by the thread that runs
`mq_init_()` and returns there (`MayCall`, `Collect`). `EngineRegistry` alone
lets that thread make any registration calls: it is the registry with
arbitrary plug-ins.

**`EngineMap`** is what the registration interface promises: a map from schemes
to engines on which every call takes effect at one instant. `EngineRegistry`
implements it (`MapSpec`) under a mapping with one subtlety: the two functions
that remove several engines take effect when they obtain the lock, because the
engines they will clear are hidden from then on (`Doomed`), and their count is
known then (`tallyBar`).

A thread is `Blocked` where POSIX may make it wait: for the lock, also for one
that lets a waiting writer go before readers, and for `mq_init_()`. The model
itself lets readers in as long as there is no writer.

**`PluginLoader`** extends `EngineRegistry` with `mq_plugin_init_()`, and makes
the calls of a plug-in those that its `mq_entry()` makes: a sequence of
registrations under its own handle, given up at the first failure, as in
`random.c`. Names are not spelled out; their lengths matter, because a name
longer than all before needs an allocation, which may fail and end the loading,
as an error of `readdir_r()` does at any entry (`CloseDir`).
The application's own engines use other handles and constructors.

**`ProtonQueue`** models a connection of `queues/qpid-proton.c` together with
what `connection.c` and `message.c` add to each call. A connection belongs to
one thread, so a call is one action. The application makes any legal sequence
of calls; that it does not use a message after releasing it or after
`mq_disconnect()` is its obligation. The messenger and the broker are not in
the repository and are modelled from their use:

* receiving makes some of the broker's messages available, or fails, or, as
  the code allows for, does neither;
* a delivery got from the messenger enters its incoming window, the oldest one
  leaves it, and a tracker outside the window is ignored without an error;
* what is put is kept until it is sent, and stopping the messenger may lose it.

`log` records for each delivery what the application asked (`asked`) and what
the messenger did (`state`); `want` records what the application composed and
`content` what the Proton message holds. An error has a kind only, and `none`
is the error number 0, which is what the code records when it asks the
messenger for an error that the messenger does not have. `last` tells a call
that failed from one that succeeded, and apart from both `mq_set_cluster()`,
which succeeds and, unlike the others, does not reset the error.

**`MessageQueue`** is what `libmq.h` promises of a connection, without a
messenger: a message in hand stands for a delivery or is the application's own,
a delivery's fate is decided once and by the message that came with it, and
what is sent is delivered in order and once, or lost when the connection is
closed. `ProtonQueue` implements it (`QueueSpec`): a message in hand is known by
its tracker (`heldBar`), a fate is the state of the delivery (`fateBar`), and
the unsent messages are those the messenger keeps.

**`RandomQueue`** models a connection of `queues/random.c`. Its numbers are
left out; what is kept is the partition of the connection and of each message,
the cluster the connection takes its partition from, the error state, and
`copies`, the strings that exist on the heap. `NULL`, the empty string and a
name are three different values, since the engine treats them differently for a
connection and for a message. `asked` remembers the partition last asked for,
by name or by cluster, for the property that compares it with what a message
reports; `missed` remembers that this was a cluster whose partition could not be
copied, which the engine does not report and the property excludes.

**`MqSend`** models `mq-send.c`, with every call of the library an action of
`ProtonQueue` (`Queue!ConnectSend`, ...), so the failures of a call are those of
the engine. The input is a number of bytes, `bufsize` and `buflen` are the
variables of the program, and `fread()` may return any number of bytes up to
what it was asked for, fewer than that at the end of the input or when it fails.
A read that fails is assumed to lose no bytes of the input.
The body of the message is given by its length. A failed `mq_message_create()`
makes the program crash on the pointer that was not set (`CreateFailure`).

**`MqRecv`** models `mq-recv.c` in the same way, with what around the program
decides about the loss of a message: stdout, which is buffered by the C library
(`room` messages when it is a pipe, none on a terminal) and which may fail, on a
full disk for example (`WriteFails`, `failures`): then some of what it held back
may be dropped and what it is given refused, and the program does not notice;
the messenger, which
tells the broker about an accepted delivery only when it runs, that is while
`mq_next()` waits (`Wait`) or the connection is closed; and the broker, which
offers to the next process what it has not been told of. The program may be
killed before any of its steps (`Crash`) and started again (`Start`).

Operators whose names carry a suffix (`WrLock_IgnoresReaders`) are seeded
faults: the definition of the same name with a plausible bug, used to see that
a property notices it.

## The runs

| run | module | question | bounds |
|---|---|---|---|
| `registry` | `MCEngineRegistry` | do the invariants, the inductive invariant and the refinement of `EngineMap` hold, and do threads never block one another for ever? | 2 threads, 2 schemes, 1 built in, 2 constructors, a handle and NULL |
| `loader` | `MCPluginLoaderLive` | do plug-ins keep the table consistent, are they there before the first look-up, and does every call return? | 2 threads, a plug-in for one scheme and a file that is none, 5 calls by the application |
| `loader_two` | `MCPluginLoader` | the same of a plug-in with two schemes: violated | as `loader`, any number of calls |
| `proton_receive` | `MCProtonQueue` | do dispositions take effect, is the connection a `MessageQueue`? | 2 messages held, 4 in the queue, window 1 |
| `proton_send` | `MCProtonQueue` | are messages sent right and errors fresh, is the connection a `MessageQueue`? | 1 message object, 2 sends, one value for each setter, body of 1 piece |
| `proton_disposition_failure`, `proton_window`, `proton_subject` | `MCProtonQueue` | three statements of `libmq.h`: violated | smaller than the above |
| `random` | `MCRandomQueue` | which partition has a message, is a freed one in use? | 2 messages, 2 names and the empty string, 2 clusters, 4 strings at a time |
| `send` | `MCMqSend` | is the buffer safe, does success mean sent, does the program end? | blocks of 4 bytes, inputs of 0 to 14 bytes |
| `send_read_error` | `MCMqSend` | is an error on the input reported? violated | as `send` |
| `recv` | `MqRecv` | is a message lost, is the queue drained? | 3 messages, 2 processes, stdout holding back 0, 1 or 2 messages and failing at any message and at the exit |

Why the bounds are enough. In the table, two threads are the least that
interleave, and what a step can disturb is the state of one other thread. Two
schemes make a table with a spare slot before and after an occupied one; the
proofs hold for every number. With five calls of the application 98 % of the
states of the unbounded loader are reached. In the connection, a third delivery
pushes the first out of a window of one while two messages are held, and a
fourth follows a failed one. Two sends of one message object cover sending
again with another address. One value per setter is enough, because a value is
only compared with what was asked for. In the random engine the two messages do
not affect each other but through the connection and the heap; four strings are
one for each pointer and one that was lost. In mq-send a block of four allows
short reads of every kind; from 13 bytes on there is a round in which the
buffer need not grow; the proofs hold for every block and input. In mq-recv the
second process finds what a killed one left, and may be killed as well; stdout
can hold back none, one or two of the three messages, so that one kill, one
failure or two kills cost less than all of them and the bound on the loss
decides something.

Deadlock is checked in `registry` and `loader_two`. In `loader` the application
stops after its calls, a connection stops when it is closed, and the tools end.

Fairness. `loader` assumes that a thread which is inside the library and can
move does move (`WF` of `LibraryStep`): the system schedules its threads.
Nothing is assumed of the application. The rwlock gives no turn: POSIX leaves
it to the implementation whether a stream of readers delays a writer, so the
application makes a bounded number of calls in this run. Without the bound a
writer may wait for ever for its turn. `MqSend` assumes that the program is not
stopped, that its input does not stay open and silent for ever, and that the
calls of the library return. `MqRecv` assumes the same of the steps that
succeed (`Work`), and that what the broker has arrives; nothing makes a call
fail, a process be killed or a process be started.

## What the violated runs show

* `loader_two`: if the second registration of a plug-in fails, `plugin.c`
  closes the file and leaves its first engine in the table. Calling
  `mq_unregister_all(handle)` before `dlclose()` would do. `random.c`
  registers one scheme only and is not affected (`loader`).
* `proton_disposition_failure`: the release inside `mq_message_accept()` and
  its siblings resets the error they have set.
* `proton_window`: with two messages held, accepting the older one reports
  success and does nothing, because the window is 1.
* `proton_subject`: `mq_message_set_subject()` sets the content type.
* `send_read_error`: `fread()` returns a `size_t`, so the test `r < 0` is never
  true. After a read error `feof()` is not set: the program reads again, for
  ever if the error stays, and otherwise sends what it has got and succeeds.

Other places where the code does not do what one would expect are in the models
as the code has them, and have no run of their own:

* `mq_proton_next_()` (qpid-proton.c:333) fails with an error number of 0 when
  nothing has arrived and the messenger has no error (`NextNothing`).
* `mq_proton_set_cluster_()` returns 0 and does not reset the error
  (qpid-proton.c:412-417): after a failed call `mq_set_cluster()` succeeds with
  `mq_error()` still set. `ErrorIsFresh`, which is what holds of every other call
  that succeeds, excludes it by name. With it included the property fails.
* `mq_random_set_cluster_()` ignores the result of `set_partition()`
  (random.c:304): if the copy fails the call succeeds, and the connection has the
  new cluster and the old partition, although `libmq.h:72-74` says that
  `mq_set_cluster()` overrides any earlier `mq_set_partition()`.
  `PartitionResolves` excludes the messages that rely on such a partition, and
  those only; without the exclusion it fails.
* Each `mq_message_add_bytes()` of the AMQP engine makes a section of its own
  (qpid-proton.c:655), and the receiver reads the first one only (line 363).
* `mq_random_next_()` does not reset the error (random.c:260), and setting a
  partition does not set it when `strdup()` fails (`ErrorTells` excludes both).
* The partitions of a released connection or message of the random engine stay
  on the heap (random.c:351): `CopiesOwned` is an inequality for this reason.
* mq-send ignores a failure to set the type or the subject (mq-send.c:118-123),
  and mq-recv exits with 0 after a failed `mq_next()` (mq-recv.c:59-76).
* mq-recv ignores a failure of `printf()` and `fwrite()` (mq-recv.c:65-71) and
  accepts the message (line 73), which is then lost without a crash. Nothing in
  the repository says otherwise, so `LossBounded` counts it: a failure costs
  what stdout held back and the message at hand.

## What is proved

`EngineRegistryProofs` proves, for any sets of threads, schemes (finitely
many), constructors and handles and any sequence of built-in schemes, that
`Spec` implies always `TypeOK`, `SchemesUnique`, `SlotsBounded`,
`ConstructorPinned`, `InitBeforeLookup` and `NobodyStuck`. The assumptions are those of
`RegistryAssumption`: NULL is not a scheme and not a thread, it may be a
handle, and the built-in engines are among the engines.

The properties are not inductive. Uniqueness holds because the insertion
follows a scan that has seen no slot with the scheme, and because the scan is
still true when the insertion happens. So `IInv` adds what each loop has
established so far (`RegisterInv`, `RemoveInv`, `LookupInv`), that only one
thread is in such a loop while the table may change (`LockInv`), that only one
thread is in the initialisation and comes back to it (`OnceInv`), and what a
thread's locals are when it is not in a loop (`CallInv`). Each part has a lemma
that every step preserves it; three lemmas say what a step of one thread cannot
change for another. The bound on the table is a pigeonhole argument: a table
without vacant slots is an injection of its slots into the schemes, and a
scheme that it lacks is free. Nobody is stuck because a holder of the lock
waits for nobody (`HolderMoves`), and the thread in the initialisation waits
for the lock at most. That is as much of the liveness as a state can show: that
the thread which can go on does so, and that every thread has its turn, is
`CallsReturn`, which is only model-checked.

`EngineMapProofs` proves that `Spec` implies `MapSpec` for the same constants.
What makes it true is `SchemesUnique`: the map shows, for a scheme, the engine
of any slot that has the scheme, and there is only one. `MapShape` says what
the map shows of the table, `PlainShape` the same when no thread is removing
engines by constructor or module. Then each action has a lemma. Registering,
removing one engine and finding one are seen by the map when the slot is
written or found, and what the loop has established by then is the map's guard:
that the scheme is served nowhere before `mq_unregister()` reports so, for
example. A removal of several engines is seen when it gets the lock
(`PurgeSeen`). From then on the map does not change, and every slot that the
loop clears moves one engine from those it has still to find to those it has
counted (`PendingCleared`), so that the count it returns is the number of
engines the map has lost (`PurgeReturns`). All other steps are unseen. This is
less than linearizability in one respect: a step of `EngineMap` is not tied to
the arguments of the call that takes it, so that the map would not notice a
call which did the work of another.

`PluginLoaderProofs` proves, for any directory, any lengths of names and any
plug-ins, that the loader and its plug-ins implement the table with arbitrary
callers (`RegistrySpec`), so that every theorem about the table, `MapSpec`
among them, holds while plug-ins are loaded. `LoaderInv` adds to `IInv` where
the loader is (`ProgressInv`), and with it `LoaderTypeOK` and
`PluginsBeforeLookup` hold. `PluginsMapped` is not true of every plug-in: run
`loader_two` shows how it fails. So it is proved under a hypothesis, of the
executions in which no `mq_entry()` fails after it has registered something
(`FailsAtFirst`), and from that for plug-ins which register one scheme at most
(`OneSchemeEach`), as `random.c` does. That the hypothesis cannot be dropped is
what the run shows. The argument is that an engine of a plug-in in the table
belongs to a file that stays mapped (`Settled`): one that is done with, or the
one being entered once its first registration has succeeded; and that nobody
else registers engines under the plug-in's handle (`EntryCalls`), since the
application uses its own handles (`AppCall`). The assumptions are
`LoaderAssumption`: the files that can be loaded are files, every name has a
length, and a plug-in has a handle and the schemes it registers.

`RandomQueueProofs` proves `TypeOK`, `PartitionResolves`, `CopiesOwned` and
`ErrorTells` for any finite set of messages and any names and clusters. The
inductive invariant says that every pointer is to the partition last asked for,
unless that of a cluster was missed (`PointersInv`), which gives the rules at
once, and that the heap has at least
as many strings as there are pointers to one (`CopiesInv`), by counting the
messages that own a string before and after one pointer changes (`OneOwner`).
The assumptions are those of `RandomAssumption`: `NULL`, the empty string, names
and the mark of a dead handle are different.

`ProtonQueueProofs` proves `TypeOK`, `DispositionFollows`, `SettledWithHandle`,
`TrackersDistinct`, `MessengerBalance`, `ErrorIsFresh` and `AddressedRight` for
every window size, any number of messages and deliveries and any arguments of
the setters, and that a connection implements `MessageQueue` (`QueueSpec`). The
properties of the deliveries hold together (`DeliveryInv`): a disposition is
effective because the delivery of a message at hand has not been disposed of
and is in the window unless it is too old (`TrackerInv`), and that survives
another message's disposal because no two messages share a delivery. The
address needs `AddressInv`: a message counts as addressed exactly when the
application has set its address, whatever default a failed attempt to send it
has left. `DisposedLog` says what a disposal does to the log, and the refinement
reuses it: getting a message appends a fate (`FateAdded`), disposing of one
decides it (`FateDecided`), and no other call changes a fate or what a message
stands for. The assumptions are `QueueAssumption` and `NullAssumption`: the
window has a place, and `NULL` is not an argument, a message or a tracker.

`MqSendProofs` proves `SendTypeOK`, `BufferSafe` and `SuccessMeansSent` for
every size of a block from 2 on and every input. The buffer is safe because a
round grows it by a block whenever less than one is free and reads less than
one. `SuccessMeansSent` needs what each place in `main()` implies about the
input, the message and the queue (`PlaceInv`): nothing is sent before the
message exists, the message has no body before the bytes are added and the
whole input after it, one message is pending between the sending and the
delivery, and the same one is at the broker from then on. The steps of
`ProtonQueue` are expanded only as far as this needs. `UsesConnection` says that
mq-send makes only the calls the owner of a connection may make, with arguments
it may give: it implements `ProtonQueue`, so that what is proved of every
connection (its errors, addresses and the one messenger) holds of this one.

`MqRecvProofs` proves `RecvTypeOK`, `LossBounded` and `AllAccepted` for any
number of messages, any room of stdout and any number of processes and crashes.
The bound on the loss is not inductive, since the broker learns of an accepted
message later. So it is proved of the messages that the broker knows or may come
to know of (`Owed`): a message becomes one of them when it has gone to stdout.
Owing no more and keeping what was printed costs nothing (`LossKept`); a crash
takes as many printed messages away as stdout held back at most, and a failing
write these and the message at hand (`LossGrows`, `PrintedShrinks`). Everything is accepted
because the message at hand stands for the latest delivery, which is in a
window of one (`HandInv`, `AcceptedInv`). Its steps are calls the owner of a
connection may make, from one start of a process to the next
(`UsesConnection`). The assumptions are `RecvAssumption` and that `NULL` is no
message.

Every invariant of a passing run, and every refinement, is stated by a theorem.
Only model-checked is liveness (`CallsReturn`, `ProgramEnds`, `Drained`): it
needs fairness and `ENABLED`, which the prover does not handle.

## What is not modelled

The build system and the wording of messages have no behaviour to check. Of
`libmq-engine.h`, the macros `BACKOFF_CHECK` and `BACKOFF_SECS` are used by no
engine. Bytes, random numbers and the characters of paths are left out, and so
is what `fprintf()` does with the NULL that mq-send passes for a type or a
subject it was not given (mq-send.c:124). Memory is modelled only where it is a pointer that must not dangle or a
string that must not be freed: the messenger, the constructor of an unmapped
file, the partitions. The copy of the scheme that `mq_register_internal_()`
loses when `realloc()` fails is not. Constructors are one step: a constructor
that registered engines would wait for its own read lock, and none does. The
Proton messenger, the broker, libcluster, the dynamic linker and the C library
are modelled from their use.

## The plan

1. `EngineRegistry`, `EngineMap` and the proofs of the invariants; the loader;
   the AMQP engine. Done.
2. `RandomQueue`, `MqSend`, `MqRecv`, with their proofs; the abstract
   `MessageQueue`; the invariants of `ProtonQueue` and the proof that it
   implements `MessageQueue`. Done.
3. Proofs: the refinement of `EngineMap`; that `PluginLoader` implements
   `EngineRegistry`, and `PluginsMapped` for plug-ins that do not fail
   half-way; that the table cannot deadlock. Done.
4. What is left: how often mq-recv may print a message again (no process
   prints one twice), as a property of run `recv` and a theorem.
