# Verification of the queues of hansewetz/blog

The repository is a set of header-only C++ libraries: `boost-asio-queue-extension`
(blocking queues, and asio IO objects that make them asynchronous), `type-utils`
(tuple metafunctions and a thread pool), `general-tools` (a stopwatch) and `occi-tools`
(Oracle streams). The concurrency is in the queues, which take most of this project; the thread pool,
the Oracle streams and the tuple functions these are built on follow.

Paths below are relative to `libs/boost-asio-queue-extension/include` unless they say otherwise.

## Inventory

| component | state | operations | interacts by | what is hard |
|---|---|---|---|---|
| `simple_queue` | container, capacity, two enabled flags, mutex, condition variable | `enq`, `deq`, `wait_enq`, `wait_deq`, their timed forms, `disable_*`, `set_maxsize`, getters | threads sharing the object | one condition variable for all waiters, deadlines racing items, shrinking below the contents, `size()` without the lock |
| `queue_sender`, `queue_listener` | per object: `io_service`, work object, thread, reference count | `async_*`, `timed_async_*`, `sync_*`, construction, destruction | blocking calls into a queue; handlers posted to the user's `io_service` | destruction during an operation, order and number of handlers, when `run()` may return, which thread runs the destructor |
| `polldir_queue`, `detail/queue_support` | directory of files; per object a cache and flags; a named mutex and condition per queue name | as `simple_queue`, plus refreshing getters and `removeLockVariables` | any number of objects and processes on one directory | stale caches, files before their content, seconds as order, removed lock names, exceptions under the lock |
| `fddeq_queue`, `fdenq_queue`, `detail/fdqueue_support` | descriptor, flag, mutex | blocking operations on a byte stream with separators | peer over a pipe or socket | end of file, signals, stale `errno` and `ec`, non-blocking descriptors, a mutex held while blocked |
| `sockserv_queue`, `sockclient_queue` | IDLE/CONNECTED/READING/WRITING, listening and client sockets | the same eight operations, connecting on demand | TCP peer | failures in each state, reconnects, which socket is closed |
| `sockdeq_serv_queue`, `detail/sockqueue_support` | accept loop thread, per-client buffers, container | deq operations, shutdown | clients and consumer threads | partial messages, disconnects in a round, a client that keeps the loop busy, shutdown polling |
| `type-utils/tpool.h` | workers, task queue, `done_` | `submit`, submit-and-wait, destruction | futures | queued tasks at shutdown, nested waits |
| `general-tools/stopwatch.h` | running/stopped, start, accumulated time | `click`, `reset`, reading | - | reset while running |
| `type-utils/type_utils.h` | none (compile time) | index lists, tuple functions driven by them | Oracle streams, the pool | compositions of reversals and slices |
| `occi-tools` | iterators, connections, rows bound and not executed | range-for over a source, writes to a sink, `flush` | Oracle | exceptions anywhere, partial batches, the end of a range, ownership of connections |

Correctness, per component:

* `simple_queue`: no lost wakeup; delivery once and in order; capacity and flags respected; timed
  calls return and disabling releases; linearizable to a bounded FIFO.
* sender and listener: one handler per call, in order; no dequeued item lost; `run()` returns
  exactly when nothing is outstanding; destruction returns and never joins itself; codes are true.
* `polldir_queue`: no partial read; each item in the directory or removed and returned once; capacity; order by
  second; wakeups across objects; codes are true.
* socket queues: messages are whole, in order and only if accepted, per connection; the state machine
  leaves IDLE and CONNECTED only inside a call; calls return when the other end is gone.
* descriptor queues: the same over the user's descriptors, blocking or not; disabling an end silences it.
* `sockdeq_serv_queue`: every client's messages are queued whole and in order; descriptors and buffers
  belong to each other; consumers are woken; destruction returns.
* `tpool`: tasks start once, the oldest first; none gets lost while the pool is in use; a normal
  return of submit-and-wait means that all tasks did; futures become ready; destruction terminates.
* `occi-tools`: rows are read once, transformed as promised, executed in order and in batches; what is
  committed is a prefix of what was written; connections and environments are released.

`PROJECT.json` lists the hazards line by line, with the property that covers each.

## Modules

| module | models | state and actions |
|---|---|---|
| `QueueOps` | the common operations (`detail/queue_interface_*.hpp`) | classification of the eight operations, error codes |
| `BoundedFifo` | the abstract promise of a queue | histories `sent`, `received`; a call is pending and takes effect in one step: `Accept`, `Deliver`, `Grant`, `Refuse`, `TimeOut`; `Control` |
| `SimpleQueue` | `simple_queue.hpp` | `q_`, `maxsize_`, `enq_enabled_`, `deq_enabled_` as in the code; `pc` and `late` place each thread in its critical section, the wait set, or past its deadline |
| `MessageChannel` | the abstract promise of `recvwait` and `sendwait` | histories `accepted`, `delivered`; `Accept`, `Deliver` |
| `AsyncQueue` | `queue_sender.hpp`, `queue_listener.hpp` over an instance of `BoundedFifo` | `ops` is the implementation's `io_service`, `running` and `thr` its thread, `ownerRef` and `opRef` the reference count, `handlers` the user's `io_service` |
| `PolldirQueue` | `polldir_queue.hpp`, `detail/queue_support.hpp` | `files`, `partial`, `stamp` the directory; `cache_` and flags per object; `lockName`, `lockOf`, `holder` the named mutex |
| `SockQueue` | `sockserv_queue.hpp`, `sockclient_queue.hpp`, `detail/fdqueue_support.hpp`, `waitForClientConnect` | `state_` as in the code, `pc` the system call a call is in, `buf` the bytes read or to be written; `listening`, `conn`, `sockOpen` the descriptors; `pending`, `out`, `got`, `shut` the kernel's side of the connections |
| `FdStream` | `fddeq_queue.hpp`, `fdenq_queue.hpp`, `detail/fdqueue_support.hpp` over a pipe | `pc` and `buf` place the call at each end in `recvwait` or `sendwait`; `ec` and `errno` outlive a call; `ctl` the thread that disables; `pipe` the kernel's bytes |
| `SockdeqServ` | `sockdeq_serv_queue.hpp`, `acceptClientsAndDequeue` | `spc` the server thread in its loop, `client_data`, `buf`, `fd2erase` as in the code; `conn`, `wire`, `gone` the clients; the consumer side is an instance of `SimpleQueue` in which only the server thread pushes |
| `TypeUtils` | the index lists and tuple functions of `type_utils.h` | operators, each composed of the same others as in the code |
| `Occi` | `occi_input.h`, `occi_output.h`, `occi_detail_utils.h` in the program they are made for | `alive` the objects in scope; `pending` and `nwaiting_` the rows bound; `inserted`, `committed` Oracle's side |
| `TPool` | `type-utils/include/tpool.h` | `done_`, `taskq_`; `wpc`, `cur` the workers; `future` the outcome of each task; `mpc`, `awaited` the owner of the pool |
| `Selection` | - | the subsequence the histories of several modules are compared by |
| `SimpleQueueProofs`, `AsyncQueueProofs`, `PolldirQueueProofs`, `SockQueueProofs`, `FdStreamProofs`, `SockdeqServProofs`, `TypeUtilsProofs` | - | the theorems about these modules, `TPool` and `Occi` being in the last |
| `SeqLemmas` | - | lemmas about sequences and selections from them |
| `MC*` | - | instances for TLC: which thread uses which operations |

How the code is cut into actions:

* `SimpleQueue`. The mutex is held from the lock to the return or the wait, and never across
  anything that blocks, so one such stretch is one action (`Block`, `Push`, `Pop`, `WaitEnq`,
  `WaitDeq`, `Aborted`, `TimedOut`, the `disable_*` and `set_maxsize`). Waking up and
  re-acquiring the mutex are separate: a notified thread is only `ready`, an expired one only
  `expired`, and anything can happen before either evaluates its predicate. Spurious wakeups
  are an action. `size()` takes no lock and is two loads.
* `AsyncQueue`. One action per step of the implementation's thread: take the operation,
  `lock()` the weak pointer and call, return, post the handler, drop the reference, drop the
  operation. The user's thread makes calls before `run()` and inside handlers, where it also may
  destroy objects (policy `any_time`) or not (policy `after_run`). The queue underneath is the
  abstract channel: the run `simple` checks that `SimpleQueue` implements it.
* `PolldirQueue`. The mutex is explicit, and a critical section that writes or reads a file is several
  steps, since a process may end between any two of them: the file is opened, then complete (`OpenFile`,
  `CloseFile`), or taken from the cache and read, then removed (`ReadFile`, `RemoveFile`), and only then
  does the call notify and return (`Finish`). Evaluating a predicate refreshes the cache: `Refreshed` is the set of caches
  it can leave, among which the listing is nondeterministic for files of one second. An exception thrown by
  `read` and the undefined `front()` of an empty list are actions. `Crash` ends the process of any
  set of objects at any step, and their caches with it; the mutex its thread holds stays locked, because a named mutex is not
  robust, and `Reopen` starts it again.
* `SockQueue`. One action per system call: select, one byte read, one byte written, accept, connect.
  A timeout, a signal (`Interrupted`) or the end of the other process can come at each. A message is
  two bytes, a body and a separator, which is enough to stop in the middle of one. `errno` is kept
  because `recvwait` reads it at end of file, where `read` does not set it. Both ends use the same
  `recvwait` and `sendwait`; where the classes differ (which descriptor an error closes, when
  `state_` is set, who connects) the actions do. The descriptors are blocking, as the code leaves
  them. `deqAux` compares codes with their category, so end of file with `errno` 0 is a failure
  too, with a code of value 0.
* `FdStream`. One action per system call: select, one byte read or written. A call holds its mutex from
  its first statement to its return, so `disable_*` is two steps, the call and the change. A caller
  passes a new error code or the last one. `WouldBlock` is a read or write on a non-blocking descriptor
  with nothing to do.
* `SockdeqServ`. One action per step of the loop: the test of `stop_server_`, select, accept, the choice
  of the next client (the order of a hash table), one byte, the push, the end of the round. A run of
  body bytes of one message is one token, to which a client can always add, so a client that never
  stops writing is a behaviour of a finite model. An `accept` that fails (`AcceptFails`) may have taken the connection off
  the backlog or left it there, and then the next select reports it again; either way the round reads nobody.
* `Occi`. A program constructs a source and a sink, loops over the rows, writes what a tuple function
  makes of each, flushes or not, and leaves the scope. Each call into Oracle succeeds or throws; an
  exception unwinds the scope in the order of C++. `executeUpdate` that throws has executed any
  proper prefix of the batch.
* `TPool`. The test of `done_`, `try_get` and the task's steps are separate actions. What a task
  does is the tasks it submits and waits for, and whether it throws. A future is told by the
  `packaged_task`, so `thread_func`'s own catch is not reached.

Constructors are the initial states. The tests use error codes fresh for each call, and so do the
models, except `FdStream`, where reusing one matters. `q_` and the abstract `sent` and `received` are related by `Delivery`, which is itself
checked and proved.

## Runs

| run | shows | bounds |
|---|---|---|
| `simple` | `TypeOK`, `NoLostWakeup`, `Delivery`, `RespectsSettings`, `ImplementsFifo` | 3 threads: two producers and two consumers, all eight operations, the settings and `size()`, 2 items, capacities 0, 1 and 2 |
| `async_safety` | `HandlersInOrder`, `NoItemLost`, `RunAnswersAll`, `NoSelfJoinAfterRun` | 1 sender, 1 listener, 1 controller, 2 async calls each |
| `async_live` | `DestructionReturns`, `RunReturns` | 1 call each, plus `sync_deq` on the user's thread |
| `async_selfjoin` | violation of `NoSelfJoin` | as `async_safety`, objects destroyed at any time |
| `polldir_safety` | `NoPartialRead`, `Conservation`, `NoLostWakeup`, `CapacityHeld`, `OldestSecondFirst` | 2 objects, 3 threads, 3 items, capacity 2, 2 seconds, one lock, crashes anywhere |
| `polldir_partial` | violation of `PartialHidden` | one object removes the lock names, 2 locks |
| `sock` | `WholeMessagesInOrder`, `StuckOnlyAfterThrow`, `OneClientPerServer`, `PeerGoneReleases`, `TimedDeqEnds` | 1 server, 2 clients one after the other, 4 messages of which one is unserialisable and one unreadable, 2 bytes of kernel buffer |
| `servq` | `WholeMessagesInOrder`, `DescriptorsTracked`, `NoLostWakeup`, `DestructionReturns`, `MessageReachesQueue` | 2 clients with 3 messages, one of them unreadable, a consumer with a timeout and a thread that disables taking |
| `fdstream` | `WholeMessagesInOrder`, `NothingAfterDisable`, `PeerGoneReleases`, `TimedCallsEnd` | 2 messages of 2 bytes, a pipe of 1 byte, one end non-blocking |
| `tpool` | `OldestFirst`, `Accounted`, `NormalReturnMeansAllRan`, `AtMostOneLateTask`, `FuturesBecomeReady`, `DestructionReturns` | 2 workers, 6 tasks: two wait for two and one others, one child throws |
| `occi_rows` | `RowsTransformed`, `RowsInOrder`, `CommittedPrefix`, `ResourcesReleased` | up to 3 rows of 3 columns, batch sizes 0 to 2, every constructor and commit mode, 12 tuple functions |
| `occi_loop` | violation of `RangeForEnds` | as `occi_rows`, from authentication only |

Why these bounds are enough to be interesting: in `simple`, `t1` calls `enq` and
`disable_deq`, `t2` calls `deq` and `disable_enq`, and `t3` the six other operations, `set_maxsize` and `size()`.
So with capacity one a blocked `enq` is woken by a `deq` of another thread, and with capacity zero, where
nothing can be pushed, by `set_maxsize` of another thread; the timed and the waiting operations of `t3` compete with both;
shrinking from 2 to 0 leaves a queue above
its capacity; two competing consumers make a notified thread find nothing. In `AsyncQueue` two calls
per object let one be queued while the other is blocked, which is when destruction is interesting.
In `PolldirQueue` the two consumers take files from each other's cache, three items exceed the
capacity, and two seconds with three files give files of the same second. Histories are bounded
because each item is accepted at most once (`Fresh`), async calls by `MaxOps`, the file clock by
`MaxClock`, lock names by `MaxLocks`. Items are symmetric where no liveness is checked.

In `FdStream` a pipe of one byte blocks the writer in the middle of every message. In `SockdeqServ` two clients let one
disconnect in the round that reads the other, and the second message of one follows in the same round. In `Occi`
three rows with batches of two leave a partial batch, and indices and counts up to the number of
columns include the empty and the whole slice.

In `SockQueue` two messages of the client let a second one follow a broken first one, a buffer of two
bytes holds a whole message that nobody has accepted yet and blocks the next, and the second
client finds the server in each of its states; each message is accepted at most once (`Fresh`) and
each end starts `MaxRuns` processes. `Restart` of the server is modelled but not reached under
this bound. In `TPool` two workers can both be occupied by waiting tasks.

Only `SimpleQueue` is checked for deadlock: some thread that can shut down always exists. The others may
really stop: a program whose `run()` has returned and whose objects are gone, a terminated one, a
directory whose named mutex went down with its owner, processes that have ended, a pool that is
destroyed, and the blocking the properties name as exceptions.

Each property of a passing run has a mutant in `PROJECT.json`: a definition changed the way a
plausible bug would change the code, under which TLC finds the property violated. Mutants are in the
modules, marked as such, before the definition they replace; no specification uses them.

### Fairness

* `SimpleQueue!FairSpec`: weak fairness of what a thread does with the mutex and of its
  deadline. The critical sections are short and end, so a thread that keeps wanting the mutex
  gets it, and a clock goes on. There is none for calls, for spurious wakeups or for winning the
  item: an untimed `deq` may starve, and no property says otherwise.
* `AsyncQueue!FairSpec`: weak fairness of the implementation threads and of the user's
  thread inside the library; strong fairness of leaving user code, because a handler may block in
  `sync_deq` before it returns. Nothing makes the user call, destroy or disable.
  `RunReturns` assumes in its statement that both sides end up disabled.

* `SockQueue!FairSpec`: weak fairness of what a call does at each end, which includes its timeout.
  System calls return when they can. None for calls, signals or the end of a process.
* `FdStream!FairSpec`: weak fairness of what a call does at each end, which includes its timeout, and of
  a `disable_*` that has been called. None for calls, signals or closing.
* `SockdeqServ!FairSpec`: weak fairness of the server thread, whose select comes back after
  `tmo_poll_ms`, and of the join. Nothing makes a client or a consumer act.
* `TPool!FairSpec`: weak fairness of each worker and of the owner's waits. A worker with nothing
  to do yields and tests again. None for submitting or destroying.

What the liveness properties leave out is stated in them: `PeerGoneReleases` except for a
`recvwait` that spins on an old `EWOULDBLOCK` at end of file; `DestructionReturns` and
`MessageReachesQueue` of `SockdeqServ` except when one client captures the loop, and the latter also except when `accept` fails
for ever with a connection in the backlog (`AcceptKeepsFailing`); `FuturesBecomeReady` and
`DestructionReturns` except when the workers wait for tasks that nobody is left to run, or that were
dropped. These exceptions are behaviours of the code.

### Findings

The three runs that expect a violation each refute a sentence or a use in the repository:

1. The sender's destructor can run on the thread it joins (`queue_sender.hpp:132`, `:176`), which terminates the
   program: in the run the sender is destroyed while its thread is in `enq`, so that the reference
   `operator()` has taken is the last and is dropped on that thread. The listener has the same code
   (`queue_listener.hpp:132`, `:176`). `NoSelfJoinAfterRun` shows it
   cannot happen when objects are destroyed after `run()` has returned, as most tests do.
2. `removelocks` splits the users of a directory over several mutexes (`polldir_queue.hpp:82`), and
   a file can be listed while it is written. The safety properties of `polldir_safety` are stated
   under `OneLock`, the condition that this has not happened.
3. `for(auto r:rows)` over an `occi_source` never ends normally: `end()` is default constructed with
   `end_` false (`occi_input.h:34`), nothing at its end is equal to it (`:45`), and the dereference
   after the last row throws (`:49`).

Defects the models contain because the code has them, without a run of their own:

* `simple_queue::size()` constructs a lock without the mutex (`simple_queue.hpp:205`): two loads, between
  which a pop can make the difference wrap around (`SizeFirstLoad`, `SizeSecondLoad`).
* A deq operation that finds its object gone reports success and a default value
  (`queue_listener.hpp:186`), as do the waiting operations of both classes (`PostOrphan`). No property
  forbids it; `NoItemLost` only says that it happens to nobody whose object exists.
* `polldir_queue::deq` tests the flag of the other side (`polldir_queue.hpp:165`): it is aborted though
  enabled, or reads the front of an empty list though disabled (`Enabled`, `PopUndefined`). No property
  forbids it.
* A process that ends between `std::remove` (`queue_support.hpp:59`) and the return of `deq` takes an accepted item with it,
  and leaves the mutex locked (`Crash` after `RemoveFile`). `Conservation` says that this is the one item that can be lost.
* `disable_enq` of `fdenq_queue` cannot release a blocked thread, as its comment at `:95` says: it waits for the
  mutex that thread holds (`Disable`).
* `recvwait` leaves `ec` alone when it returns a message (`fdqueue_support.hpp:81`): with a reused error
  code `deq` drops a message it has read (`ReadByte`; `WholeMessagesInOrder` excepts this).
* `acceptClientsAndDequeue` throws out of its thread on any signal (`sockqueue_support.hpp:133`), which
  terminates the program (`Interrupted`), as does a deserialiser that throws.
* After an `accept` that fails it goes back to select without reading anyone (`sockqueue_support.hpp:148`). While the process
  has no descriptors left the connection stays in the backlog, so that every round ends there and no client is
  served (`AcceptFails`).
* A connection whose `fcntl` fails is closed with the messages the client wrote (`:156`). `WholeMessagesInOrder` counts
  these among the messages still on their way.
* A constructor of `occi_source` or `occi_sink` whose `createConnection` throws leaks the environment
  (`occi_input.h:84`); `commit` that throws leaves the destructor of a sink (`occi_output.h:159`).

## Proofs

`SimpleQueueProofs` proves, for every set of threads and items, every set of capacities and every
assignment of operations to threads:

* `TypeCorrect`: `Spec => []TypeOK`
* `NoWakeupIsLost`: `Spec => []NoLostWakeup`
* `DeliveredOnceInOrder`: `Spec => []Delivery`
* `SettingsRespected`: `Spec => RespectsSettings`
* `Implementation`: `Spec => ImplementsFifoSafety`, the refinement of `BoundedFifo` without fairness

Assumptions: `NoItem` is not an item, capacities are naturals, `SizeMod` is positive.
`NextCases` splits a step into the actions once; every step lemma follows it.

`NoLostWakeup` is inductive together with `TypeOK`: every action that can make a predicate true
empties the wait set (`Notified`), `Block` enters it only with the predicate false, and the
actions that do not notify (`Fail`, `Deadline`, `Enter`, the loads of `size`) change nothing a
waiting thread's predicate reads. `Delivery` needs only the types. `RespectsSettings` is an
action property that follows from the guards under `TypeOK`. For the refinement, `Delivery` gives
`Len(q_) = Len(sent) - Len(received)` and `Head(q_) = sent[Len(received) + 1]`
(`ContentsAreHistory`), so the concrete predicate is the abstract `Possible`
(`PredicateIsPossible`), and each action maps to one abstract step or a stutter: `Block`,
`Deadline` and `SpuriousWakeup` stutter, `TimedOut` maps to `TimeOut` because the predicate was
evaluated again under the mutex.

`AsyncQueueProofs`, for any senders, listeners, controllers and bound on calls:

* `TypeCorrect`, and `DestroyedAfterRun` (`NoSelfJoinAfterRun`). The invariant (`Safe`) says that under the
  policy `after_run` no object loses its reference before `run()` has returned, and that it has returned
  only when no operation object is left; the reference an operation takes is dropped before the operation
  is, so `ReleaseRef` never finds the owner gone.
* `CallsAnsweredInOrder` (`HandlersInOrder`) and `EveryCallAnswered` (`RunAnswersAll`). The invariant
  (`Ordered`) numbers, per object, the handlers posted, the operation that runs and the operations queued
  1, 2, 3 and so on; a thread exits only after its object gave up its reference, so that no call
  joins a line nobody serves.
* `EveryItemPlaced` (`NoItemLost`). The invariant (`Located`) says what the call under way was asked for
  and has brought back, that no value is sent twice (what an object has pushed is answered or about to
  be), and that an item sent and received is in one place while any other is in none.

`PolldirQueueProofs`, for any objects, threads, items, limit and crashes: `TypeCorrect`,
`ReadersSeeWholeFiles` (`NoPartialRead`), `ItemsConserved` (`Conservation`), `LimitHeld`
(`CapacityHeld`), `NoWakeupIsLost` (`NoLostWakeup`), `OldestLeavesFirst` (`OldestSecondFirst`). The
invariant, under `OneLock`, is mutual exclusion (whoever is in its critical section or died there is the
holder, and a partial file or an item removed and not returned means a holder), what caches and pending calls may contain, the limit with
room kept for the push that was granted, and a reason for every thread that waits. For `Conservation`, the item that was
removed and not returned is the one the holder's call names (`Handover`), so there is one at most. That the directory
holds finitely many files is part of the invariant, not an assumption on the items. For the order of
deliveries (`Ages`), each cache is sorted by file time, what a cache lacks is not older than what it
holds, except for the file its object is just reading (`Known`), and no file is from the future.

`TypeUtilsProofs` holds the theorems about the libraries beside the queues.

* `TPool`, for any workers and tasks: `TypeCorrect`, `EveryTaskAccounted`, `NormalReturns`,
  `OneLateTask`, `StartedInOrder`, over one invariant that relates the queue, the workers' tasks and the
  outcomes of futures. Late tasks are at most one because a worker tests `done_` before each.
* `TypeUtils`, for rows of any number of integer columns: `TupleFunctions` says that each tuple function makes
  of a row what `Promised` says by position. The metafunctions that recurse are recursive functions; that they
  agree with a closed form is shown by induction over the naturals, on the set of lengths for which it holds
  (`StepsAgree`). Each list operator is then known by its length and its elements, and the ones composed of
  others follow without induction.
* `Occi`, for a query of any number of rows and columns, every size of batch, every way to construct the
  objects and an exception from any call: `ProgramCorrect`, and from its invariant (`ProgramInv`)
  `WrittenAsPromised` (`RowsTransformed`), `BatchesInOrder` (`RowsInOrder`), `CommitsWhatWasExecuted`
  (`CommittedPrefix`) and `EverythingGivenBack` (`ResourcesReleased`). `Scoped` says which objects are alive at
  each place of the program, and so what an exception has left to destroy. `RowsFetched` ties the row the iterator is at to the rows written, and needs
  `TupleFunctions` where a row is written. `RowsBound` says that the statement holds fewer rows than a batch
  unless something was thrown, so that a row bound joins rows that follow each other. `CommittedLast` says that
  nothing is committed while the sink is alive, and that what is committed when it has gone is what was executed.
  `ObjectsHold` says what each object that is alive, and each that is not, has of a connection and an environment;
  only an object whose own `createConnection` threw keeps an environment.

`FdStreamProofs`, for any buffer, messages and modes: `TypeCorrect`; `DisabledEndIsSilent`
(`NothingAfterDisable`), which follows from the fact that an end in a call is enabled, since
`Disable` needs the mutex of an idle one; and `MessagesWholeInOrder` (`WholeMessagesInOrder`). Its
invariant (`Parts`, `Reports`, `Framed`) says of the bytes `recvwait` holds, the pipe and what
`sendwait` has left, read as one stream, that bodies and separators alternate until an end is closed, and
that what was accepted is what was taken followed by the separators in the pipe. `ChannelImplemented` maps the two queues to
`MessageChannel`: as long as no signal tears a message, a step is `Accept` (the last byte of a message is
written), `Deliver` (a separator is read) or a stutter.

`SockQueueProofs`, for any messages, connections and processes, with timeouts, signals and failures
anywhere:

* `Controlled` (`TypeOK` with `Control`), `OnlyThrowsGetStuck` (`StuckOnlyAfterThrow`) and `OneClient`
  (`OneClientPerServer`). `Control` says which `state_`, place of a call, buffer and descriptors go together,
  and that a server in IDLE that still listens has accepted nobody. It is needed even for the types: only it
  tells that a byte is read from a connection the end has.
* `ConnectionsWhole` (`WholeMessagesInOrder`). `Links` says that a connection that waits to be accepted, or
  is not made yet, was used by nobody; `Wire`, that each stream is the accepted messages, body and separator,
  possibly with the body of one more, and that an end that can still use its connection stands in it where
  its call says. An end whose call failed may be anywhere, which is why the code has to go back to IDLE.
* `ChannelImplemented`, `Spec => Channel(c, e)!Spec` for each connection `c` and end `e`: each direction is a
  `MessageChannel`, in which end `e` accepts only messages of its own program (`OwnMessages`). The prefix
  that `WholeMessagesInOrder` asserts of the next state makes the message delivered the oldest one not
  delivered yet (`NextOfPrefix`).

`SockdeqServProofs`, for any clients, consumers, messages and kernel buffer:

* `Served` (`TypeOK`, `Place`, `Backlog`), `NoDescriptorForgotten` (`DescriptorsTracked`) and `ConsumersWoken`
  (`NoLostWakeup`), from one invariant (`Serving`): a client being read is in `client_data`, not marked in
  `fd2erase` and not in `input` any more; marks exist only in a round; except for them `client_data` is
  what is open; and a consumer that is blocked has nothing to take.
* `MessagesArriveWhole` (`WholeMessagesInOrder`). The invariant (`Arrivals`) says of each client's messages
  how far they have come: queued, in the thread's hand, begun in the vector, written to the kernel, or not sent.
  A client that is marked has nothing left in the kernel, so dropping its vector loses no message.
* `QueueImplemented`, `Spec => Queue!Spec`: what the server thread and the consumers do to the queue are steps
  of `SimpleQueue`, or none. So what `SimpleQueueProofs` shows of every queue holds of this one. `Entered` is
  needed for it: the thread is in no call of the queue until it has read a separator.
* `ConsumersGetWhatWasSent`: of each client, what consumers took is a prefix of what it sends. It
  combines `Arrivals` with `InOrder`, `sent = received \o q_`.
* `ChannelImplemented`, `Spec => Channel(c)!Spec` for each client `c`: from the client's writes to what
  consumers take, through the vectors, the hand of the thread and the queue, the server is a `MessageChannel`.
  It needs that consumers took no more than the client has written to the end (`TakenFirst`).

`SeqLemmas` holds what these proofs need to know of sequences. What `Selected` takes out of a sequence of any
length is shown by induction over the naturals, on the set of lengths for which it holds. `Selected`
is a recursive function, where the properties might have used `SelectSeq`, so that it can be
reasoned about; the two agree.

Assumptions are those named in the modules: payloads do not include `NoItem` (`NoItemAssumption`), and
the names of objects, controllers, clients, consumers and the threads of the libraries are
different from each other; the clients of `SockdeqServ` send no message twice; buffers of the kernel hold
at least one token; a query has a natural number of rows and at least one column. Each invariant and each
refinement above was checked by TLC, on the constants of the component's run, before it was proved.

Only model-checked: liveness (`RunReturns`, `DestructionReturns`, `PeerGoneReleases`, `TimedDeqEnds`,
`TimedCallsEnd`, `MessageReachesQueue`, `FuturesBecomeReady`) and the fairness part of
`ImplementsFifo`, which are beyond the prover. The three runs that expect a violation have nothing to prove. Every other property of a passing
run, invariant or action property, is proved.

## Not modelled

* Moves and destruction of `simple_queue` and `polldir_queue` (a moved-from queue has no mutex, and the
  repository moves only queues no thread uses), moves of the descriptor queues (where
  `fddeq_queue.hpp:52` assigns `closeOnExit_` to itself) and of the Oracle streams (those of a sink do not
  compile: `reset_state` assigns `false` to an enumeration).
* `polldir_queue`: failing file opens and user serialisers, `set_maxsize` (it returns a value from a void
  function and cannot be instantiated) and `nextFileNolock` (never called).
* Two running `io_service::run` threads of the user: the tests use one.
* Two threads on one end of a socket or descriptor queue, besides the one that disables it (their comments
  ask for one); the disable flags of the socket queues; a second queue in the same process that is
  given the number of a descriptor an end has closed; a server object destroyed and constructed again in
  one process. The value `eclose` returns, an `errno` that may be older than the call
  (`queue_support.hpp:65`): nobody uses it.
* `stopwatch.h`: a class of two states over a clock, without concurrency, failure or a loop. A unit
  test covers every path, and its one computation is the clock's.
* `type_utils.h`: result types, predicates on types, printing, `uniform_tuple_builder`, `get`: type
  computations the compiler checks.
* Bind variables of a query in `occi_source`, and assignment of its iterators.
* The test programs and the echo server, which are read for how the components are used.

## Plan

Every component with behaviour of its own is modelled, and every safety property the runs check
is proved. What is left:

1. `AsyncQueue` over `BoundedFifo` with several threads in `io_service::run`, for which `HandlersInOrder` has to
   be weakened to the order in which handlers are posted.
