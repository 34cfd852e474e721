# Verification of shared-state-server

TLA+ models of the server and the client of this repository, model-checked with
TLC on small instances. Every safety property that the runs check of the code, and the
safety part of both refinements, is also proved by TLAPS, for any sessions, values and
bounds. The models are translated from the C++ sources; line numbers below and in
`PROJECT.json` are lines of those sources.

## The system

The server (`src/server/main.cpp`) keeps one table of key-value pairs. A client
connects, is sent the whole table ("the sync"), and from then on every change the
other clients make ("the feed"). All of the server's work is done by handlers of
one `io_context` that N threads run; what keeps them apart is strands. Nothing is
persisted: there is no crash recovery to model.

| component | state | operations | runs on |
|---|---|---|---|
| state storage, `common/state_storage.hpp` | `m_map`: key to (key, val, key_val), of which key and val are views into the buffer key_val | `update`, `size`, `get_first`, `get_next`, `reset` | its own strand; all but `update` hand back a future |
| acceptor, `common/acceptor.hpp` | the listening socket, one `async_accept` | `start`, `stop`, `is_open` | its own strand |
| session manager, `common/session_manager.hpp` | `m_list` of sessions | `create`, `broadcast`, `reset`, `size`, the deleter of a session | its own strand |
| session, `common/session.hpp` | socket, `m_on_stop`, inactivity timer | `start`, `send`, `stop`, the read chain | the socket's strand |
| server, `server/main.cpp` | none of its own | `on_new_connection`, `start_sync`/`sync_next`, `handle_data`, `handle_ping`, the signal handler, the statistics timer | the strand of whoever calls |
| client, `client/main.cpp` | socket, `m_queue`, `m_on_write`, two timers | `start`, `send`, `stop`, `stop_ping`, the read chain, the terminal | one thread |
| object pool, `common/object_pool.hpp` | a lock-free stack, counters | `get`, `get_del`, the deleter | any thread |
| intrusive pointer, `common/intrusive_ptr.hpp` | a reference count | copy, move, assign, destroy | any thread |
| thread pool, `server/main.cpp` 300-366 | N threads in `run()` | futures block them | |
| pure functions: `fnv1a.hpp`, `average.hpp`, `utils.hpp` | | | |

How they interact: a connection is accepted on the acceptor's strand, where
`on_new_connection` (182-201) posts the session on the manager's list, starts it
and waits for futures of the storage. A `DATA` line read on a session's strand
is posted as an update on the storage's strand; if it changed the map, its callback
posts a broadcast on the manager's strand; that posts a send on the strand of
every other listed session. The sync posts, for each pair, a blocking request
from the session's strand to the storage's. `SIGUSR2` stops the acceptor, resets
the manager's sessions, resets the map and starts the acceptor again, waiting for
each of the first three. A session is destroyed when the last `session_ptr` goes: the
pending handlers, the buffers and the updates that carry one keep it alive.

What is hard here, and a test would hardly reach:

* three queues lie between an update and a client, and the sync and the feed of one
  client are two streams on different paths to the same socket;
* iterators and views survive between the requests that use them;
* the completion of an operation that was cancelled, or finished just before it
  could be, runs after the state it was begun for is gone;
* futures block strands, so strands wait for strands;
* a session's last reference can go on any thread, and its stop, its removal from
  the list and its destructor are three handlers on two strands;
* `stop()` of the client forgets a write that is outstanding.

`PROJECT.json` lists each of these at its line under `hazards`, with the
properties that cover it.

## The modules

**StateStorage** is one action for each handler the storage posts and one for
each call that posts it. A buffer is the position in `log` of the announced line
it holds, so a stored pair is three such positions (`key`, `val`, `key_val`).
`m_strand` is the strand's queue, `fut[s]` what session s waits for or was
answered, `cursor[s]` the iterator it holds, with the generation `m_gen` of the
map it points into. The map is an ordered `boost::intrusive::set`: a key is its rank
in that order, and `IsFirst`, `IsNext` and `IsLast` are `begin()`, `std::next()` and
`end()`.
`Strand` is what the strand runs; `Scan(s)` is what a sync asks.

**Acceptor** is the acceptor with the signal handler that drives it. An accept is
outstanding (`acc_live`), finished and not yet handed to the strand (`landing`),
or a handler on it (`acc_strand`); `close()` reaches only the first. The server's
callback blocks, so `OnAccepted` and `CallbackReturns` are two steps.

**Server** composes both with the manager and the sessions. It instantiates
`StateStorage` and `Acceptor` over its own variables and conjoins their actions
with what the callers do in the same handler: `StoreAndBroadcast` is
`update_impl` with its callback, `SyncResume` a `get_next()` answered, `Restart`
the end of `SIGUSR2`. `strand[s]` is the queue of a session's strand,
`waiting` the sessions blocked in `sync_next()`, `writing` the writes outstanding,
`wire` what the connection was handed. `Held(s)` says who holds a `session_ptr`;
when nobody does, the session is an `Orphan` and `Release`, its deleter,
is the next step, because the deleter runs inside the handler that dropped the last
reference. `on_new_connection()` is four steps with two waits in it: `Accept` asks for the size,
`Create` makes the session and starts it, `StartSync` asks for the first pair, and `Joined` sends
it; from `Create` on the session reads, while its sync is still to begin.
A handler begins only on a thread that is free (`ThreadFree`), and one
that waits for a future (`Blocked`) keeps its own; when every thread is blocked and no future
is ready (`AllBlocked`) nothing happens any more. `Stored` is what the map holds
when a behaviour begins: the program begins with nothing in it (`Stored = <<>>`);
an instance with pairs begins later, when their authors have left, so that two
clients can sync at once in a small one.

**Feed** is the abstract specification of what a client is promised: from some
point on, every change of the others, once, in order. `Server` implements it
(`ImplementsFeed`) under a refinement mapping that reads the client's position
from what was written to its connection.

**Client** is the client program: `queue`, `on_write` and the writes outstanding;
the read chain, in which a line that came in one piece with the one before it is read from the
buffer even after `stop()` has closed the socket; the waits on both timers by what became of them (armed,
expired with the handler still to run, aborted); the terminal. `stop()` throws on a
socket that is not connected, which ends the program (`over`).

**ObjectPool** is the pool that sessions and buffers come from, each step of `get()`
and of a deleter an action of its own, since any thread runs them without a lock:
`pc[t]` is where thread t is between `empty()`, `pop()`, `new`, `push()` and the
counts. `get_impl` and `get_impl_del` differ only in what their deleter does before
the push, and are one here. boost's stack is linearizable, and taken as such.

**Allocator** is the abstract specification of a pool: memory is made once, an
object is held by one user at a time, the size is the number made. `ObjectPool`
implements it (`ImplementsAllocator`).

**Lifetime** is a session from the memory it is constructed in to its destructor,
with what `Server` leaves out: the inactivity timer, the reference count as a
counter, and the pool. It instantiates `ObjectPool` over the strands and the
sessions' memory. `cell[c]` is where the session of connection c was constructed and
`tenant[m]` the session that is in m now; the handlers that hold `this` without a
`session_ptr` (`stop_impl`, and the sends of a broadcast) carry the cell, and act
on its tenant of the moment. `Ends` is what every handler has in common: it leaves a
number of `session_ptr`s more or less than there were, and if it dropped the last one
it runs the deleter, whose push and uncount are further steps. Steps of the pool that
commute with all others (only the acceptor's strand gets sessions) are not interleaved.
Two things are undefined behaviour and end a behaviour of the model (`ended`): a handler that
holds `this` and runs when its session is destroyed (`RunDangling`), and a session constructed
over one that is not destroyed yet. The properties hold up to there; `undefined_memory` shows
that it is reached.

**StateStorageProofs**, **ObjectPoolProofs**, **AcceptorProofs**, **ClientProofs** and
**LifetimeProofs** prove the theorems about the module each is named for; those about
`Server` are in **ServerProofs** (its parts, and its types), **FeedProofs** (what is
broadcast) and **JoinProofs** (what a join is sent). **MCStateStorage**
and **MCServer** give TLC its model values; the other modules are run as they are.

## The runs

| run | cfg | what it shows |
|---|---|---|
| storage | MCStateStorage | views stay owned, the newest update wins, scans cover the map, ascend and end, one request at a time, an update is announced exactly when it changes the map |
| acceptor | MCAcceptor | the acceptor is never opened twice, keeps listening, and comes back after SIGUSR2 |
| server | MCServer | feeds are exact and in order, joins miss nothing, and the server implements Feed, while two clients join and two lines change the map |
| server_reset | MCServerReset | with signals and a client that leaves: syncs and signals come to their end, stopped sessions are destroyed, unless all threads are blocked |
| client | MCClient | lines leave in order, one write at a time, none stuck, each written or failed in the end; one chain of pings |
| pool | MCObjectPool | no object is handed out twice, the counters are right, not all threads spin, the pool implements Allocator |
| lifetime | MCLifetime | the reference count is the number of `session_ptr`s, the list links living sessions, each is destroyed by one erase, a reading session is watched, a dead one is destroyed |

and the runs that find what the repository says and the code does not keep:

| run | property | what happens |
|---|---|---|
| stale_sync | StateIsShared | the sync sends an old pair after the feed of the new one |
| dangling_iterator | IteratorsValid | `reset()` deletes a node that a scan still points to |
| undefined_memory | MemoryIntact | `stop_impl()` runs on a session that the manager's strand has destroyed |
| far_deadline | DeadDropped | a client that is silent from the start is never dropped: its first deadline is read from uninitialised memory |
| threads_exhausted | PairsSent | two threads wait in `get_first()` and `get_next()`, none is left to answer, and the clients are sent nothing any more |

Each is a `finding` in `PROJECT.json`, with the line that says otherwise.

Bounds, and why they are enough. Every property is about at most one session or
one pair of author and reader, and at most two keys (one before and one behind an
iterator), so two sessions and two keys show every conflict; two values let a
key be changed after it was inserted. In `storage` two updates suffice: an insertion
behind or before an iterator and a change of what was handed out; the proofs
lift the bound. `server` begins with one pair stored, so that both clients sync, and has two
lines that give keys a new value: an insertion behind or before an iterator, a change of what
is about to be sent, or one line after the other, so that a feed has two changes to keep in
order. It has three threads, of which the accept handler and one sync block two, so that it
does not come to rest before the end.
`server_reset` is about what must end. It has two pairs stored, so that a sync is under way,
reset or stopped between them, one client that sends a ping or a bad line, or none, and may
leave at any time, and two signals of any kind: `SIGUSR2` in the middle of a sync, of another
signal's waiting, or after one. It has two threads, one for the signal handler and one
for the accept handler or the sync: both may be blocked, and `ThreadFree` is false in
many of its states. That feeds stay exact and joins complete over resets, leaving clients and
bad lines too is not run: a reset matters there only to several lines after it, more than TLC
gets through, and `FeedIsExact` and `NothingIsMissed` are proved for any number of each.
`threads_exhausted` has two clients, two stored pairs and two threads; with three threads the
same instance keeps `PairsSent`. In general a server of n threads comes to a stop when n
handlers wait at once, one for each session that syncs, one that accepts, one for
a signal: `src/server/main.cpp:303` takes as many threads as the machine has, and nothing
bounds the connections.
`pool` has three threads and three objects: one
thread that looked, one that took the last object, one that gives one back. `lifetime` has
two connections, so that the second can get the memory of the first, two cells, so that it
need not, one line of any kind, one client that may leave, one pair to sync, and one
connection whose first deadline, read from uninitialised memory, is never; the runs that refute
`MemoryIntact` and `DeadDropped` have the same instance.
The acceptor is run with three signals, of any kind,
three connections and one failed accept: a stop, a start and a stop again around
accepts that overtook them. The client gets two typed lines, two pings and two server
lines: one write outstanding, lines in the queue, and more after `stop()`.

`CHECK_DEADLOCK` is off
because every system here may stop: bounds are reached, the io_context is stopped,
the threads are all blocked, or the client's exception ends it.

Fairness. `storage`, `acceptor` and `client` have weak fairness of each strand (asio runs
what is posted on a strand as long as a thread is free), of each finished operation's
completion, and in the client of the connect and the outstanding write. `Server` and
`Lifetime` have a single weak fairness condition, of `Progress`: the server takes some step
as long as it can. This is less than fairness of each strand and is enough, because the
bounds leave only finitely many handlers to run: no strand can be passed over for ever
while others go on. `Progress` includes writes on a connection that is up (the clients read
what they are sent), reads that fail once the socket is closed, and timers that expire. None
of these conditions obliges the environment to do what it may leave undone: connect, write a
line, leave, send a signal. That a handler finds a thread is no assumption either: in `Server`
it is a guard, and when it is false for good the server has halted (`Halted`), which
`threads_exhausted` shows to happen. `SyncEnds`, `SignalHandled` and `StoppedDestroyed` say what is
true of a server that has not: again and again no sync is at work, no signal half handled, no
stopped session left. They are of the form `[]<>` because lines, connections and signals are
bounded: every behaviour comes to rest, and what is true then is true for good.

## The proofs

`StateStorageProofs` proves, for all sets of sessions, keys and values and all
bounds: `TypeCorrect`, `ViewsAreOwned`, `LatestUpdateWins`,
`RequestsAreCurrent`, `ScanMissesNothing`, `ScanMovesForward` and
`AnnouncedIffChanged`, from `StorageAssumption` alone (keys are positive naturals,
bounds naturals).

The invariant is `IInv`. `ScanCovers` alone is not inductive: it speaks of the
iterator a session holds, while `get_next_impl` runs on the iterator that was sent with
the request. `OneRequest` ties the two: a session has one request on the
strand, made with the iterator it still holds, and no iterator before its first pair.
`NotBegun` carries the latter through the time between requests.
`FromLogged` says that a scan began in the past, so that whatever is announced from now
on counts as after it. `LatestWins` and `ViewsOwned` need only the type
invariant. Each has a lemma of its own (`...Next`), one step per
action of `Next`; `InvNext` puts them together, and the last step of each theorem is PTL.

`ObjectPoolProofs` proves, for any finite, non-empty set of threads and any finite
set of objects, `TypeCorrect`, `OneOwner`, `CountersRight`, `SomeoneGoesOn` and
`PoolRefines`. The invariant is the conjunction of the four checked ones, and needs all of
them: the counters are cardinalities of sets that a step moves one element between, which
is only right if the object was in one place (`Exclusive`); `m_in_use` stays a natural
because `CountersExact` says that it counts at least the thread that is about to uncount;
and `NotAllSpin` is kept by a pop because the thread that pops is not in the loop any more,
and by a look because it found the stack not empty. Each action has a lemma that says where
the objects are after it (`LookMoves` and so on), from which both the invariant and the
refinement are proved. In the refinement a `HandOut` is an `Acquire`, a `Push` a `Release`,
an `Allocate` a `Make`, and everything else a stutter.

`AcceptorProofs` proves, for any connections, signals and bounds, `TypeCorrect`,
`NeverOpensTwice` and `KeepsListening`. `NeverOpenTwice` looks at the acceptor when
`start_impl` runs; to be inductive it needs to know where a `start_impl` may be. It is
queued either by `main()`, when nothing else is, or by the signal handler, which waits
for `stop_impl` first; so `IInv` says that a start on the strand finds the acceptor closed
with none of the handlers that close, ask or open before it (`StartsClosed`), that while an
`is_open` or a stop is queued the signal handler waits for it and none of them is behind it
(`WaitsForLast`), and that when it has its answer none is left, and the acceptor is closed
if the answer says so (`AnswerHolds`). All of these are about the order of one queue, to
which accepts only append.
`StillListening` needs the type invariant alone, of which a part is that no accept is outstanding
on a closed socket.

`ClientProofs` proves, for any bounds, `TypeCorrect`, `LinesInOrder`,
`OneWriteAtATime`, `NothingGetsStuck` and `OnePingChain`. `InOrder`, `OneWrite` and
`NothingStuck` hold for the same reason, and none is inductive alone. `LinesInv` follows a
line from the queue to the connection: the queue holds the last lines given to `send()`,
in order (`QueueInOrder`); until `stop()` at most one write is begun and not completed,
and an outstanding one is the last line that left the queue, with all before it written
(`OneBegun`); while the connection may still be written to, a line that left the queue is
written or outstanding (`AllWritten`). After `stop()` several writes can be begun, for
`m_on_write` is cleared with a completion to come, but the socket is closed and every one of
them has failed: that is why `OneWrite` survives it. `OnePing` needs that no wait exists
before `on_connected()` has run.

`ServerProofs` proves, for any finite set of sessions and any keys, values, lines, signals,
threads and bounds (`ServerAssumption`), `TypeCorrect`, `StorageKeepsItsWord` and
`AcceptorKeepsItsWord`. A step of the server is a step of the storage or leaves it alone
(`[SP!Next]_(SP!vars)`), and so with the acceptor; hence the invariants proved of the two
alone hold of them when the server drives them, and nothing is proved twice. That is also
the statement that the callers use them as they may be used: a session asks for one pair at a
time, the restart waits for the stop.

`FeedProofs` proves `FeedIsExact` and `FeedImplemented`. `FeedExact` says what a client
was sent or has on its way; what it needs is the order of the manager's queue
(`BroadcastsInOrder`: the broadcasts queued there are the changes not announced yet, once
each, oldest first), that a session is linked once and after it was created
(`ListedOnce`), that it was linked at a point that is past (`BaseKnown`), and, of each
session, that its connection, its writes and its strand hold together an ascending feed that
is all it is owed (`FeedKept`). `FeedImplemented` is the refinement of `Feed`'s safety part,
`Spec => AbstractFeed!SafeSpec`, of which `ImplementsFeed` is the fair version.

`JoinProofs` proves `NothingIsMissed`: whatever was changed before, during or after its scan, a
client that joined has the current value of a key of another, or it is on its way. The argument
joins four facts. The storage's `ScanCovers`: what the scan has passed was handed to
it or changed later. `GotSent`: what was handed to the scan was sent. `FromBase`: the
session is listed before its scan begins, so that what is changed later is broadcast to it.
`FeedExact`: what is broadcast reaches it. `ServingOne`, `Asking` and `Fresh` say whose answer
a future holds. `on_new_connection()` calls `create()` before `get_first()`
(192, 165): `FromBase` would be false the other way round.

`LifetimeProofs` proves, for any finite set of connections, any finite set of cells and any
inputs and bounds (`LifetimeAssumption`, which also says that the names of connections,
services and "nobody" differ), `TypeCorrect`, `RefCountExact`, `ListedAreAlive`,
`SessionsDestroyedOnce`, `BuiltOverTheDying`, `WatchedWhileReading`, `PoolKeepsItsWord` and `SessionsImplementAllocator`. Its invariant is in
layers, each kept with the help of those before it:

* `Basis`: the pool's invariant (each step is a step of the pool, `PoolAllows`), the types,
  and that only a session that was constructed has handlers of its own or operations.
* `Joining`: one connection is joined at a time, and has no session until the pool
  hands one out. `ReadsOnce`: one read a session, outstanding or ended and not handled.
* `Watched`, which needs `ReadsOnce`: the wait is cancelled only by the handler of the
  read that keeps the session reading.
* `Tenants`: a session in a cell is that cell's. `Listed`: what is listed, in use, or to
  be linked or erased holds a session, and to erase it is the last thing the manager will do
  with it.
* `DestroyedOnce`, which needs `Listed`: a handler that frees its session queues the erase of
  a cell that is in use and so holds a session.
* `Counted`: `RefCount`, and that a cell the pool took back has none counted. `Ptrs` is a sum
  of cardinalities over four kinds of queues, so the lemmas `CarriedDropped`, `CarriedPut`,
  `CarriedPutAll`, `TimesAppended` and `TimesDropped` say by how much taking a handler off a
  queue or queueing one changes it, `EndingCounted` what the end of a handler does,
  and one lemma per action (`StartImplCounted`, `BroadcastCounted`, ...) that the number the
  model adds to the counter is the difference. In `BroadcastCounted` it is the number of cells
  linked, which is that of the handlers posted because `Tenants` and `Listed` make it a
  bijection.
* `NonNegative`: no counter is below zero, since each is a `Ptrs`.

`BuiltOverTheDying` says how far the second of the two outcomes that `MemoryIntact` excludes goes: the acceptor's strand has in hand
memory that is not in use (the pool's `Exclusive`), so by `DestroyedOnce` a session that is
still in it is one whose erase is queued. No session that something counts on is built over;
only the window between a deleter's push and its erase is open.

`RefCount` needs `Listed`, because the erase that ends a session must not meet one that is still
referred to, and `Listed` holds up to the first construction over an undestroyed session only:
all of this is up to `ended`. A handler on a destroyed session is a last step that changes nothing
else (`Dangles`), so the invariant needs no word about it; `undefined_memory` shows that such ends are
reached.

What the proofs take from elsewhere: the theorems of the library about sequences, finite sets
and cardinalities, and no assumption besides those named above.

Only model-checked, because liveness under fairness is out of the prover's reach: `ScanEnds`,
`ResetReopens`, `SyncEnds`, `SignalHandled`, `StoppedDestroyed`, `LinesLeave`, `DeadDestroyed`, and the fairness
that `ImplementsFeed` adds to what `FeedImplemented` proves. The properties of the runs that
expect a violation are refuted by TLC, so there is nothing to prove.

## What is not modelled

* The statistics timer and `session_manager::size()`: a handler that once a second blocks a
  thread until the manager's strand has answered. It changes nothing; it is one more handler
  that may wait.
* `SIGUSR2` in `Lifetime`, and the inactivity timer in `Server`: each is in the other module.
* Partial writes: a message is written in one step, although several `async_write()` on a
  socket may be outstanding at once.
* The contents of buffers, and who holds them: `state_storage.hpp:111` assigns `key_val`, and
  the assignment of `intrusive_ptr` (71-86) does not give the old reference back, so the
  buffer of a value that was changed never returns to its pool. `src/server/main.cpp:306`
  speaks of preallocated sessions; the capacity given to the pool reserves nodes of the
  stack, no objects.
* What the storage holds after `SIGUSR2`: updates of stopped sessions that arrive after
  `state.reset()` are in the models, and the new state may begin with them.
* Failures of `open()`, `bind()` and `listen()`, and the destructors of `main()`.
* `average.hpp`, `fnv1a.hpp`, `utils.hpp`, the command line.

## Plan

Written so far, in this order: StateStorage, Acceptor, Server, Feed, the proofs of the
storage, Client, ObjectPool, Allocator and their proofs, Lifetime, the threads of Server,
the proofs of Acceptor and Client, those of Server and of Lifetime. Next:

1. **SocketWrite**: several writes on one socket, in parts.
2. Client with Server: what a client believes about the keys it writes itself.
3. **average** and **fnv1a** as functions against reference definitions.
