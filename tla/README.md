# TLA+ models of libevrpc

libevrpc is an RPC framework in C++: a server that accepts connections in one
libev loop and runs requests on pools of libev threads, a client with
synchronous and asynchronous calls, and a cluster of "rpc centers" that elect a
leader and balance load. This directory models the parts of it where threads,
processes or messages interleave, checks them with TLC on small instances and
proves the central facts with TLAPS for every value of the constants.

Paths below are relative to the repository (`src/...` is its source directory).

## Inventory

| Component (source) | State | Operations | Hard behaviour | What makes it correct |
|---|---|---|---|---|
| **libev thread pool** (`rpc_server/libev_thread_pool`) | per slot: pipe, request queue, event loop, thread id, running version; a free list of request items; `current_thread_` | `Start`, `DispatchRpcCall`, `LibevProcessor`, `RestartThread`, `Destroy` | many dispatchers, threads cancelled inside a call, stale arguments of `RestartThread`, shutdown during dispatch | an item has one owner; one queued item per notification; each call runs once; only the call that timed out is killed; nothing waits for ever |
| **center election** (`rpc_center/rpc_center`, `election_thread`) | status, clock, leader, the other centers with their votes, the election queue | `StartCenter`, `InquiryCenters`, `ProposalLeaderElection`, `ProcessCenterData`, `UpdateOCStatus` | two threads per center, lost proposals, crashes and restarts, unequal centers files | a leader is adopted only by a majority's votes, and is elected in the end |
| **connection timers** (`rpc_server/connection_timer_manager`) | buffers per thread, buckets, the list of deleted timers | `InsertConnectionTimer`, `DeleteConnectionTimer`, `Run`, the buffer crawler | a timer expiring while its call returns; two lists swapped under two locks | a timer that is deleted does not fire, one that is not does |
| **dispatch thread** (`rpc_server/dispatch_thread`) | the list of accepted connections, a free list | `AcceptCb`, `ProcessCb` | events of several connections pending together | the connection handed on is the one that is readable |
| **center server thread** (`rpc_center/center_server_thread`) | the same lists, written out again | `AcceptCb`, `Processor` | the same, and descriptors that the election thread closes as well | an answer goes to the peer that asked |
| **rpc server** (`rpc_server/rpc_server`) | the table of methods, two pools | `RegisteService`, `RpcCall`, `RpcProcessor`, `RpcReader`, `RpcWriter` | a request moves between two pools and may be killed in each | each request is answered once or its connection closed |
| **message framing** (`util/rpc_communication`) | bytes on a socket | `RpcSend`, `RpcRecv`, the datagram forms | partial reads, lengths at a frame boundary | what is received is what was sent |
| **center messages** (`center_proto/*.pb.*`, generated) | the fields of five message types | accessors, `Serialize`, `ByteSize`, `MergeFrom`, `Clear`, parse | zero bytes, unknown fields, nested messages | the size announced is the size written; what is parsed is what was set |
| **client channel** (`rpc_client/rpc_channel`) | the connection, the list of asynchronous answers | `CallMethod`, `AsyncRpcCall`, `GetAsyncResponse` | calls of several threads on one channel, retries | an answer goes to its call |
| **center requests, load balancing** (`rpc_center/rpc_center`, `load_balancer`, `leader_thread`, `reporter_thread`) | the hash ring, reported servers | `CenterProcessor`, `ReporterProcessor`, `AddRpcServer`, `UpdateLBResult` | requests before a leader exists, updates during reads | a registered server is found |
| **heartbeats** (`rpc_heartbeat_*`, `center_*_heartbeat`) | last ping, addresses of servers | `Run` loops | lost datagrams, an empty list of servers | a living server is not dropped |
| **threads, locks** (`util/thread.h`, ...) | the running flag | `Start`, `Stop`, `Wait` | restart after stop | |
| **controllers, hashes, configuration** | | | none: sequential code | |

The components meet as follows. The dispatch thread accepts a connection and
calls `DispatchRpcCall` of the worker pool; the request's processor runs there
and reads the request with `RpcRecv`. A connection timer holds a thread id and a
running version, and the timer thread passes them to `RestartThread` of the pool. In a center, the server thread pushes every election message to the
queue of the election thread, which shares the tables of the center with main.
rpc servers and rpc clients report to a center by heartbeats on connections of
their own.

The hazards this leads to are listed, each at its line, in `PROJECT.json`.

## Modules

* `CallService` - what the pool promises its callers: a call is rejected, or
  accepted, run, and then finished or killed, each at most once.
* `LibevThreadPool` - the pool, with properties and the refinement mapping.
* `RpcServer` - a request's path through the server, on a pool that is
  `CallService` (so what `ImplementsCallService` shows is what this module uses).
* `DispatchThread` - the accept loop in front of the pool.
* `ConnectionTimers` - the timer wheel and the buffers in front of it.
* `RpcCenterElection` - the election of a leader among the centers.
* `CenterService` - one center's server and election threads with their
  descriptors, and the heartbeat of an rpc server or client that uses it.
* `CenterMessages` - the generated message classes, as operators.
* `RpcFraming` - `RpcSend`/`RpcRecv` and their datagram forms.
* `CenterWire` - the two together: a message is filled, copied, serialised, sent
  in frames, received and parsed.
* `RpcChannel` - the client's calls.
* `LibevThreadPoolProofs`, `RpcCenterElectionProofs`, `RpcServerProofs`,
  `ConnectionTimersProofs`, `CenterServiceProofs`, `DispatchThreadProofs`,
  `CenterWireProofs` (framing and messages too), `RpcChannelProofs` - theorems
  about the module they are named after.
* `MC...` - the instances of each, with one `.cfg` per run.

Operators whose name begins with `Mut` are faulty variants of the operator
after them. No specification uses them; they serve to see each property fail.

### LibevThreadPool

An action is the code between two points at which another thread can matter.
`DispatchRpcCall` is six of them per dispatcher (`RQItemNewTake`,
`RQItemNewAlloc`, `PickThread`, `StoreThread`, `RQItemPush`, `Notify`; `dpc` is
where it stands), since `current_thread_` is read and written without a lock
and the queue, the free list and the pipe are each locked or atomic by
themselves. A pool thread (`tpc`) goes through `ev_run`, `LibevProcessor` and
the processor of the item. A pipe is the number of its `c` bytes in front of
the `q` byte (`notes`), the `q` byte (`quit`), and those behind it (`late`),
which is all its order can differ in.

`RestartThread` cancels in the deferred mode of POSIX (it sets the cancel type
of its own caller, not of the target), so a thread ends only in `epoll_wait`, in
`read`, in the item's processor, or in the first `close` of `ev_loop_destroy`
(`CancelPoints`, `HandlerPoints`, `Cancelled`). libev is external: what is used
of it is that `ev_run` clears `loop_done` on entry, tests it and the number of
active watchers after each round, that `ev_break(EVBREAK_ONE)` ends one
`ev_run`, and that using a destroyed loop is an error that ends the process
(`TouchDestroyedLoop`; `aborted` stops the behaviour). A use of a queue that
`Destroy` has deleted ends it likewise.

The arguments of `RestartThread` are noted (`Observe`) at any time before it is
called, as the timers and the unit test do; `TimersOnly` restricts this to
running calls, once each. `completed`, `done`, `noted`, `outcome` and `xprom`
are history variables.

Abstractions: the processor of a request is one step that returns or is
cancelled; the request itself is the number of its call. The loop in `RQItemNew`
that links a fresh block also writes in front of the block (line 128); the
model links the items as intended. Failures of `calloc`, `pipe` and
`pthread_create` while the pool starts are left out, and `Destroy` is called once.

### DispatchThread

The loop is single-threaded; what is hard is that libev keeps pointers to the
event items. `watchers` is libev's list of items per descriptor, `pending` the
callbacks of one round of `ev_run`, in any order. An item is memory: `AcceptCb`
that takes a freed item changes `fd` wherever libev still finds it, and
`ev_io_init` marks it inactive before `ev_io_start` adds it to its new
descriptor. `ProcessCb` passes on the descriptor of the watcher that fired, but
frees the head of the list in use. `pool` is how far `Start` of the worker pool
has come: without a table `RpcCall` closes the connection, with a table and no
queues it faults, afterwards it succeeds or, without memory, closes. `serial`,
chosen in `Init`, restricts the clients to one request at a time, in the order
of acceptance. A descriptor number is not given to a second connection; the
write in front of a fresh block (line 157) is left out as in the pool.

### RpcCenterElection

A center is two threads: main (`pc`), which runs `StartCenter` up to the end of
the broadcast of its proposal, and the election thread, whose round is
`ProcessCenterData`. `Entry` is what the `memset` in `InitRpcCenter` leaves of
an `OtherCenter`: status LOOKING, not UNKONW. Addresses are numbers in the order
of `string::compare`. `ProposalLeaderElection` reads the leader's start time and
its name under two locks, so these are two actions. `out` holds what a
broadcast has still to send; each message is delivered to a center that runs, or
lost. A message whose status is LOOKING, as that of a proposal always is, may also
fail to parse (`Unparsed`): LOOKING is 0, and `RpcRecv` cuts a message at a 0 byte.
With today's numbers it always fails; `Deliver` is kept for it all the same, so that
what is shown of the election holds of the algorithm and does not rest on that. A crash forgets everything; `counted` and `asked` are history variables.

`InquiryCenters` is modelled up to the choice of the centers it asks, and the
leader and reporter threads up to their start: `InquiryAsksNobody` and
`NeverLeading`, which are proved, say that the code behind is never reached. Of
`ProcessCenterData` the cases PROPOSAL and LEADER_CONFIRM are here, INQUIRY is in
`CenterService`; FOLLOWER_PING and LEADER_PING_RESPONSE are never queued.

### ConnectionTimers

`InsertConnectionTimer` and `DeleteConnectionTimer` are the workers' steps; the
timer thread takes one buffer after the other, its deletions under one lock
(`TakeDeleted`) and its insertions under the next (`TakeBuffer`), then visits one
bucket. The maps' `insert` does not overwrite: a key (address and descriptor)
that is in use keeps the old timer. `Expire` is the passing of time. In the
repository only the unit tests insert timers; the workers here do what those
tests do. `Run` calls `RestartWorkerThread` for the timers whose `expire_time` is
still to come (`connection_timer_manager.cpp:195` tests `expire_time > time(NULL)`);
the model follows the code, so `Firing` is that set, and `PROJECT.json` records the
inversion. The arguments of that call are read through a reference into the map node
erased one line before. What freed memory holds is not modelled: the read may fault
(`VisitBucketFault`), or give any pair, the timer's own or another's. The wheel does not
depend on which, and the pool is modelled for every pair (`Observe`, `RestartThread`), so
the two together do not say that the call killed is the one whose timer was erased. `HeartbeatServerRun` is the
heartbeat server's `Run`, which returns as soon as its initialisation succeeds,
so that `HeartBeatProcessor` is not reached.

### CenterMessages, RpcFraming, CenterWire

A message type is the list of its fields, a message the list of what was set in
each. One definition (`Serialized`, `SizeOf`, `Merged`, `Parsed`, `With`, `Cleared`)
stands for what the generator writes out once per type; a method of a type is
its application. `Parsed` skips unknown fields and puts invalid enum values
aside as the generated code does; nested messages are bytes that must parse.

`RpcSend` cuts the bytes in bodies of `BODY_SIZE - 1`; the last, shorter one is
marked by a negated id. `RpcRecv` may get any prefix of what is on the wire, up
to the size of a `MetaData`; it appends each body up to its first 0 byte. The
header, four bytes in the code, is one element here, so a read that splits the
header itself is not among the short reads. Datagrams may be lost or reordered.

### RpcChannel

`CallMethod` connects and stores the descriptor in `connect_fd_`, which every
later step of every call uses; the kernel reuses descriptors and thread ids as
soon as they are free. An asynchronous call is a thread (`cpc`); `GetAsyncResponse`
takes a thread from the list under the read lock, joins it and fetches its answer.
Readers exclude no readers, so `front` and `pop_front` are two steps (`Front`,
`PopFront`), and two users inside them together are a data race on a `std::list`: from
then on what the list holds is unknown (`raced`, `Known`), any thread id may be read from
it, and the process may end (`PopTorn`, `JoinFails`). `ServerSilent` is a server that has
lost a request and leaves the connection open, as it does when the request's thread is
killed; `RpcRecv` has no timeout and waits for ever. The
comment at `rpc_channel.cpp:72` that `CallMethod` is not thread safe is
respected: it is called while no user is in the channel. `raced` records that
two users were inside the read-locked section together, `overlapped` which calls
were under way together. `center_client_heartbeat_ptr_` is never initialised
(`garbage`): a call that finds it non-null ends the process.

### RpcServer

`FindBegin` and `FindMethod` are the search before the lock in `RegisteService`,
`InsertMethod` and `ReplaceMethod` what follows under it. A search that overlaps another
registrar's change of the map (`disturbed`; `InsertOther` is that of another method) is a
data race: it may miss the entry, or fault (`FindFaults`). When it misses, `insert` finds the entry of the other
registrar and leaves it, so the later method is lost, against the comment at line 133.
The destructor frees the methods first, then destroys the pools, and the dispatch
thread last: calls come in all phases, and one that comes to a pool that was freed, or
a thread that a restart has left outside the pool's table, ends the process
(`Delete`, `PoolDeleted`, `UseAfterDelete`). `KillFaults` is the fault of `TouchDestroyedLoop`. `RpcProcessor` keeps the read lock from
`Find` to the end of `Parse`. A request that parses then uses the outer
`rpc_method`, which the inner declaration shadows (`rpc_server.cpp:268-294`) and
which is NULL: the process ends (`phase = "died"`). With reader threads
configured nothing is received, since nothing dispatches to that pool: the
request's id stays -1 and its method is not found.

### CenterService

`conn` maps descriptors to the connections they stand for; `close` of a number
closes whatever it stands for. `CenterProcessor`, `Answer` and `Processor` are one
callback of the event loop, split where another thread can come between: reading the
request, `RpcSend`, and the final `close`. For an election message the descriptor is also queued
for the election thread, which may answer on it and closes it twice more, while main
opens and closes connections of its own.

The event items of `center_server_thread.cpp` are managed as those of the dispatch
thread are: `Processor` stops the item that fired and frees the first of the list
(`PopCEIO`), so an item that libev still watches is initialised again, and a number that
another thread has closed stays watched when the kernel gives it out again.
`DispatchThread` models such items one by one. Here the outcome is taken for the worst
instead: every number that was ever watched (`watched`) may be called back at any time,
whatever it stands for by then, its request unread, read already, or none at all. Of the items only their number is
kept (`items`): with none, `PopCEIO` gives NULL and the process ends; `AcceptCb` may
fail to allocate a block. The write in front of a fresh block (lines 153-155) is left
out as in the pool.

Other peers (`OtherPeer`) may send anything of the protocol, election messages and
registrations of other servers included; what they sent is chosen when it is read. `RpcSend` closes
the descriptor when the send fails, so every answer may also be an early close. The walk
over the hash ring follows the code, including that it may step to `end()`: `ReadsEnd`
may end the process. The registration of a server, its reinitialisation after
`should_reinit` failures and its pings, and the initial request and the later updates of
a client, are the two heartbeats. A proposal's effect on `status` is any that
`RpcCenterElection` allows.

## Runs

| Run | Instance | Shows |
|---|---|---|
| `PoolRestart` | 2 slots, 2 dispatchers, 2 calls, 4 items in blocks of 2, up to 2 restarts whose arguments may be stale | `ItemHeldOnce`, `QueueMatchesPipe`, `NoNullPop`, `CancelNamesRunningCall`, `ImplementsCallService` |
| `PoolLive` | 1 slot, 2 dispatchers, 2 calls, 2 items, a restart, Destroy at any time, pipe of 2 | `TypeOK`, `DrainedOnDestroy`, `CallsTaken`, `DestroyReturns` |
| `CenterElection` | 3 centers, center 1 does not list center 3, losses, crashes, 1 restart | `TypeOK`, `LeaderHasQuorum`, `VotesAreProposals`, `NeverLeading`, `InquiryAsksNobody` |
| `DispatchLoop` | 3 connections, one block of 2 items, any and serial clients | `TypeOK`, `ItemsAccounted`, `SerialHandedOnce`, `SerialHanded` |
| `Timers` | 2 workers, 2 keys of one client in 2 buckets, 2 connections | `ErasedOnce`, `DeletionPending`, `LostOnlyByReuse`, `DeletedForgotten` |
| `Wire` | messages of all 5 types with every combination of a few field values, bodies of 16, one short read | `SizeMatches`, `WholeReadsIntact`, `BoundaryNeverCompletes`, `OffBoundaryCompletes`, `OneFrameNeverWrong`, `NulFreeParsed` |
| `Channel` | 2 calls, 2 users, 2 descriptors, limits 1 and 2 | `NoResultConflict`, `AnswerOnce`, `OwnAnswer`, `AnswersReachable`, `CallsEnd` |
| `Server` | 1 connection, 3 registrars, 3 methods | `MethodsLive`, `ClosedOnce`, `ConnectionEnds` |
| `Center` | 2 connections to the center, main's beside them, 3 descriptors, a ring of 2 centers, 1 reinitialisation | `PingIndexInRange`, `RegistrationKept`, `ElectionDrains` |
| `DispatchAny` | 3 connections, two blocks | violates `HandedOnce` |
| `CenterElected` | 3 centers with 2 start times, no crash | violates `LeaderElected` |
| `ChannelAnswer` | as `Channel` | violates `AnswerIsOfCall` |

Why these bounds are enough to be interesting: two dispatchers on two slots let
every race on a queue, a pipe and the free list happen and round robin and the
fallback to slot 0 matter; two replacements let a replaced thread be named
again; a pipe of two bytes makes dispatchers and Destroy block, memory for two
items makes `malloc` fail. Three centers are the least with a majority smaller than the
whole, and a restart the least that makes a center propose twice. Two timers
with two keys in two buckets reach reuse of a key, a deletion between the two
locks and a deletion by the successor's key. Bodies of 16 bytes put messages of
the samples below, on and above one and two frames; the samples hold zero
numbers, zero enum values and empty strings, which are the 0 bytes of the
encoding. Numbers take one, two and five bytes. Two calls on two descriptors are what overlapping needs. Three
registrars let one search while the second has found an entry that the third replaces,
and the one connection's request holds a method meanwhile. Two connections, the one the
heartbeat's and the other any peer's, let the election thread close, and be answered
for, a number that has gone to the other. Deadlock is not checked because every one of these systems
rests when its callers have used up their calls.

What a few of the properties say beyond their name: `DrainedOnDestroy` promises
the calls for which a notification is in the pipe when `Destroy` begins (`Waiting`:
of a slot's queue as many as it has notifications, the oldest first), and only
when nothing is restarted. Both limits are the code's. `RQItemPush` and `write`
are two steps, so when one dispatcher stands between them, the byte of another
that pushed after it pays for the first one's item, and the second call, though
its `DispatchRpcCall` has returned, stays in the queue behind the `q` byte. And
`ev_break` of a `RestartThread` lets a thread leave its loop, and be joined,
with notifications unread. `LostOnlyByReuse` is the
strongest that holds of the timers, since a key used before does lose one.
`BoundaryNeverCompletes` states a limit of the protocol: a message of 511, 1022,
... bytes, and the empty message, is never completed by `RpcRecv`. `NulFreeParsed`
and `OneFrameNeverWrong` bound the harm of the cut at a 0 byte: messages with one
are refused, and in one frame never taken for another message; in particular a
proposal of a center in its first states, which has zero fields, never parses.
`RegistrationKept` is what an rpc server gets: while it pings, the center it
registered with has it, in its buffer. It needs that the answer to a
registration is sent on the connection that asked, or on one nobody waits on: the server thread accepts no connection
between reading a request and answering it, so its descriptor cannot have gone to
another peer, while an answer of the election thread may go to anyone and is of another
kind. `MethodsLive` ends with the destructor, which frees the methods
without a lock. `ErasedOnce` says that a timer makes at most one call of
`RestartWorkerThread`, not with which arguments.

Two passing properties state what the code does and not what it is for, and are
recorded as findings as well:

* `InquiryAsksNobody`. The README has every machine ask the others (step 3 of the
  election, "每台机器向其他机器询问信息"), and so do the comments at `rpc_center.h:107`
  and `rpc_center.cpp:403`; the `memset` at `rpc_center.cpp:147` clears the status that
  `InquiryCenters` looks for, so it asks nobody.
* `NeverLeading`. The README has the center return the registered rpc servers to the
  rpc client (lines 69-73). Only a leading center puts them where `GetRpcServer` looks
  (`rpc_center.cpp:640`); the others buffer them for a reporter thread to pass on.
  As none ever leads, the list that a client gets is empty.

The violations:

* `HandedOnce`. `ProcessCb` frees the item accepted first, whichever fired. That
  item is still watched; the next accepted connection gets it, and an event of
  the old connection passes on the new one. With serial clients the head of
  the list is the one that fired, which is why this is hardly seen in tests.
* `LeaderElected`. The local address is not in `other_centers_`, and votes are
  counted only for addresses found there, so no center counts votes for itself.
* `AnswerIsOfCall`. The threads of two asynchronous calls use the one member
  `connect_fd_`: after the second `CallMethod`, the first call's thread sends on or
  receives from the second connection. `OwnAnswer` is what remains: a call that
  was alone gets its own answer.

Other behaviour the models contain and no run singles out:

* A `RestartThread` whose `thread_id` was replaced before leaves `index` at 0 and
  gives slot 0 a second thread; `Destroy` joins only one of them, which is why
  `PoolLive` has one restart.
* `ev_break` comes before `pthread_cancel`; a thread between two calls may leave
  `ev_run` and destroy the loop that its replacement is about to run.
* A center counts proposals, not proposers: one that is started twice may
  end the election of another.
* Timers that have not expired are the ones that make a restart
  (`connection_timer_manager.cpp:195`); a second registration of a method may be lost
  (`rpc_server.cpp:126`). Both are findings.
* An item of the center's event loop may be freed while libev watches it.
* A walk over the hash ring may read `end()`; a client without servers divides by
  zero in `RandomGetRpcServerAddr`; a connect that times out is not tried again.

## Fairness

Pool: weak fairness of each dispatcher inside `DispatchRpcCall`, of each pool
thread, and of a `RestartThread` or `Destroy` that has begun. This is what the
kernel's scheduler gives, plus that the processor of a request returns or is
cancelled. Dispatch thread: weak fairness of `ev_run`, of a worker's read and of
the pool's `Start`. Nobody is obliged to dispatch, observe, restart or destroy. Election:
weak fairness of the start of each center and of its threads; connections
succeed or fail in the end since `TcpConnect` has a timeout. Nobody has to crash.
Timers: the timer thread runs on. Wire: the receiver goes on reading, and reads
a whole frame when one is there; nobody is obliged to send. Channel: the threads
of calls and users run on; a request that the server has read is answered or its
connection closed, and either reaches the client, unless the server has lost it
(`ServerSilent` then disables both, and `CallsEnd` leaves that call out). Server: a pool that is not being destroyed begins what it
accepted, as `CallsTaken` shows it does; once the destructor runs nothing makes it
begin a call, which may stand behind the `q` byte. Its threads run on. Center: the
election thread runs on; nothing is asked of the loop.

## Proofs

Every theorem is for all values of the constants that satisfy the module's
assumption, so for any number of threads, connections, calls, centers and
restarts; the bounds of the runs are constants like the others. Each proof is
that of an inductive invariant, which was first checked with TLC on the
instance of the run. Every safety property of the passing runs is proved.

### The pool

`LibevThreadPoolProofs`, from `PoolAssumption` (one slot at least, blocks of at
least two items, finitely many dispatchers):

* `TypeCorrect`: `TypeOK`. Not inductive by itself: `LocalsOK` adds that a
  thread that was created has a slot, that a thread or dispatcher at a point
  where it uses an item holds a real one, and that a `RestartThread` in progress
  has a thread left to create. `TInv` is the conjunction.
* `QueueMatchesPipeAlways`: for each slot, the length of the queue equals the
  `c` bytes in the pipe plus the dispatchers about to write one plus the threads
  that have just read one. Every step changes both sides alike (`QueueStep`), or
  leaves the sets alone (`QueueFrame`); it needs `TInv` for the arithmetic.
* `PopFindsItem`: `NoNullPop` follows, as the popping thread counts for one.
* `ItemsHeldOnce`: `ItemHeldOnce` counts places by position in a list, and
  positions shift. `PlaceInv` says the same without them: an item is on the free
  list, in one queue, with one dispatcher or with one thread, and in none of the
  others, and no list repeats an item. There is a lemma for each way an item
  moves (`TakePlace`, `AllocPlace`, `PushPlace`, `PopPlace`, `FreePlace`).
* `OnlyNamedCallCancelled`: the action property `CancelNamesRunningCall`.
  `RestartInv` follows what was noted: since then `running_version` of the slot
  has grown at least as much as the thread's own completed calls (`NotedInv`), so
  an unchanged version means no call was completed, and `version_mutex` keeps it
  so up to `pthread_cancel`. The hard case is the thread that is no longer in the
  table, for which `index` stays 0: `TableInv` says it is over, or serves slot 0.
* `PoolImplementsCallService`: the refinement. `CarriedInv` says that items in use
  carry different calls, none of which has an outcome, and that the calls being
  prepared are on no item yet; with `PlaceInv`, each step then changes the status of
  one call as `CallService` allows, or of none.
* `DestroyDrains`: `DrainedOnDestroy`. While nothing is restarted a slot has one
  thread, which stays in its loop until it has read the `q` byte and then only
  leaves (`OneThreadPerSlot`); `Destroy` writes to each slot once and has joined
  those before (`DestroyProgress`); each promised call is finished, running, or in
  the queue at a position no higher than the notifications ahead of the `q`
  byte (`Honoured`), which a pop lowers together.

### The election

`RpcCenterElectionProofs`, from `ElectionAssumption` (finitely many centers, any
centers files), with the inductive invariant `IInv`: types; no message is
addressed to its sender, carries UNKONW or is a LEADER_CONFIRM
(`MessagesForeign`); no entry is UNKONW; and the properties themselves.

* `ElectionTypeCorrect`, `NobodyEverLeads`, `InquiryNeverAsks`,
  `AdoptedLeaderHasVotes`: each is a conjunct of `IInv`. The argument for
  `NobodyEverLeads`: only the proposer of a message gets an entry, and a message
  comes from another center, so the own address never gets one; a vote for it is
  not counted; without it the center cannot be elected here.
* `VotesAlwaysProposals`: the votes for a center are as many as the different
  proposals counted for it. A proposal is named by its sender and the sender's
  start. `VoteInv` says that a queued or counted one was made (`MadeInv`), that
  what is being sent was made in the present start, one for each receiver
  (`OutInv`), and that a proposal is in the sender's broadcast, in the
  receiver's queue or counted there, in one of them and once (`OnceInv`).

### The server

`RpcServerProofs`, with `IInv` = `TypeInv`, `MapInv`, `CloseInv`:

* `MethodsStayLive`: what a registrar is about to insert is its own and not freed
  (`MadeApart`), and a thread that parses uses the present entry, since it holds
  the read lock (`HeldIsEntry`). What the unlocked search finds does not matter: the
  iterator is used under the lock, for the entry it points to by then, and a search that
  misses inserts only where there is no entry.
* `ConnectionsClosedOnce`: where a call stands, its status in the pool and how
  often its connection was closed go together (`CloseInv`).

`DispatchThreadProofs`, from `DispatchAssumption` (blocks of two items or more):

* `DispatchTypeCorrect`, `ItemsAlwaysAccounted`: `ItemInv`, in which no item is
  linked twice (`LinkedOnce`) and what the loop refers to has a descriptor
  (`Watched`).
* `SerialAlwaysHandedOnce`: `SerialInv`. With serial clients the list in use is
  the open connections not yet passed on, each with its one watcher, and only
  the first may have sent a request, so the watcher that fires is the one
  `PopEIO` takes.

`ConnectionTimersProofs`, from `TimerAssumption` (finitely many workers):

* `TimersErasedOnce`, `DeletionsStayPending`, `TimersLostOnlyByReuse`: `IInv`, in
  which there are as many buffers as workers that made one (`BufferInv`), a timer is
  under its key in its buffer or in the wheel but not in both (`Placed`), a key is
  used again only after its timer was deleted (`ReuseAfterDelete`), and a listed
  deletion is of a deleted timer (`DeletionsKnown`).

### Messages, client and center

`CenterWireProofs`, from `FramingAssumption` (bodies of two bytes or more) and
`SamplesAssumption`: what a message is filled with are calls of the accessors of
its type, with numbers below 2^32, strings, the four bytes of a float, and, for
nested messages, bytes that parse. The messages are otherwise free: any type, any
number of calls, any length. Of the frames the theorems are about every payload in
`Seq(Nat)`, message or not.

* `WholeReadsAlwaysIntact`, `BoundaryNeverEverCompletes`: `FrameInv`. The stream
  holds frames `r` to `block - 1` one after the other, and what was received is
  the first `r * Chunk` bytes (`StreamAt`); a datagram in flight is one of the
  frames. The lemmas are arithmetic on frames and positions.
* `EveryMessageParsed`: what is written of a message is parsed to it, and refused
  when it is cut at any of its 0 bytes (`ParseIs`, from `RoundTrip`). A 0 is never
  the first byte of a field, since tags are 8 or more, so such a cut leaves part
  of a field behind its tag, and `Parsed` refuses a field without its end
  (`ParsedCut`).
* `SizeAlwaysMatches`: `SizeIs`, by the same inductions, with `VarintLen`.
* `OneFrameNeverEverWrong`, `NulFreeAlwaysParsed`: `WireInv` puts the two together:
  `FrameInv`; the bytes sent are the message's; the message is one that calls can
  make (`GoodMessage`, kept by every accessor, `SetGood`); once parsed, the result is
  that of parsing what was received. `DoneInv` says what that is: the message, or
  for a message of one frame its bytes up to the first 0.

The operators of `CenterMessages` are recursive functions over numbers, byte
sequences and fields. A theorem with an operator as a parameter cannot be applied
in this prover, so the induction theorems of the library are out of reach; two
lemmas with sets and functions in their place do their work. `MeasureInduction`: a
set that holds an element whenever it holds all of smaller measure holds them all
(from the library's `WFMin` for `<` on `Nat`). `Recursion`: a definition `f[x] =
F[x][f]` that uses `f` only on arguments of smaller measure has a solution. From it
follow `VarintDef`, `VarintValueDef`, `FlattenRuns`, `TotalRuns`, `ParsedDef` and
`FilledGood`: the `CHOOSE` behind each recursive function does satisfy its equation.
`RoundTrip` is then an induction on the fields from the last to the first, over
`ReadsItems`, an induction on the values of a field.

`RpcChannelProofs`, from `ChannelAssumption` (there is a method), in layers: types
and what a call has when (`CallInv`), the lists (`UserInv`, `ListInv`), and

* `ResultsNeverConflict`: an id whose answer is unfetched is still in use, and
  the kernel gives out only free ids (`IdInv`).
* `AnswersReturnedOnce`: an answer is in flight, with one call, in the map under
  one id, or returned once (`TokenInv`). The map is searched and erased from under a
  write lock, so this holds also after a race, whatever ids the list gives then.
* The next two are about users that have not raced: their invariant is `~raced =>
  ListInv /\ KeptInv /\ OwnInv` (`OwnAlways`), since a race is never undone (`RacedForever`).
* `AnswersStayReachable`: without races a call is about to be listed, listed or
  taken by a user, in one of these, and has an id of its own until its answer is
  fetched (`KeptInv`).
* `OwnAnswerReturned`: a call that met no other uses its own connection and stores
  its own answer (`OwnInv`, on top of all the others).

`CenterServiceProofs`, from `ServiceAssumption` (a ring that is not empty):

* `PingIndexAlwaysInRange`: the list of centers to ping only grows (`PingInv`).
* `RegistrationAlwaysKept`: the heartbeat that waits has a connection with its own
  request on it, or that was read (`WaitInv`); while the server thread answers, its
  descriptor stands for what it read from, nothing, or main's broadcast
  (`AnswerInv`), since only its own `AcceptCb` gives numbers to peers; and from the
  moment the answer to the registration is prepared the center has the server
  (`RecordInv`). No assumption is made on which watched number is called back when.

### Only model-checked

The properties that need fairness (`CallsTaken`, `DestroyReturns`, `SerialHanded`,
`DeletedForgotten`, `OffBoundaryCompletes`, `CallsEnd`, `ConnectionEnds`,
`ElectionDrains`) are beyond the prover; the three violated ones do not hold.

## Not modelled

* The configuration parser: vendored, sequential, read once at start.
* Of the generated protocol buffers: descriptors, reflection, registration, `Swap`.
* What freed memory holds: the arguments read from an erased timer, a list popped by
  two users at once. The models take any value or the process's end where it can
  matter to them.
* The controllers (flags of one call) and the hash functions (strings; only the
  order of hash values matters here).
* `RpcReader` and `RpcWriter`, the leader and reporter threads,
  `HeartBeatProcessor`, `rpc_heartbeat_client`: the models and theorems above show
  that they are not reached, or run over a list that is always empty.
* `CenterProcessor`'s older copies `ProcessCenterRequest`, `ProcessClientRequest` and
  `ProcessClusterRequest`, which nothing calls.
* The samples, the tests, sockets and signals beyond their use above.
