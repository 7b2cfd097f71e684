# A TLA+ model of the MMORPG server

The program is a C++17 game server for Windows: a static library, `ServerCore`
(I/O completion ports, sessions, a job queue per room, a spin lock, an
allocator), the `GameServer` built on it, and a `DummyClient` that loads it.
`main` (GameServer.cpp) starts five workers and joins them itself; every worker
repeats three things for ever: dispatch one I/O completion, distribute the
timers that are due, and execute the job queues that other threads left in the
global queue, all within a slice of 64 ms.

This directory holds TLA+ modules for the parts of `ServerCore` that everything
else relies on, TLC configurations that check them on small instances, and
proofs, checked by TLAPS, that their safety properties hold for every instance.

## Inventory

| Component | State | Operations | Who calls it, and what is hard |
|---|---|---|---|
| **JobQueue**, GlobalQueue, LockQueue, Job | `m_jobs`, `m_jobCount`; `GGlobalQueue`; `LCurrentJobQueue`, `LEndTickCount` per thread | `Push` (`DoAsync`), `Execute`; `DoGlobalQueueWork` | Packet handlers, jobs and timers push; any thread may become the executor. Counter and queue change in two steps, queues are handed from thread to thread. |
| **Lock** | `m_lockFlag` (writer id and read count in one word), `m_writeCount` | `WriteLock`, `WriteUnlock`, `ReadLock`, `ReadUnlock` through guards | Every `WRITE_LOCK`. Re-entrant, spinning, with a timeout that kills the process. |
| **RecvBuffer** | two cursors, ten buffers in a row | `OnWrite`, `OnRead`, `Clean` | Session. Compaction at the end of the buffer. |
| **Session, receiving**; PacketSession | `m_recvBuffer`, `m_recvEvent`, `m_connected` | `RegisterRecv`, `ProcessRecv`, `OnRecv` | Completions. Packets arrive in arbitrary pieces. |
| **Session, sending** | `m_sendQueue`, `m_sendRegistered`, `m_sendEvent` | `Send`, `RegisterSend`, `ProcessSend` | Any thread sends; one event is reused for all sends, guarded by a flag; failures. |
| **Memory**, MemoryPool | `m_poolTable`; per pool an SList and two counters; `allocSize` in front of every block | `Allocate`, `Release`, `Pop`, `Push` | Every container and `MakeShared`, on every thread; blocks are released by others than those who allocated them. |
| **Session life cycle** | `m_connected`, connect and disconnect events, `m_owner` of every event | `Connect`, `Disconnect`, `ProcessConnect`, `ProcessDisconnect` | Listener, Service, completions. References are taken and dropped by hand, every call to the system may fail at once or later. |
| **Service, Listener, IocpCore** | the set of sessions, accept events, the completion port | `AddSession`, `ReleaseSession`, `Broadcast`, `RegisterAccept`, `ProcessAccept`, `Dispatch` | Workers. Completions of one session are dispatched by several workers at a time. |
| ThreadManager, worker loop | thread ids, time slices | `Launch`, `Join`, `DoWorkerJob` | `main`. |
| **JobTimer** | a priority queue, `m_distributing` | `Reserve`, `Distribute`, `Clear` | Workers; pushes jobs, which may run inside the push and reserve others. |
| **SendBuffer** | a chunk per thread, the chunks that are free | `Open`, `Close`, `Pop`, `Push` | Packet handlers; chunks come back from any thread. |
| **DeadLockProfiler** | lock stack per thread, lock graph, the arrays of its search | `PushLock`, `PopLock`, `CheckCycle`, `Dfs` | `Lock`, in debug builds, before every lock and unlock. |
| **ObjectPool**, Allocator | a MemoryPool per type | `Pop`, `Push`, `MakeShared` | Jobs. An object must return to the pool of its type, though `Memory` has blocks of its size. |
| **GameSession, Room, handlers** | players of sessions and rooms, `m_currentPlayer`, `m_room` | log in, enter, chat, leave | completions and jobs of the room; a disconnect overlaps a handler |
| **DummyClient** | none but its session | log in on connect, enter on S_LOGIN, chat from `main` | workers and `main`; may chat before it is logged in |
| Lock-free stack and queue | | | instantiated nowhere |
| Utilities, studies, PacketGenerator, protobuf | | | no state of interest |

How they interact: a completion runs `Session::ProcessRecv`, which runs a packet
handler, which pushes a job into a `Room` (a JobQueue); the job runs on that or
another worker and calls `Session::Send` of other sessions. All of them take
`Lock`s and memory from `Memory`.

What makes each correct, in words:

- JobQueue: a room's members run on one thread at a time, in the order of the
  pushes, each job exactly once; none is forgotten.
- Lock: a writer excludes everybody else, re-entry works, the unlock checks
  never fire for legal nesting, the spinners never block each other for good.
- Receiving: packets are cut out of the stream exactly, and there always is room
  to receive.
- Sending: one user of the send event at a time, messages in order, none left
  behind on a connected session.
- Memory: a block has one owner, is large enough, returns to its own pool.
- Life cycle: what the system works on is kept alive and nothing else is, a session
  disconnects and is released once, an event is never reused while it is
  outstanding, connected sessions receive, and the server keeps accepting.
- SendBuffer: buffers never overlap, a chunk comes back once, after its last buffer, and
  opening a buffer fails for nothing but a packet that is longer than a chunk.
- JobTimer: a timer's job is pushed once, in the order of the ticks, and fires.
- Rooms: members see the same chats in the same order; who is gone leaves nothing;
  players are there when a handler uses them, up to its last line (see Findings).
- Client and server: a client that stays connected gets into the room, unless a call of
  one of both sides was refused without disconnecting it.
- DeadLockProfiler: it reports a cycle of the lock graph exactly if there is one, before
  any thread waits for good, and crashes the process for nothing but such a cycle, be it
  a deadlock or not.

## The modules

| Module | Models | Code |
|---|---|---|
| `SerialQueue` | the promise of a JobQueue: a single-threaded server per queue | |
| `JobQueue` | Push, Execute, GlobalQueue, DoGlobalQueueWork | JobQueue.cpp, LockQueue.h, GlobalQueue.cpp, ThreadManager.cpp |
| `ReentrantLock` | the promise of Lock: stacks of guards | Lock.h:14-19 |
| `Lock` | the spin lock, one action per atomic access | Lock.cpp |
| `RecvBuffer` | the cursors and bytes of the receive buffer | RecvBuffer.cpp |
| `PacketRecv` (extends `RecvBuffer`) | the receiving half of a PacketSession | Session.cpp |
| `SendQueue` | the promise of a Session's sending half: a line of messages, one batch in flight | |
| `SessionSend` | the sending half of a Session | Session.cpp |
| `Memory` | the pool table, Allocate and Release, pools of types | Memory.cpp, MemoryPool.cpp, ObjectPool.h |
| `SendBuffers` | Open, Close, and the return of chunks | SendBuffer.cpp |
| `JobTimer` (over `SerialQueue`) | Reserve, Distribute, the loop that calls it | JobTimer.cpp, ThreadManager.cpp |
| `SessionLife` | connecting, disconnecting and references of sessions, accept events, the Service | Session.cpp, Listener.cpp, Service.cpp, IocpCore.cpp |
| `GameRoom` (over `SerialQueue`) | handlers, OnDisconnected, Room | ClientPacketHandler.cpp, GameSession.cpp, Room.cpp |
| `DummyClient` (extends `GameRoom`) | the clients, and the packets between both sides | DummyClient.cpp, ServerPacketHandler.cpp |
| `DeadLockProfiler` | the lock graph and its search, beside the locks | DeadLockProfiler.cpp |
| `MC...` | symmetry and streams for TLC | |
| `JobQueue_proof`, `Lock_proof`, `PacketRecv_JobTimer_proof`, `SessionSend_proof`, `SessionLife_proof`, `Memory_proof`, `SendBuffers_GameRoom_proof`, `DeadLockProfiler_proof` | theorems and proofs | |

In every module a comment that begins with "Mutant" introduces a definition with
a deliberate mistake. It is used by no specification; put in the place of the
definition it names, it makes TLC find one of the properties violated, which
shows that the property depends on that line of the code.

### JobQueue

Each thread has at most one frame of `Push` and one of `Execute`; `push[t]` and
`exec[t]` hold their local variables and how far they are. `PushCount` is the
`fetch_add`, the three actions that use `PutItem` are `m_jobs.Push` with the
branch that follows it (`PushJoin`, `PushExecute`, `PushDefer`), and `PushGlobal`
is the last call. `ExecPopAll`, `JobStart`, `JobEnd`, `ExecFinish` or
`ExecRemain`, `ExecAgain` or `ExecTimeout`, and `ExecHandoff` are the loop of
`Execute`. A job is opaque but for its pushes, which happen between `JobStart`
and `JobEnd`. Time is nondeterministic: after every batch the slice may or may
not be over. `LockQueue`'s operations are single steps, which is what `Lock`
promises (`ReentrantLock`) and its proof shows. No caller passes `_pushOnly`; both
values are allowed here. `m_jobCount` has no initializer, but queues are created
by `MakeShared<Room>`, whose `Type()` zeroes a class without a constructor.
`pushed` and `done` are history variables. Each job is pushed once.

### Lock

`lockFlag` is a record of the two halves of the word. A `WriteLock` is entered
(`WriteLockAgain` for the owner, `WriteLockEnter` for others), spins, and after
`WriteLockCas` still has to count its guard (`WriteLockCount`), because
`m_writeCount` is changed after the exchange. A failed exchange of a writer
changes nothing and is no action. A reader loads the read count and exchanges in
two steps; a failure makes it load again. `LockTimeout` may happen to every
spinner at any time and ends the process, as `CRASH` does. `held[t]` is the
stack of guards; guards are destroyed newest first. A thread that holds a read
guard does not ask for a write guard: Lock.h:19 forbids it. Thread ids are at
most six here and never wrap in 16 bits.

### RecvBuffer and PacketRecv

A byte is its offset in the peer's stream, so that "the right bytes" can be said;
`sizeAt` tells for each offset the size a header read there would have. All
bytes of `1..recvLen` may arrive at once. `RecvBytes` is `ProcessRecv` up to
`OnRecv`, `ParsePacket` one round of `OnRecv`'s loop, and `ParseStop` the rest
of `ProcessRecv` with `OnRead`, `Clean` and `RegisterRecv`. `WSARecv` may fail;
after a failure the session receives no more, disconnected or not (HandleError
disconnects for two errors only). The peer follows the protocol: a packet is at
least a header and shorter than `BUFFER_SIZE` (65535 at most, 16 bits). Packets
that a peer outside of the protocol would send are not modelled.

### SessionSend

`pc[t]` says where a thread is in `Send` or `ProcessSend`; `RegisterSend` is
common to both. `lock` is the session's lock where a thread keeps it from one
step to the next, which only `ProcessSend` does; the block in `Send` and the
drain of `m_sendQueue` are single steps. `Post` is a WSASend that was accepted,
`PostFail` one that failed at once, with an error that disconnects or another
one. `Complete` is a worker taking the completion from the port. `wire` and `lost` are
the messages that a WSASend accepted and those that a failed one had.

`SendQueue` is what all this amounts to for the outside: the messages wait in a line, a
batch from its front goes to the system while it has no other, stays alive until its
completion was dispatched, and only a batch that the system refuses is lost. The
refinement maps `queue` to what has been drained but not posted, followed by
`m_sendQueue`, and `inFlight` to `m_sendBuffers` while the system has the event.

### Memory

`PoolSizes` follows the three loops of the constructor, each going on with the
size at which the last one stopped, and `poolTable` is the table they fill. A
`MemoryHeader` is the block's `allocSize`; whether the word at its place is 0
when `Pop` looks is what the assertion is about. The SList operations are atomic,
as the operating system promises; the counters change in later steps. The
operating system always has a block (a thread asks only while the bound `Blocks`
allows one). A type with an `ObjectPool` is a pool more, which only `ObjectPop` and
`ObjectPush` use; its blocks carry the same header, which nothing reads on their way
back.

### SendBuffers

`owner[b]` is the chunk a live SendBuffer keeps alive, `start` and `size` the bytes
it may use. A thread goes through `SendBufferManager::Open` step by step (`pc`): `Open`
with the bytes of its packet, at most `MaxPacket`, which may be more than a chunk;
`PopFree` or `PopNew` and `Reset` for its first chunk; `Check`, the assertion that the
chunk is closed and the look at what is left of it; perhaps a pop and a reset again; then
`SendBufferChunk::Open`, `ChunkOpenFails` or `ChunkOpen`. `Replace` puts the chunk that was
popped into `LSendBufferChunk`, whose old chunk may lose its last reference there. `Close`
has the assertions of SendBuffer.cpp:19 and 57. `failed` says what ended the process: a
packet longer than a chunk (SendBuffer.cpp:44), another assertion, or the nullptr that
`MakeSendBuffer` would write to. `Drop` is the end of a SendBuffer on any thread. A deleter
runs on the thread that dropped the reference (`giving[t]`) and ends with `PushGlobal`. A
handler opens, fills and closes a buffer before it opens another, and never closes more
than it opened (ClientPacketHandler.h:55-69).

### JobTimer

`Reserve` computes the tick and `ReservePush` inserts under the lock. `ReadClock` is
`DistributeReservedJobs` reading the clock, `DistributeBusy` and `DistributeEnter` the
exchange, `Drain` the locked loop that takes what is due, `DistributePush` and
`DistributeDrop` one round of the second loop, the weak owner still there or not,
and `DistributeLeave` the last store. `Push` gives the job to a serial server, which
is what `JobQueue` is shown to implement; a job may reserve another one while
its thread is in `Distribute`. Equal ticks come out in any order. The history
variable `met` holds the pairs of jobs that waited in `m_items` together, which are
those whose order `Distribute` decides.

### SessionLife

A session is in memory as long as somebody refers to it: `owned[s]` (the events
whose `m_owner` is set), `sessions` (the Service), `manager` (GameSessionManager),
`acceptSession`, `unstarted` (a client's sessions that `Start` has not come to) and
`hold[t]` (local variables). `todo[t]` is the stack of calls of a thread, as the list
of the steps it still has to make; every step is one action and `Then` puts the
steps of the calls it makes in front. `Complete` and `CompleteAccept` are the system
finishing an operation, well or not: IocpCore.cpp:64-68 dispatches failed ones, too,
so that a failed ConnectEx connects the session and its first receive ends it. `Take`
is a worker taking a completion, with `IocpObjectRef` on its stack; the first
thing every handler does is to drop `m_owner`. `PostRecv`, `PostSend` and
`RegisterDisconnect` may fail at once, with an error that `HandleError` answers with
`Disconnect` or another one; so may a `Connect`, on which `Start` returns false and
`DummyClient`'s assertion ends the process (`ConnectFail`). `main` launches the workers
when `Start` has returned. `StartSend` is a send by the application to a session
it knows, `Broadcast` the Service's own, which only `DummyClient` uses and whose
loop holds the lock and no reference. The Service is a server or a client from the
start; `m_sendQueue` is left to `SessionSend`, so `ProcessSend` finds it empty or not.
`deaf` and `stranded` remember the sessions whose WSARecv failed with no Disconnect
and whose DisconnectEx failed: the code gives these up. A memory block is used for a
new session only when the old one is gone, and `RegisterAccept` waits for one: sockets
never run out. With two sessions `RegisterAccept` can retry once.

### GameRoom and DummyClient

`Login`, `EnterGame` to `EnterSend`, and `Chat` are the handlers, run one after the
other per session (`stage`), `OnDisconnected`, `ResetPlayer` and `ClearPlayers` are
`GameSession::OnDisconnected` (`hook`), on another worker. The room's JobQueue is
`SerialQueue`, submitted to by `DoAsync`; `Broadcast` is a job that sends to one member
after the other. A session disconnects because its receive ends (`RecvZero`) or
because a send to it fails (`SendFails`). A call may also be refused with an error that
`HandleError` only logs, and then it stays connected: a WSASend loses its batch
(`SendRefused`, which matters for S_LOGIN alone, since no client waits for a later
packet), a WSARecv leaves the session deaf (`RecvRefused`). The access of a player that is
not there sets `fault`.

What the clients send is not assumed: `DummyClient` models them. `toServer[s]` are the
packets on their way to a session, `inbox[s]` those given to its `Send`. `OnConnected`
sends C_LOGIN, `Handle_S_LOGIN` answers with C_ENTER_GAME for the first player, and
`BroadcastChat` is `main`, which may chat before either, since AddSession comes before
OnConnected. A client does nothing with what follows S_LOGIN, so that these packets
count as under way for good, and a send that fails loses what is under way. Calls are
refused at this end, too: `ClientSendRefused` loses any packets that follow each other on
their way to the session, `ClientRecvRefused` keeps S_LOGIN from arriving. `lost` are the
sessions whose S_LOGIN never arrives, `refused[s]` counts the refusals of both ends. The
clients keep running; their connection may go at any time.

### DeadLockProfiler

A lock is known by the name of the class it is in, `typeid(this).name()`: two sessions
share a name, and `NameOf` says who shares. `PushLock` and `PushLockNew` are the
function without and with an edge that is new. In the second case the thread keeps
`m_lock` and searches (`pc[t] = "check"`). `frames` are the calls of `Dfs`, each with the
edges it has yet to try, in ascending order; `CheckRoot` and `CheckNext` are the loop of
`CheckCycle`, `DfsVisit`, `DfsSkip`, `DfsBack` and `DfsReturn` the branches of `Dfs`, and
`DfsReport` a round of the loop that prints the cycle. Only then the lock is waited for
(`Acquire`), which takes what `Lock` is shown to implement, and `PopLock` precedes every
`Unlock`. Ids count from 1 instead of 0. The guards are write guards, the only ones the
program uses; `Guards` may have others.

## What is checked

| Run | Instance | Shows |
|---|---|---|
| `JobQueue` | 3 threads, 2 queues, 3 jobs | mutual exclusion, responsibility, order; every job runs; `JobQueue` implements `SerialQueue` |
| `Lock` | 3 threads, 3 guards each | exclusion, no false CRASH; `Lock` implements `ReentrantLock`; the spinners never stop each other for good |
| `PacketRecv` | 3 buffers of 4 bytes, header 2, stream of 18 bytes | packets are cut right and delivered, there is room, `memcpy` does not overlap |
| `SessionSend` | 3 threads, 4 messages, both kinds of error | one user of the event; implements `SendQueue`; what is queued is sent if no WSASend fails |
| `SessionSendStuck` | 2 threads, 3 messages, errors that do not disconnect | a violation, see Findings |
| `Memory` | 3 threads, 4 blocks, five sizes, a type with a pool | blocks fit, have one owner, come home; counters settle |
| `MemoryTable` | 1 thread, 1 block, 4064 bytes | a violation, see Findings |
| `SendBuffers` | 2 threads, 3 chunks of 3 bytes, 3 buffers, packets of 1 to 4 bytes | buffers are disjoint, a chunk is in one place, only a packet longer than a chunk fails |
| `JobTimer` | 2 workers, 2 queues, 2 timers, 2 ticks | pushed once, in order, and at last |
| `SessionLife` | 3 threads, 2 sessions, 1 accept event; server and client | references, single release, accepting, receiving, no leak |
| `GameRoom` | server and 2 clients, 2 chats, 1 refused call | order of chats, own chats, leaving, players are there up to the handler's last line; who stays gets in if no call was refused |
| `DeadLockProfiler` | 2 threads, 4 locks of 3 classes, 2 guards each | the search is right and ends; no deadlock between classes is silent; only a cycle crashes |

The largest instance is `GameRoom` (2.5 million states, about three minutes). `SessionLife`
(1.2 million) and `DeadLockProfiler` (0.7 million) take about a minute each.

Why the bounds are enough. JobQueue: a hand-off takes three parties (who gives,
who takes, who pushes meanwhile), a nested push takes two queues, and three jobs
refill a queue while a batch is out. Lock: two readers and a writer, and three
guards give every legal nesting and re-entry (W-W-R, R-R-R). PacketRecv: three
buffers is the least for which `Clean` is correct, 18 bytes come to the end of the
buffer and half around it again, and packets of 2 and 3 bytes in buffers of 4 end at
every position. SessionSend: a message of its own for the sender whose WSASend fails,
for the one that slips in behind it, and for two that follow. Memory: two sizes of
one pool, one of another, one above `MAX_ALLOC_SIZE`, and the largest that should be
pooled; four blocks put two on a list while two are in threads' hands. SendBuffers:
a chunk per thread and one that is handed back and reused, packets of one and two
bytes that fill a chunk exactly, one that needs a new chunk, and one, of four bytes, that
no chunk is long enough for. JobTimer: two
workers in `Distribute`, timers of one and of two queues, due at the same and at
different ticks, one reserved by the other's job. SessionLife: three
threads are a receive, a send and a disconnect of one session at the same time; the
second session takes the place of the first in its accept event or its memory.
GameRoom: a chat of one client reaches another in every phase of its session; two
chats are one of each client, or two of one, in both orders; a call of one client or its
session is refused, while the other client waits for nothing of it. DeadLockProfiler: three
names make cycles of two and of three, two threads with two guards the circles in
which they wait, and two locks of one name what the profiler cannot tell apart.
The constant bounds (`MaxDepth` of both modules, `MaxStream`, `Blocks`, `MaxTick`, `MaxChats`, `MaxRefused`, and the
sets of jobs, messages, buffers and sessions) limit how often things happen, never
what may happen next to what.

Deadlock is checked for `JobTimer`, whose workers never stop. It is not for the
others: each may come to rest when the jobs, messages or bytes of the instance are
used up, the sessions are closed or the process crashed.

## Fairness

- `JobQueue`: a thread inside `Push` or `Execute` goes on (`WF` of both), and each
  worker takes a queue from the global queue if there always is one. The code
  justifies the latter as far as a worker comes back to `DoGlobalQueueWork` with time
  left in its slice; a worker whose I/O always takes 64 ms would not.
- `Lock`: a thread inside the lock goes on, and a guard's scope ends. Nothing is
  assumed of timeouts, nor that a spinning thread ever succeeds.
- `PacketRecv`: the thread that dispatched a receive goes on. Nothing makes the
  peer send.
- `JobTimer`: time passes, workers go round their loop, and a queue with work is
  served, which is what `EveryJobRuns` shows of `JobQueue`.
- `SessionSend`: threads inside `Send` and `ProcessSend` go on and some worker
  dispatches every completion. Nothing makes a WSASend succeed, or the session
  disconnect.

- `GameRoom`: as long as a handler, a job of the room or a client can go on, one of
  them does (`Progress`). Workers never stop on either side, and that jobs run is
  `EveryJobRuns` of `JobQueue`. Nobody has to chat or to drop off, and no call has to be
  refused. Nor is it assumed that none is: `EveryClientEnters` excepts the clients one of
  whose calls, or whose session's, was refused without disconnecting it. There the packet
  is lost, or the session reads no more, and neither side ever notices (Session.cpp:148-156,
  204-210, 299-307). A message that waits in `m_sendQueue` with nobody to send it
  (`SessionSendStuck`) takes a refused call, too, so that what `Send` is given may be taken
  to be under way otherwise: that is `QueuedIsSentUnlessFailed` of `SessionSend`.
- `DeadLockProfiler`: the thread that searches goes on. Nothing is assumed of threads
  that wait for locks.

`SessionLife` has no liveness property: `NothingLeaks` says what must hold whenever
nothing more is under way, whatever is scheduled. `Memory` and `SendBuffers` promise
nothing that takes time.

## What is proved

For any finite set of threads, any clients, queues, jobs, delays, messages, sessions, accept events, locks
and classes, any depth of nesting, any sizes of buffers, headers, packets, chunks and
requests (`BUFFER_COUNT >= 3`), any finite memory:

| Module | Theorems |
|---|---|
| `JobQueue_proof` | `TypeCorrectness`; `MutualExclusion` (`SingleExecutor`); `OneHolderWhileWork` (`OneHolder`, `HolderIffWork`); `CounterExactness`; `JobsInOrder` (`RunInPushOrder`); `Refinement` (`ImplementsSerialQueue`): `JobQueue` implements `SerialQueue` |
| `Lock_proof` | `TypeCorrectness`; `WritersExclude` (`Exclusion`); `CountersCorrect` (`CountsGuards`); `UnlocksNeverCrash` (`NoInvalidUnlock`); `Refinement`: `Lock` implements `ReentrantLock` |
| `PacketRecv_JobTimer_proof` | `TypeCorrectness`; `PacketsCorrect` (`BufferHoldsStream`, `CutsAtPackets`); `NeverFull` (`NoOverflow`, `RoomToReceive`); `CopiesDisjoint`; `TimerTypes`; `TimersOnce` (`EachOnce`); `TimersInOrder` (`RunInOrder`); `TimersAreNew` |
| `SessionSend_proof` | `TypeCorrectness`; `EventHasOneUser` (`OneUser`); `Refinement` (`ImplementsSendQueue`): `SessionSend` implements `SendQueue` |
| `SessionLife_proof` | `TypeCorrectness`; `SessionsLive` (`KeptAlive`); `EventsHaveOneUser` (`NoFailure`); `AcceptingGoesOn` (`AcceptsKept`); `ConnectedAreServed` (`ConnectedIsServed`); `SessionsEnd` (`NothingLeaks`) |
| `Memory_proof` | `TypeCorrectness`; `BlocksFitRequest` (`BlocksFit`); `BlocksNeverShared` (`NeverShared`); `BlocksHome` (`BlocksComeHome`); `CountersAgree` (`CountersSettle`); `TableExact`; `OnlyTheHole` |
| `SendBuffers_GameRoom_proof` | `TypeCorrectness`; `BuffersDisjoint` (`Disjoint`); `OnlyTooLong` (`OnlyTooLongFails`); `ChunkHasOnePlace` (`OnePlace`); `GameTypes`; `ChatsInOrder` (`RoomOrder`); `OwnChatsSeen` (`SeesOwnChats`); `SessionsLeave` (`LeavesForGood`); `PlayersAreThere` (`PlayersThere`); `RoomJobsAreNew` |
| `DeadLockProfiler_proof` | `TypeCorrectness`; `CyclesReported` (`ReportsCycles`); `CrashesOnlyForCycles` (`NoFalseCrash`); `DeadlocksReported` (`NoSilentDeadlock`) |

The safety theorems are `Spec => []...`, from an inductive invariant with
`Init => IInv` and `IInv /\ [Next]_vars => IInv'`; the refinements map every initial state
and, under such an invariant, every step to a step or a stutter of the abstract
specification. Each invariant was checked by TLC on the instance of the run before it was
proved.

The assumptions are the named `ASSUME`s of the modules: where something is counted its
set is finite (threads, memory blocks); `None` and `NoPlayer` are none of the values they stand beside;
the bounds are natural numbers; a buffer, a chunk and a header have at least one byte;
packets are at least a header and less than a buffer; the delays of timers are natural
numbers; a type with an `ObjectPool` is not
a number, as the other pools are; each lock has one class. TLC evaluates them in every run.

The arguments:

- **JobQueue.** Mutual exclusion is not inductive: a second executor is kept out only
  because nobody else is responsible for the queue. The invariant says that
  responsibility (a pusher that saw 0, an entry of the global queue, an executor) is
  held at most once and exactly while the counter is not 0. For that an executor that
  subtracts its batch must know what the counter means, so `CountExact` is part of it,
  and the well-formedness of the frames. The order of the jobs follows from looking at a
  queue as one line, what its executor has taken followed by `m_jobs`: a step leaves
  the line alone, joins it at the end, or begins or ends the job at its front
  (`OrderInv`). The refinement maps `SerialQueue`'s line to this one.
- **Lock.** The counters must count guards, so the invariant ties both halves of the
  flag to the stacks of guards, says which threads are between two accesses and that
  no write guard lies over a read guard; then an empty flag means that nobody holds
  anything.
- **PacketRecv.** `NextAt` ties the parser's position to the stream and the cursors:
  what is left after the loop is less than one packet, hence less than one buffer,
  hence `Clean` leaves room for one and moves the data from beyond the second buffer to
  the first.
- **JobTimer.** Between the exchange of `m_distributing` and its release there is one
  thread, and only it has items in its local list (`TurnOK`). A job that was reserved is
  in one place: in `m_items`, in that list, pushed, or expired with its queue
  (`PlacesOK`); a job that was pushed is in the line of its owner (`LinesOK`). Of two jobs
  that met in `m_items` the earlier one is drained first or with the other: while the
  later one is in the local list the earlier one is ahead of it there or has been pushed
  (`BatchesOK`), and when both are pushed it is ahead in the line of the queue
  (`AheadOK`). `TimersAreNew` says that the guard by which a queue takes each job once
  holds no push back. The proofs stand beside those of `PacketRecv`; the two modules
  share no variable.
- **SessionSend.** That the event has one user is stated without counting: of two
  threads at it, or a thread and a send in flight, there is only one (`Alone`), and
  nobody is at it while `m_sendRegistered` is false. The refinement also needs that the
  event holds no buffers but those its user drained (`BuffersHeld`), that whoever is
  about to drain finds a message (`WorkThere`), and that a message inside `Send` was not
  sent before nor by another thread (`Unsent`).
- **SessionLife.** The stack of calls of a thread can be treated as the set of its tasks,
  because a call makes only calls of its own layer or of an inner one (`Layer`,
  `StacksOK`): of each layer a thread is in one call at most. What the invariant says is
  who may be where in the life of a session: until it is connected nobody is at it
  (`UnbornOK`); from ProcessConnect until others can find it in the Service or the manager
  one thread is (`YoungOK`); m_recvEvent and m_sendEvent have one user each (`ReceivingOK`,
  `SendingOK`); the exchange of `m_connected` picks one thread to disconnect it, whose
  right passes to the event and from there to the worker that releases it (`EndingOK`), and
  until then it is in the Service (`ServiceOK`). A thread at a session holds a reference to
  it or the lock under which the Service keeps its own (`ThreadOK`), and an event owns the
  session exactly while it is in use or its failed call has yet to let go (`OwnedOK`).
- **Memory.** That a block is in one place is stated without `Cardinality`: a list has no
  block twice, and a block on a list, in use or in a thread's hands is in none of the
  others (`PlacesOK`). Lists of different pools stay apart because a block knows where it
  comes from (`HomeOK`): its header leads `Release` back to the pool that `Allocate` took it
  from. The counters are exact up to the threads that are between an SList operation and
  the counter that goes with it (`CountsOK`): `useCount` is the blocks in use and the
  threads about to subtract theirs, `reservedCount` the length of the list corrected by those
  that have pushed or popped and not counted. The table is exact: the sizes up to 3872 have
  the shortest pool that is long enough, because the CHOOSE over a set of naturals picks
  its least element, and the others have none (`TableExact`).
- **SendBuffers.** A chunk is a thread's current one, on its way back, or free, and nothing
  of the others (`PlacesOK`); it is on its way back when its last buffer is gone, once
  (`ReturnedOK`); the buffers of a chunk end before `usedSize`, and one that is not closed
  yet is the last (`BuffersOK`). A chunk that is handed out again has no buffers left, so
  its bytes may be used from the start. A chunk is open only while its thread fills a
  buffer, and a thread that is about to open one has room for it unless its packet is longer
  than a chunk, so that nothing else fails (`OnlyTooLong`).
- **GameRoom and DummyClient.** Sequences are spoken of by their elements and by which is
  `Before` which, so that Append and Tail need three lemmas and no index. C_ENTER_GAME
  answers the first packet of a session and is under way once; until its handler has
  pushed Enter nothing but that packet was sent to the session, which therefore cannot
  disconnect by a send, and it is not in the room (`PacketsOK`, `OutsideOK`). A refused call
  only takes packets away. Hence the players are there when C_ENTER_GAME is handled and when
  Enter runs (`PlayersOK`; not at ClientPacketHandler.cpp:85), and Leave, which is pushed by
  whoever finds a player and a room, is pushed after Enter (`MembersOK`). Chats are numbered
  along their way, from the client through `toServer` to the line of the room (`NumbersOK`,
  `LineOK`); what a session was sent is in the order in which the room ran it (`InboxOK`),
  which is the same for all; a chat that was sent after C_ENTER_GAME has Enter ahead of it
  (`OwnOK`). `RoomJobsAreNew` says that the guard by which `SerialQueue` takes each job once
  holds up neither a handler nor `OnDisconnected`. The proofs stand beside those of
  `SendBuffers`, with which the modules share no variable.
- **DeadLockProfiler.** The graph has no cycle among the edges that were checked
  (`GraphInv`). In the search, the frames are a path along `m_parent` in the order of
  discovery, and a node that is finished is left by edges to finished nodes only and lies
  on no cycle (`SearchInv`), so that a cycle is reported exactly if the new edge closes
  one. The stacks are the guards the threads hold, and each name has one number
  (`StacksInv`); a lock above another one in a stack is linked to it by an edge (`EdgesOf`
  in `GraphInv`), checked before the thread may wait; threads that wait for each
  other in a circle would make a cycle of such edges.

`TypeOK` of the modules (`TimerTypeOK` of `JobTimer`, `GameTypeOK` of `DummyClient`),
`OneHolder`, `CountExact`, `CountsGuards`, `BufferHoldsStream` and `NoOverflow` are proved and no run lists them; the conjunct of each that a run does
check stands beside them in the theorem or is implied by the same inductive invariant.

## What is only model-checked

- Liveness (`EveryJobRuns`, `NeverAllStuck`, `EveryPacketDelivered`,
  `QueuedIsSentUnlessFailed`, `EveryTimerFires`, `EveryClientEnters`, `EveryCheckEnds`):
  TLAPS proves no liveness under fairness, nor `ENABLED`.

Every safety property of a passing run is proved for all values of the constants, and so are
the refinements of `SerialQueue`, `SendQueue` and `ReentrantLock`.

## Findings

1. `MemoryTable`. Memory.h:15-17 divides sizes up to 1024, 2048 and 4096 bytes
   among pools, and `MAX_ALLOC_SIZE` is 4096. The loops of the constructor share
   `size` and start at 1056 and 2080, so the last pool is 3872 bytes long and
   `m_poolTable[3873..4096]` is never written; `Allocate` uses it. The proofs delimit it:
   every size up to 3872 has its pool (`TableExact`), and a program that never asks for
   3873 to 4096 bytes, header included, never meets the flaw (`OnlyTheHole`).
2. `SessionSendStuck`. After a failed WSASend `RegisterSend` resets
   `m_sendRegistered` outside of the lock and without looking at the queue
   (Session.cpp:210), while `Send` relies on it ("if no RegisterSend is pending,
   register one", Session.cpp:27). A message queued in between waits for the next
   `Send`, if there is one.

What the runs also make plain, and no comment of the code denies:

- A session whose WSARecv fails with an error that `HandleError` only logs stays
  connected and never receives again (`deaf`), and one whose DisconnectEx fails stays in
  the Service for ever (`stranded`).
- `Handle_C_ENTER_GAME` reads `m_currentPlayer` again (ClientPacketHandler.cpp:85) after
  it has given the player to the room. By then a send of the room to this session may
  have failed, and `OnDisconnected` (GameSession.cpp:22), on another worker, may have
  reset it: line 85 dereferences null. `GameRoom` reaches this
  (`fault = "m_currentPlayer->"`), and `PlayersThere` leaves it out.
- A packet may be 65535 bytes long and a chunk has 6000. A handler that makes a longer one,
  as `Handle_C_CHAT` does when it echoes a chat that is, fails the assertion of
  SendBuffer.cpp:44, which ends the process (`failed = "tooLong"`); `OnlyTooLongFails` says
  that nothing else does.
- A client that is connected may wait for ever, outside of the room: a call was refused with
  an error that `HandleError` only logs.
- The profiler knows classes and not objects. Two threads that take the locks of two
  sessions in opposite order wait for each other unreported, which is why
  `NoSilentDeadlock` asks for different names; no code takes two locks of one class.

What no run reaches, but follows from the code: a guard that is taken again under another
one, A, B, A, is legal (Lock.h:14-19), and is reported as a deadlock, since the edges A to
B and B to A are a cycle of the graph. It takes three nested guards; the run
`DeadLockProfiler` has two (`MaxDepth`), in which the same two edges come from two guards
nested one way and then the other. `NoFalseCrash` means that a cycle of the graph is the
only thing the profiler crashes the process for, not that every cycle is a deadlock.

## Not modelled, and the plan

Not modelled for good: socket calls and address conversion, byte readers and
writers, template utilities, the studies that nothing includes, vendored and
generated protobuf code, `PacketGenerator` (a build-time script), the operating
system's completion port, SLists and clock beyond what the code relies on.

The lock-free stack and queue (ConcurrentStack.h, ConcurrentQueue.h) are studies that
nothing instantiates; one of them would not compile if it were. `StompAllocator` is in
no build. The vendored protobuf, a quarter of a million lines, is all but two per cent of
the repository; the program itself has about 6000 lines, studies included.

Left out of modelled parts: `ClearJobs` and `JobTimer::Clear`, which nothing calls;
`ThreadManager::Launch` and `Join`; `CloseService`, a TODO; `CreateSession` returning
null; packets outside of the protocol, such as one whose size is less than its
header, or one that is too long for the uint16 in which `MakeSendBuffer` keeps its size
(ClientPacketHandler.h:58-59); a client process that stops. In `GameRoom` the sizes of
packets are left out, and with them the end of the process that `SendBuffers` has for a
chat longer than a chunk.

A writer of a `Lock` can be kept out by readers that overlap until the timeout ends the
process: no property promises the contrary.

Planned: `SessionLife` and `SessionSend` in one module, with the messages in the session
that the references keep alive.
