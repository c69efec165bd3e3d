# A TLA+ model of getrafty

getrafty is a set of exercises in C++ that build up to a distributed system:
an event loop over epoll, byte transports with a pipeline of stages, a
request/response socket, queues, a thread pool and a FUSE file system. This
directory holds TLA+ modules that model its parts from the source under
`tasks/`, TLC runs that check them on small instances, and TLAPS proofs for the
parts that carry the rest. `PROJECT.json` lists the runs, the line of the
source each definition stands for, the hazards and the theorems.

Some of the exercises have empty bodies (`YOUR CODE`); they are not modelled.
Paths below are relative to `tasks/`.

## Inventory

| part | state | operations | what is hard |
| --- | --- | --- | --- |
| `transport/event_watcher` | table of descriptors (mask and two callbacks each), epoll's interest set, eventfd, ring of tasks, the thread-local `curr_` | `watch`, `unwatch`, `unwatchAll`, `runInEventWatcherLoop`, `loop` | any thread submits; clear before drain; stale events of a batch; failing polls; an assert with a side effect |
| `transport/abstract_transport`, `transport/tcp/tcp_transport` | write buffer, armed events, descriptor | `write`, `flush`, `onWritable`, `onReadable`, `readableStateChanged`, destructor | byte stream cut anywhere; 256 writes at most; lost wake-ups; error codes |
| `transport/chunker` | input buffer, length of the chunk begun | `onInbound`, `onOutbound` | a header in two pieces, empty chunks, chunks over the limit; stages behind it answer from inside its loop |
| `transport/byte_buffer` | storage, read and write offset | `reserve`, `commit`, `read`, `write`, `advance`, `peek`, `readUI32` | a buffer read to its end starts over, one with a byte left grows; bytes of earlier use behind the offset |
| `transport/conveyor` | stages in order; the handlers that run | `addLast`, `fireInbound`, `fireOutbound` from either end and from a stage | handlers nest, in both directions at once; stages without a handler |
| `transport/tcp/tcp_listener` | listening descriptor, latch | `listenAndWait`, `shutdown`, `onReadable` | three threads; shutdown at any step; callbacks that call back |
| `transport/tcp/tcp_dialer` | descriptor under way | `dial`, `onWritable` | the outcome comes late, or at once on another thread |
| `socket/socket` | state, four queues of requests | `tick` for nine events, `transportRead`, `transportWrite` | re-entrant callbacks; close with requests pending; one callback per request |
| `socket/tcp_transport` | connections by descriptor and by peer, hot peer, armed flags | `bind`, `connect`, `close`, `resumeRead`, `suspendRead`, `resumeWrite`, event handlers | which connection is armed when; stale hot peer; descriptors released under way |
| `socket/event_watcher` (and its copy in `event_watcher/`) | callbacks by descriptor and flag, epoll's interest set | `watch`, `unwatch` | `ADD`, `MOD` and `DEL` must agree with what epoll knows, which `close()` changes |
| `myfs` | nodes by inode number, children by name in a hash table, two counters of numbers | 13 FUSE requests | directory offsets over a hash table; numbers of removed files; an entry and its node erased in two places |
| `socket/framed_transport`, `mpsc_queue`, `thread-pool`, the queues | | | exercises with empty bodies |

How they interact. Everything of `transport/` runs on the thread that calls
`EventWatcher::loop()`; a request from another thread goes through the ring and
the eventfd, one from the loop's own thread runs inline. A transport watches its
descriptor and hands what it reads to its `Conveyor`, in which a `Chunker` is one
stage. A listener and a dialer make transports. `rpc::Socket` owns an
`rpc::TcpTransport` and drives it from `tick()`, on the thread of an older event
watcher, with which it registers each connection; the transport replays events
into `tick()`. `myfs` stands alone: libfuse's session loop hands it the kernel's
requests one by one, on one thread.

What makes each correct, and the property that says so, is listed below with the
runs; `PROJECT.json` lists under "hazards" each line where it could go wrong.

## Modules

    TaskExecutor <- EventWatcher <- MCEventWatcher
                                 <- EventWatcher_proofs
    LoopThread <- TcpListener, TcpDialer <- Connect <- Connect_proofs
    AbstractTransport, Chunker <- Channel <- MCChannel
                    ChunkStream <-
    Channel, Sequence_proofs <- Channel_proofs
    ByteBuf, Conveyor <- Pipeline <- MCPipeline
    ByteBuf <- ByteBuf_proofs
    Pipeline, ByteBuf_proofs, Sequence_proofs <- Pipeline_proofs
    SocketWatcher <- SocketTransport <- Socket <- MCSocket
                                               <- Socket_proofs
    MyFs <- MCMyFs
    MyFs, Sequence_proofs <- MyFs_proofs
    FileTree <- MCMyFs

An arrow points from a module to those that extend it, or, for `TaskExecutor`,
`ChunkStream` and `FileTree`, that implement it (`INSTANCE ... WITH`).

**EventWatcher** models `transport/event_watcher`. `entries` is `fd_map_`,
`epoll` the kernel's interest set, `signalled` the eventfd, `taskQ` the ring,
`curr` whether the loop thread's `curr_` is this watcher. `Push` and `Signal` are
the two steps of a submission from another thread, `Refused` the full ring and
`Inline` the shortcut. `EnterLoop`, `EpollWait`, `EpollFail`, `Dispatch`,
`CallbackReturns` and `LeaveLoop` are `loop()`; `ClearEventFd`, `Pop`,
`JobReturns` and `QueueEmpty` the wake-up callback. epoll may report any watched
descriptor at any time; the eventfd is reported when it is signalled. A closure
passed to `watch()` is move-only, so a callback sits in one slot or one queued
task. `fate` is a history variable that records what became of each callback:
`transport/README.md:114` promises that none is invoked after `unwatch*` returned,
which holds on the loop's thread; on another one `unwatch()` only queues, so a
callback is `late` from then on, and may be entered for as long as the request is
in the queue and no longer (`LateOnlyWhileQueued`).

**TaskExecutor** is what `runInEventWatcherLoop()` promises a thread that is not
the loop's: a bounded queue, taken in order, one task at a time, in the end. No
eventfd, no epoll.

**AbstractTransport**, **Chunker** and **Channel** model one direction of a
connection between two transports with a `Chunker` each. Each `writev` and each
`recv` is a step and takes any number of bytes the kernel may take, so every cut
of the stream is there. A byte is named after the chunk and the position it was
written for, which lets `BytesAreConserved` see loss, duplication and
overtaking. A header read at a place where none was written gives any length.
**ChunkStream** is what the applications see: whole chunks, in order, each once.

**ByteBuf** is the buffer as it is in memory: the storage with the two offsets
`r` and `w`, and one operator per member that gives the buffer it leaves behind.
**Conveyor** is the pipeline: the list of stages and the stack of handlers that
have been called and have not returned. To fire pushes the nearest stage that has
a handler for the direction. **Pipeline** puts both to work: `onReadable`'s read
loop (`Recv`, `Inbound`), a `Chunker` (`ChunkerIn`, `ChunkerOut`), an application
that answers each chunk from inside its handler, and the transport's write buffer
(`HeadWrites`) with `onWritable`: `HeadWrites` watches WRONLY, and while it is
watched epoll calls `onWritable` (`OnWritable`), which writes (`Writev`) until
the kernel takes no more (`WriteBlocks`, WRONLY stays), or until nothing is left
or it has made `MaxWrites` writes (`WriteDone`, WRONLY is unwatched). Around the
Chunker there may be stages that pass events on and stages that have no handler.
A step is what a handler does up to its next call. Channel and Pipeline both have
the Chunker: Channel on named bytes, with two ends and every disturbance of the
connection, Pipeline on octets and offsets, with what happens while a handler
waits for the stages behind it.

**LoopThread** is the loop's thread for modules that only need its queue of
tasks (as in `TaskExecutor`) and the stack of handlers that run inline.
**TcpListener** models `listenAndWait` step by step on the server's thread,
`shutdown` from other threads and from callbacks, and `onReadable` an `accept` at
a time. **TcpDialer** models `dial` and `onWritable` of one dialer per client.
**Connect** puts them on one watcher with the kernel between: connections are
established into the backlog, refused or reset at any time.

**SocketTransport** models `socket/tcp_transport` with the kernel's side of each
connection (data waiting, end of stream, reset) and **Socket** the state machine
over it. **SocketWatcher** is the event watcher below them, as a value: the table
of callbacks and epoll's interest set, changed by `watch()`, `unwatch()` and the
`::close()` of a descriptor. A callback that a `tick()` calls last is part of that
`tick()`. Only `transportRead()` goes on after its callbacks, so it is modelled a
turn at a time with `depth` for its nested activations. `answers` records what
each request's callback got. Calling an empty callback is the state `crashed`.

**MyFs** models `myfs`: `inode_map` the nodes by number, each with its parent, its
data, its `children` and the `order` in which the hash table is walked;
`nextFile` and `nextDir` the two counters. An action is a handler of a request,
from its first check to the reply. The kernel may ask about every number it ever
got, those of removed files included. An insertion may rehash, so it leaves any
order; `erase()` keeps the order of the rest. `OpenDir` and `ReadDir` are the
kernel's side of a listing: it asks on from the last offset until a reply is empty,
and fails the call when a reply is longer than it asked for. **FileTree** is what
users are promised: paths, what each leads to, and the answer to each request; a
handle on what was removed finds nothing. `MCMyFs` maps a number to the path the
parents lead up.

Operators whose comment begins with "Fault:" are not part of the model. Each is a
plausible mistake in one definition, kept to show that the property named for it
in `PROJECT.json` notices it.

## Runs

Passing runs:

| run | instance | properties |
| --- | --- | --- |
| watcher_safety | 2 descriptors, 2 callbacks, a job, another thread, ring of 2, batches of 2, Release build, all requests; symmetric | `TypeOK`, `NoLostWakeup`, `MaskIsInterest`, `LateOnlyWhileQueued`, `InvokedOnlyWhileWatched` |
| watcher_liveness | 1 descriptor, 1 callback, 2 jobs, 2 other threads, Debug build, no `unwatchAll` | `ImplementsExecutor` |
| channel_stream | chunks of 0 to 4 bytes, limits 2 and 3, header of 2, 2 bytes in the kernel, 2 per `recv`, 2 writes per `onWritable`, 2 chunks sent | `TypeOK`, `BytesAreConserved`, `ImplementsStream`, `SentIsDelivered` |
| connect_lifecycle | 2 clients, 2 accepts per `onReadable`, 1 shutdown after `on_started_` | `TypeOK`, `NoAcceptAfterShutdown`, `NoConnectAfterShutdown`, `ReturnsAfterShutdown`, `NoStaleWatch`, `LatchStopsAtZero`, `DialIsAnswered`, `ClientIsServed`, `ShutdownEndsListening` |
| socket_safety | 2 connections, 1 bind, 1 connect, 3 reads, 2 writes, 1 close, read queue of 2; symmetric | `TypeOK`, `AnsweredOnce`, `AnsweredWhenClosed`, `PendingIsQueued`, `WatchesAgree`, `ConnectedReadIsArmed`, `WriteIsArmed`, `HotIsOpen` |
| pipeline | up to 5 stages of 5 types, limit 2, 3 bytes per read, 2 writes per `onWritable`, chunks of 0, 2 and 3 bytes and a byte behind | `TypeOK`, `StackIsOrdered`, `InboundIsInOrder`, `OutboundIsInOrder`, `AnswersAreSent` |
| myfs_tree | 2 names (one longer), 2 files and 1 directory ever created, files and writes of up to 2 bytes, replies of 3 | `TypeOK`, `TreeIsSound`, `ListingIsExact`, `NumbersAreNotReused`, `ImplementsTree` |

What the last two show. In `pipeline`, what was received is at all times the
chunks the application was given, those on the stack, the length read, and what
is in the buffers (`InboundIsInOrder`); each answer is on the wire, in `wbuf_` or
on the stack (`OutboundIsInOrder`); handlers nest inward and then outward
(`StackIsOrdered`); and all answers get to the peer (`AnswersAreSent`), unless
`onWritable()` gives up with bytes left after its last write, as `channel_flush`
shows it may (`GaveUp`). In
`myfs_tree`, no path leads to a missing node and no node is without a path
(`TreeIsSound`), a number never leads to a second node, a listing in pieces of a
directory nobody changes meanwhile is exact, and every request changes and
answers what FileTree says (`ImplementsTree`).

Runs that show the code and a statement about it disagree:

| run | statement | what happens |
| --- | --- | --- |
| channel_error | `readSome` returns "-errno" | it returns -1, and each drained read is an error event |
| channel_flush | flush completes when nothing is left to write | after 256 writes it completes with bytes left, and stops |
| connect_early | no `onAccepted` after `onShutdown`, shutdown is thread safe | a `shutdown()` before the socket exists is forgotten, and the listener starts |
| socket_eof | close "invokes user callback" | the socket's own `CloseReq` has none, and it is called |
| socket_server_read | "otherwise data delivered via transport ReadReadyRep" | a bound socket arms only the hot connection |

### Bounds

The bounds are `CONSTANTS` of the modules. A ring of two tasks fills up, can be
drained half, and overtakes nothing smaller could; two descriptors give batches
with a stale event; two flags per descriptor are all there are. A header of two
bytes is the shortest that can be cut; two bytes in the kernel and two per call
make a read and a write stop in the middle of a header and of a payload, and the
chunk sizes give an empty chunk, a chunk over the receiver's limit only and one
over both. Two accepts per `onReadable` and two clients reach the cap of 256 in
the small. Three reads against a queue of two reach the full queue; two
connections are the least at which the hot one is not the only one. Bounded
histories: `MaxSent` chunks, `MaxShutdowns` calls, and each request of a socket
once. Deadlock is not checked where everything may be over: a crashed process
(`socket_*`), a listener shut down with all clients answered (`connect_*`), a
peer that has sent all its bytes and has all its answers (`pipeline`).

A header of a Pipeline has its four bytes, so reads of three cut it; the chunks are
an empty one, one as long as allowed and one over the limit. What was received with
that one's header is dropped, and the rest is read as headers, on which the code
promises nothing; the answers to what came before are still sent. Two writes per
`onWritable` let it empty `wbuf_`, block with bytes left, and give up with bytes
left. Five stages leave room for two relays or blind stages, on either
side of the Chunker. In MyFs a directory with two files, or with a file and a
directory, is listed in one, two or three requests with replies of three units and
entries of one and two: entries fit exactly, do not fit, and are cut off. Three
nodes besides the root reach every error of every handler. `MaxFiles` and
`MaxDirs` bound the numbers ever given out, so a removed file's number is there to
be asked for.

Two runs have a `VIEW`. `Served` hides `request` and `reply` of MyFs, which no step
reads; the refinement looks at them in every step TLC takes. `Observed` of Socket
hides which answer a request got; steps and properties look only at whether
there was one.

`connect_lifecycle` sets `AnyTime` to `FALSE`, so `shutdown()` comes after
`on_started_`, as the callers in the tests do it; `connect_early` shows why. One
`shutdown()` per run: a second one counts a `std::latch` below zero, which its
precondition forbids. So does one on a listener that failed to start, which has
counted the latch itself (`tcp_listener.cpp:80`): it goes to -1, and where that is
before `wait()` is there to see the zero, `listenAndWait()` does not return. A
shutdown after `on_started_` cannot meet that. `LatchStopsAtZero` says that these two are
the only ways below zero; `LatchCountedOnce` proves it for any `AnyTime`.

### Fairness

- EventWatcher: the loop's thread calls `loop()` again and again and user code
  returns (`WF` of `Loop`); a thread that pushed goes on to signal (`WF` of
  `Signal`); a signalled eventfd is reported again and again (`SF`), since epoll
  rotates its list of ready descriptors and a poll does not fail for ever.
- Channel: both ends call `loop()`, and epoll is level-triggered, so a socket that
  can be read or written is reported (`WF` of `WriterStep` and `ReaderStep`). The
  rest (sending, flushing, resets, suspending the reader) is under no obligation.
- Pipeline: the loop's thread goes on with what it has begun, a read loop, the
  handlers that were called and a write loop, and epoll reports a socket that can be
  written for as long as WRONLY is watched (`WF` of `Inbound`, `StageStep` and
  `WriteLoop` together, as it is one thread). The peer reads on, so a socket that was
  reported writable takes at least a byte. Nobody has to send.
- Connect: the server's thread and the handlers go on (`WF`); tasks and ready
  descriptors get their turn in spite of each other (`SF`, the rotation again);
  a SYN is answered or times out (`WF` of `Establish` or `Refuse`); `accept()`
  is not short of descriptors or interrupted for ever (`SF` of `Accept`). Nobody
  has to dial or to shut down.

## Proofs

`EventWatcher_proofs` proves, for any sets of descriptors, callbacks, jobs and
threads, any ring size, either build and any subset of the requests:

- `TypeCorrect`: `Spec => []TypeOK`.
- `WakeupNotLost`: `Spec => []NoLostWakeup`. The invariant is inductive with
  `TypeOK`: a push leaves a thread that is about to signal; a signal sets the
  eventfd; only the wake-up callback clears it, and it then drains; it leaves
  the drain only with the queue empty.
- `ExecutorSafety`: `Spec => Executor!Spec`, the safety half of what
  `watcher_liveness` checks, by one step per action.
- `InterestFollowsMask` and `InvokedWhileWatched`, from the inductive invariant
  `Inv`. `InvokedOnlyWhileWatched` says that a callback is not entered after it was
  taken out; what keeps it so is that a callback is in one place: in one slot at
  most (`InOneSlot`), in no slot while queued (`QueuedIsInNoSlot`), queued once
  (`QueuedOnce`), and that the eventfd's slot holds the wake-up callback and no
  other does (`OnlyWakeup`). With `MaskIsInterest`, a flag in a mask has a callback
  and one not in it has none, so a callback found in a slot was not removed
  (`SlotNotRemoved`). The last two hold until the first `unwatchAll()`, which
  leaves masks and slots behind. Actions split into requests that change the table
  (`WatchKeepsTable`, `UnwatchKeepsTable`, `UnwatchAllKeepsTable`) and those that
  change the queue (`PushKeepsQueue`, `TailKeepsQueue`, `InlineKeepsQueue`).

- `LateIsQueued`, from `Inv` too: `LateOnlyWhileQueued`, until the first
  `unwatchAll()`. A callback that is late is still in a slot or has just been
  entered from one, so the request that would remove it has not been popped.

Assumptions: `EventWatcherAssumptions` (sizes are positive, the eventfd is no user
descriptor, the loop's thread is no poster, the two special callbacks are no user
callbacks) and `NoneIsNoTask`. TLC evaluates both in every run of the watcher.

`MyFs_proofs` proves, for any names, bytes, bounds and sizes of entries, whatever
the hash table's order:

- `TreeStaysSound`: `Spec => []TreeIsSound`. The inductive invariant `TreeInv` adds
  to `TreeIsSound` that the table is well-formed and the counters are ahead of
  every number in it (`TableShape`), that files have no entries
  (`FilesAreLeaves`) and that no entry leads to the root (`RootIsNoEntry`). The
  steps that change the table come down to four: a new node with a new name
  (`AllocateInode`), the erasure of a node without entries with its name (`Erase`,
  to which `ForgetInode` is shown to come down), other data in a file, and no
  change at all.
- `RemovedStaysRemoved`: `NumbersAreNotReused`, since a number given out is below
  its counter and a new one is not.

- `NodesAreTyped` and `ListingsAreExact`: `TypeOK` and `ListingIsExact`, from
  `FsInv`, which adds to `TreeInv` that every node is of its type (`NodeIn`), that
  the kernel's directory stream is, and that what it got of a directory nobody
  touched is what comes first on its walk, up to the offset (`ListedSoFar`). The
  walk meets each name once: an order of n places without repetition over n names
  meets all of them (`OrderMeetsAll`), so `erase()`, which passes over one place,
  leaves an order of what is left (`SkippingIsOrder`). A reply begins where the one
  before ended (`ReplyInside`) and is not empty before the end (`LastPlaceIn`). A
  directory that is removed and asked for again is not another one, since its
  number is not given out twice.

Assumption: `MyFsAssumptions`, of which the proofs need that there are finitely many
names and that sizes are numbers. Nothing is assumed of the sizes of entries. TLC
evaluates it in `myfs_tree`.

`Sequence_proofs` has what the others need of sequences of sequences: that
`FlattenSeq` of one that is longer by a part is longer by that part
(`FlattenAppend`, `FlattenConcat`), of one whose parts are empty but the last is
the last (`FlattenOnlyLast`), and how a sequence is cut in two (`Cut`,
`CommonHead`). `FlattenSeq` is a recursive function. Instead of by induction, each
fact is proved by the least place at which it would fail, which exists since the
numbers are well-founded (`LeastExists`).

`ByteBuf_proofs` proves what the members of a buffer do to the bytes that can be
read, for any offsets, storage and leftovers of earlier use: `WriteAppends`,
`AdvanceDrops` and `TransferMoves`, that is, a buffer is a sequence, written at
one end and read from the other.

`Pipeline_proofs` proves, for any stages in any number, any limit and any bytes
from the peer:

- `PipelineTypeOK`: `Spec => []TypeOK`. That each buffer stays one comes from the
  lemmas about `ByteBuf`.
- `HandlersNest`: `Spec => []StackIsOrdered`. The inductive invariant `PipeInv`
  types the stack as a sequence of frames and states the order between neighbours
  for any such sequence (`Nested`), so that firing (`FireInboundKeeps`,
  `FireOutboundKeeps`), going on (`ContinueKeepsStack`) and returning
  (`ReturnKeepsStack`) are each shown to keep it once, and the steps of the stages
  come down to these. That the nearest stage with a handler exists is
  `LeastExists`.

- `ChunksComeInOrder` and `AnswersLeaveInOrder`: `Spec => []InboundIsInOrder` and
  `Spec => []OutboundIsInOrder`, from the inductive invariant `FlowInv`. It states
  the two orders with what each part of a pipeline holds: the chunks given, those
  past the Chunker on the stack, the length it keeps, its buffer, what is on the
  stack before it, and `rbuf_` (`InOrder`); the wire, `wbuf_` and the answer on the
  stack (`OutOrder`). What these need besides: the head is first, the application
  last, and there is one Chunker between them (`Shaped`); before the application
  is there nothing moves (`Unused`); of all handlers only the top one still has its
  event (`OnlyTop`), so what the stack holds is what its top holds; and what is to
  be framed is no longer than the length of a chunk may be (`WithinLimit`), since
  the Chunker frames what it let pass. Steps move bytes from one part to the next,
  which `WriteAppends`, `AdvanceDrops`, `TransferMoves` and the round trip of a
  length (`UI32RoundTrip`) say of the buffers. Of the steps of
  `onWritable()` only `Writev` moves bytes (`BytesStay`); its own variables are typed
  apart (`WriteLoopIsSound`).

Assumptions: `PipelineAssumptions` and `StagesAssumption` (the head, the Chunker and
the application have the handlers they have). TLC evaluates them, and
`HandlesAssumption`, in `pipeline`.

`Channel_proofs` proves, for any chunks and sizes, limits, lengths of the header and
sizes of the kernel's buffer and of a read:

- `ChannelTypes`: `Spec => []TypeOK`.
- `BytesAreNeverLost`: `Spec => []BytesAreConserved`. The inductive invariant
  `ChanInv` is stronger, since a chunk can be over the limit or the connection be
  reset half-way: the bytes the Chunker is not done with (`Due`) are those in its
  buffer, in the transport's, in the kernel and some last bytes, `lost`, which are
  the writer's own as long as the connection is up (`InFlight`); a length that is
  kept is that of the next chunk (`HeaderIsRead`); what was handed on are the first
  chunks sent (`FirstOnes`).
- `ChannelImplementsStream`: `Spec => ImplementsStream`, that is, ChunkStream with
  the chunks sent and delivered. The step that hands a chunk on finds it whole and
  the next one due, from `ChanInv`; every other step is a stutter or a `Send`.

Assumptions: `TransportAssumptions` and `ChunkerAssumptions`.

`Connect_proofs` proves, for any clients, any cap on accepts and any number of
shutdowns, with the inductive invariant `IInv`:

- `ConnectTypes`, `WatchIsNeverStale` and `ReturnFollowsShutdown`: `TypeOK`,
  `NoStaleWatch` and `ReturnsAfterShutdown`, whenever `shutdown()` is called. The
  latch is not 1 and `listenAndWait()` has not returned before `on_shutdown_`
  (`DownIsRecorded`); only a listening socket is watched (`WatchIsFresh`). That the
  latch never falls below minus the shutdowns comes from counting: each countdown
  still owed is a task in the queue or a handler on the stack (`Owed`,
  `LatchIsOwed`), and every step changes these counts by known amounts (`Moved`).
- `LatchCountedOnce`: `LatchStopsAtZero`, whenever `shutdown()` is called, from the
  same counting: a listener that starts, or still may, owes no countdown of its own,
  so that of the one shutdown is the only one.
- `NothingAcceptedLate` and `NothingConnectedLate`: `NoAcceptAfterShutdown` and
  `NoConnectAfterShutdown`, when `shutdown()` comes after `on_started_`
  (`AnyTime = FALSE`). A listener then starts
  or fails, never both, and once it is closed nothing opens it again
  (`StartsOrFails`); who dials afterwards is refused (`LateIsRefused`).
  `connect_early` shows that the first does not hold without the hypothesis.

Assumptions: `ListenerAssumptions` and `ListenerIsNoClient`.

`Socket_proofs` proves all of what `socket_safety` checks, for any connections and
requests, any capacity of the read queue and any amount of data: `SocketTypes`,
`NobodyAnsweredTwice`, `ClosedOwesNothing`, `WhoWaitsIsQueued`, `OwedReadIsPolled`,
`OwedWriteIsPolled`, `TablesAgree` and `HotStaysOpen`. The inductive invariant `IInv`
has these parts.

- `TransInv`, the transport's own: only open connections are hot or armed; the
  watcher has an input callback for the armed ones, an output callback for those
  armed for output and the one under way, and epoll's interest agrees with it flag
  by flag (`Holds`, `Synced`).
- `Modes`: which connections there may be in which state of the socket.
- `WritesArmed` and `ReadsArmed`: what is owed is polled for, reads only between two
  `tick()`s, since `transportRead()` disarms while it goes on.
- `QueueInv`: no request is queued twice or in two queues, and the requests that
  wait for an answer are exactly those queued (`Owes`), until the socket is closed.
- `ControlInv` and `AnsweredWhenClosed`.

The transport's steps come first, each shown to keep `TransInv` and to do no more
to the connections than `Fades` says (one stays, is closed, or begins to wait; what
is armed for output stays so), and `ReadsStay` where input is not suspended. The
socket's steps use only these. Assumptions: `TransportAssumptions` and
`SocketAssumptions`.

Only model-checked. All liveness (`ImplementsExecutor` with fairness,
`SentIsDelivered`, `AnswersAreSent`, `DialIsAnswered`, `ClientIsServed`,
`ShutdownEndsListening`), which is beyond the prover. `ImplementsTree` of MyFs: its
refinement mapping, `PathTo`, is a recursion over the depth of the tree, which is
defined for the numbers in the table only and has no value to reason about for the
others. And the statements that runs show violated.

## What the models leave out

- A `loop()` called inside a callback, which would reuse the static event array.
- The destructors of the listener and of a dialer that has not answered: the README
  of `transport/` does not say when, or on which thread, they may run. That of a
  transport on a thread other than its loop's, which its README forbids.
- `shutdown`, `onWritableStateChanged` and `onShutdownCompleted` of a transport:
  the first passes its reason as the `how` of `::shutdown`, which rejects it, the
  others are never called.
- Failures of allocation (`reserve()` among them), exceptions in callbacks
  (`handleCallback` swallows them), logging, addresses.
- `onAdded`, `onRemoved` and the destructor of a `Conveyor`, stages added during an
  event (its README forbids it), and the type erasure: a handler gets the copy of
  an event that it fires.
- `tailroom()` and `headroom()` as pointers; `commit()` is defined and called by
  tests alone.
- The lengths of a socket's writes: `send()` of a part counts as done, as in the
  code. Descriptor numbers that are used again: `client_fd_`, which
  `releaseConnection()` leaves as it is, stays a closed one.
- `unwatchAll()` and the destructor of the older watcher, which the socket does not
  call, and its thread, `waitLoop()`, which is an exercise.
- In Pipeline the connection does not fail, and the peer does not end it; that is in
  Channel, as is `flush()`.
- In Connect the watcher is reduced to `TaskExecutor` and to `armed` and
  `writable`; a full ring, which would drop a listener's task, is not there.
- Of `myfs`: the mount and the session loop, which runs handlers one by one; times,
  modes and owners; a negative size in `setattr` (`EINVAL`); `f_ffree`, which
  wraps around once there are more than `TOTAL_SPACE / BLOCK_SIZE` nodes; an
  `unlink` of a directory, which the kernel does not send. `TOTAL_SPACE` is
  reported and not enforced, in the code as in the model; the test that expects
  otherwise (`DISABLED_ExceedFilesystemSpace`) is disabled. A listing of a
  directory that is changed meanwhile promises nothing: offsets are places in a
  hash table, and entries are then skipped or listed twice.

## Not modelled

`socket/framed_transport`, the three queues, `thread-pool` and `tutorial` are
exercises: the bodies are empty or throw, so there is no behaviour to translate.
`WaitGroup` is a helper of the thread pool's test. The build files and the tool
`tasklet`, which cuts the exercises, are no part of the running program.

## Plan

Done: all models and runs, and a proof of every safety property that a passing run
checks but one.

What is left is that one, `ImplementsTree` of MyFs. It needs the paths in a form the
prover can use: those of the nodes in the table, with the depth of each as the
measure (a node's directory is less deep than the node), from `TreeInv`; then
one step per request. The lemma that erasing or adding a leaf leaves the paths of
the others alone is the core of it.
