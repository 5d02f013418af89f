# stupidP2P: a verification development

stupidP2P lets clients exchange data through a relay server. A client registers
a device id, subscribes to ids of others, and sends data; the server forwards
the data of a device to its subscribers. The server is written in C++ on the
muduo library (`p2pServer/`), the client libraries in C (`API/C/`) and Python
(`API/Python/`).

This directory holds TLA+ modules for the server, both clients and the parts of
muduo whose code is in the repository, TLC configurations that check them on small
instances, and TLAPS proofs of the main safety properties for every value of the constants. `PROJECT.json` maps each
definition to the lines it models and lists runs, mutants, findings, hazards and
theorems.

## 1. The system and its parts

| part | code | state that matters | module |
|---|---|---|---|
| device directory | `p2pServer.cc/.h` | `_connections`, `ConnInfo` (id, ids subscribed to, connections fed) | `Registry` |
| idle-connection timer | `p2pServer.cc` (`onTimer`, `heartBeatFunc`) | `_connectionList`, `lastReceiveTime`, the walk's iterator | `IdleTimer` |
| connection life cycle | muduo (headers only) | `TcpConnection::state_`, life of the object | `Muduo` (external) |
| handlers as a whole | `p2pServer.cc`, `codec.h` | the above plus input that no longer parses | `P2PServer` |
| codec and bytes on the wire | `codec.h`, framing of both clients | input buffer, deque, two byte streams | `Codec`, `PyReceiver`, `Wire` |
| C client, receive path | `stupidP2P.c`, `netWork.c/.h` | `recv_fifo`, the parser, `recv_data_list` | `CReceiver` |
| C client, request path | `stupidP2P.c` | one flag per command, `need_to_restart_flag`, missed heart beats, three threads, the connection | `CClient` |
| C client, `send_fifo` | `netWork.h` | ring of heap blocks, `num`, mutex | `SendFifo` (an ideal queue in `CClient`) |
| C client, list, init, deinit | `stupidP2P.c` | list of clients, fds, steps of init and deinit | `ClientList` |
| Python client, commands and restart | `stupidP2P.py` | flags, response table, threads, connection | `PyClient` |
| muduo `Buffer`, byte order | `net/Buffer.h`, `net/Endian.h` | vector and two indices | `Buffer`, `BufferClient` |
| muduo queues and locks | `base/BlockingQueue.h`, `BoundedBlockingQueue.h`, `Mutex.h`, `Condition.h` | queue, mutex, holder, waiters | `BlockingQueue` |
| muduo log text | `base/LogStream.h`, `StringPiece.h` | fixed buffer, views | `LogText` |
| muduo singletons | `base/Singleton.h`, `ThreadLocal*.h` | object, key, `t_value_` | `Singletons` |
| muduo HTTP request | `net/http/HttpRequest.h`, `HttpContext.h` | method, headers | `HttpRequest` |
| tests, UI, `main.cc` | | none of their own | not modelled |

**Who runs what.** The server has two threads: the I/O thread runs
`onConnection` and `onMessage` (`setThreadNum(1)`), the base loop runs `onTimer`
once a second. They share `_connectionList` without a lock. A C client has a
send, a receive and a check-net thread; application threads wait inside
`need_to_send`. The check-net thread sends a heart beat every three seconds and
reconnects when three are missed or the receive thread asks for it. A Python
client has a receive thread and a heart-beat thread; the heart-beat thread
restarts the client from within itself, which replaces both threads.

## 2. Modules

**Muduo** — states of a connection and when its object may be reused. Slots of
`Conn` stand for connection objects. `crashed` records that undefined behaviour
ended the process.

**Registry** — one action per command (`RegisterDevice`, `SubscribeDevice`,
`UnsubscribeDevice`, `UnregisterDevice`, `SendData`), plus `ConnectionUp`,
`ConnectionDown` and the freeing of objects. Handlers are atomic because they all
run on the I/O thread. The lists are sets: the code refuses duplicates and never
reads their order. `RegSpec` allows any client; `OneIdSpec` adds that a
connection does not register a second id while it holds one. That is an
assumption about applications: neither client library enforces it.

**IdleTimer** — the I/O thread's steps are cut where `onTimer` can see a difference:
a new connection is listed before it has a context (`opening`), and `heartBeatFunc`
notes the time (`HeartBeat`) before it moves the node (`Splice`; `beating` is the
connection in between). `onTimer` is cut at every access to shared state (`WalkStart`, `Examine`, `Timeout`, `Jump`,
`Advance`), including the walk over an erased node and over a connection whose
context is not set yet. Times are ages, so the clock needs no variable.

**P2PServer** — each handler is the conjunction of its directory part and its
timer part, as the code calls them. `INSTANCE` is not needed for the refinement:
the abstract variables are the server's own, so `RegSpec` and `TimSpec` are
checked and proved as properties of the composed server.

**CReceiver** — a byte is its place in the stream the server writes; the ring
holds such places, so "the right byte in the right order" is a statement about
numbers. `CallRecv` enters `recv()` on the current socket, `Recv(k)` is its return
with any number of bytes, `ParseMessage` one round of the parser's loop. A reconnect
does not wake a thread inside `recv()`: it stays on the old socket (`stale`) and may
still return bytes of it, or an error that restarts the new connection. Messages
have all lengths in `Body`: one longer than `command[]` (`MaxBody`) overruns it
(`Overrun`, the process may die), one that does not fit the ring makes `Recv` drop
bytes. After bytes are lost inside a message (`torn`), four bytes that are no header
read as anything in `Garbage`, and `ParseMangled` does what the code does with it.
`torn`, `parsed`, `handed`, `lost` are history.

**CClient** — whole messages. `Begin`, `QueueCommand`, `StopWaiting`, `Return` are
the steps of `need_to_send`; the final second read of the flag is a step of its
own. `CheckTop` to `CheckCount` are the check-net loop, with the assignment
`ret = STUPID_P2P_NET_ERROR` taken as the code has it. `recvPc = "stale"` is the
receive thread still blocked on the socket that was closed under it.

**Buffer, BufferClient, ByteQueue** — the methods of `muduo::net::Buffer` as
operators on a record of its three members, so that `Codec` can have a buffer of
its own. `BufferClient` is an arbitrary caller that keeps to the asserts on the
arguments; `ByteQueue` is what such a caller may rely on.

**Codec, PyReceiver, Wire, MessageChannel** — `Codec` is `LengthHeaderCodec` over a
`Buffer`, one action per round of the loop of `onMessage`; `PyReceiver` is the loop
of `clientRecvThread.run`, with the header put back when a message is incomplete.
`Wire` joins them by two TCP streams that may be read in pieces of any size, and
lets `send()` take part of a frame once (`torn`). `MessageChannel` is the abstract
channel: messages arrive whole, once and in order; it may refuse a message that is
too long, and promises nothing after a torn frame.

**PyClient** — a step per access to an attribute that the application's thread and
the heart-beat thread share. Connections are numbered, and thread objects with
them. Assumed, and written into the guards: an answer on a working connection
comes within three seconds (`Poll`), the three seconds a new heart-beat thread
sleeps are longer than the last steps of the restart that made it (`Wake`), and the
application calls `deinitClient` when no restart is due or under way (`Quiet`).
The last is a real restriction: without it a restart that is under way runs on,
and the client is up again after `deinitClient` returned.

**SendFifo** — `send_command_fifo_push` and `pop`, every access to a shared member a
step, because `pop` calls `pthread_mutex_unlock` where it should lock. A block that
is freed twice or used after it was freed is a crash, after which nothing is said.

**ClientList** — the list of clients, the steps of `stupid_p2p_init` with its error
paths, and of `stupid_p2p_deinit`. The threads of a client detach themselves, so the
`pthread_join` of deinit does not wait: a receive thread may still run while deinit
empties the client's data list. `remove_stupid_p2p` never removes the last node.

**BlockingQueue** — both queues (`bounded` chooses), with `MutexLock`'s holder and
`Condition::wait` cut where another thread can run, and spurious wakeups.

**LogText, Singletons, HttpRequest** — small parts of muduo: the 4000-byte line of
`LogStream` and the views it is fed from; objects made on first use and destroyed
at thread exit, over POSIX keys; the request object that serves all requests of a
connection. The server does not use the last one. `HttpContext::parseRequest` is
not in the repository: the order of its calls is taken from the states it has.

`MC...` modules give TLC its symmetry sets and constant values. Definitions named
`Mut...` are plausible mistakes; each property is shown to notice one.

## 3. Runs

| run | result | what it shows |
|---|---|---|
| `registry_any_client` | holds | With arbitrary clients: `RegistrationOwned`, `SendToJustified`, `NoSilentLoss`. |
| `registry_one_id` | holds | With one id per connection: map and `ConnInfo` agree, CHECK_DEVICE_ALIVE tells the truth, nothing of a closed connection remains, no device feeds itself, closed objects are held only by half-closed ones. |
| `registry_served` | violated | After a device registers again, on the same or a new connection, a subscriber other than itself is fed by nobody. |
| `timer_safety` | holds | The list is exact and, but for the node of a heart beat under way, nearly ordered, nobody is timed out early, with `onTimer` and the I/O thread interleaved. |
| `server` | holds | The server implements `RegSpec` and `TimSpec`; silent connections are reaped, closed objects freed. |
| `c_recv` | holds | Framing is exact until bytes are lost inside a message, the ring first fills behind a message too long for it, data arrives in order, the parser keeps up. |
| `c_recv_torn` | violated | After a connection is lost inside a message the parser reads lengths in the wrong place. |
| `c_client` | holds | Success means the call's own request was executed, unless calls of that command overlapped or one was given up. |
| `c_client_live` | holds | Every call returns; the client ends up connected. |
| `wire` | holds | In both directions the bytes implement a message channel; every message arrives; the server's input buffer stays bounded, torn frames included. |
| `py` | holds | A call gets its own answer, one heart-beat thread beats, a lost connection is replaced, `deinitClient` ends all threads. |
| `parts` | holds | Seven parts that stand on their own (see below). |

The two violated properties state what the repository's documentation says;
`PROJECT.json` quotes the lines under "findings".

`MCParts` puts seven parts without common state into one run: a behaviour picks one
of them and exercises that one, so TLC visits the states of each and none of their
product. One invariant per part gathers what the part promises (its conjuncts are
defined and explained in the module): `QueueSound` (blocking queues), `TextSound`
(log text), `SingletonsSound`, `FifoSound` (send fifo), `ListSound` (client list),
`RequestSound` (HTTP request). For Buffer there are `AssertsHold`, `IntsReadBack` and
the refinement `IsByteQueue`.

**What the models contain and no property denies.** Some steps of the code lead
where no useful property holds; the models take them and the properties are stated
around them. The relay loop goes on from an iterator it erased (`SendData`, the
process may die); `onTimer` can stand on a node the I/O thread erased
(`WalkDangling`), meet a connection without context (`WalkNoContext`), or stop at a
connection whose heart beat is half done, so that older ones behind it wait for the
next walk; a message of more than 2048 bytes overruns `command[]`, one of more than
4093 can fill `recv_fifo`, after which the parser reads in the wrong place; an answer
that comes after the three seconds is taken for the next call's (excluded in
`AnswerIsOwn`); a pop of `send_fifo` that overlaps a push, or a push after the ring
went round, breaks the fifo (excluded in `FirstRoundIsFifo`, a conjunct of `FifoSound`); the last client of
the list is never unlinked; a full `recvDataQueue` drops data; heart beats that are
missed count however far apart they are.

**Bounds.** Registry: three connections and two ids, enough for holder, taker-over
and subscriber, and for a second device. Timer: three connections, so that a node
can be spliced or erased before, at and behind the walk; `Idle = 2`, a walk of at
most one second. Server: two connections, one id, `Idle = 0`, because liveness
allows no symmetry. C receiver: a ring of 8 with chunks of 4 and a
`command[]` of 2, so that of the bodies of 1, 3, 4 and 7 the first fits, the second
and third overrun the array, the third is the first that can fill the ring and the
last never fits it; eleven bytes of stream wrap both pointers and allow two whole
messages in one `recv()`; one lost connection, and the restart that the error of its
old socket causes. The server writes to a connection the client has left only before
it writes to the new one. C client: `heart_beat_max` is
2 instead of 3. `c_client` has two application threads with one call each, one
lost connection and no answer later than three seconds on a working connection;
answers to abandoned calls still occur, through restarts. `c_client_live` has one
thread, one call, one lost connection, one late answer.
`wire`: bytes with four values, a header of two, at most two messages each way,
read in pieces of one or four bytes, so that a header is split and two messages come
at once; one request longer than the server accepts; the Python queue holds one.
`py`: three connections, one loss, two calls, so a loss falls at every step of a
call and of a restart. `parts`: a buffer with two bytes of prepend and two of room
(it grows and moves), integers of one and two bytes; four threads with a call each on
a queue of one; a line of five characters; two workers; two pushers on a ring of two
with three pushes (the ring goes round); three clients; header values of three
characters. Two of the threads, workers, pushers and clients are interchangeable
(`PartsSymmetry`).

**Fairness.** Server: the base loop keeps calling `onTimer`; the I/O thread
finishes `onConnection` and `heartBeatFunc`; a half-closed connection eventually goes DOWN (strong
fairness: `forceCloseWithDelay`, the client or TCP closes it); an object nobody
points to is freed. `SilentIsReaped` needs one id per connection. C receiver: the
receive thread continues while `recv()` has something to return; `CatchesUp` excuses
a thread that is still on an old socket. C client: every
thread continues, and the server answers what reached it. A thread left on an old
socket comes off it, because that socket fails by TCP's own limits or because the
server closes it as idle. A time limit may run out early (while the answer is
about to be moved on) only `MaxLate` times; without this assumption `Recovers`
fails, since a client whose answers are always late restarts for ever. That a
connection attempt succeeds in the end is assumed as well. Wire: the server's event
loop and the receive thread keep reading what is there and finish their loops.
Python client: every thread continues, the receive thread stores the answers that
reach it, and a connection attempt that is made again and again succeeds (strong
fairness of `ConnectWorks`).

Deadlock is checked in every run but `wire`, `parts` and `py`, whose calls and
messages are bounded, so that behaviours end when the bounds are used up.

## 4. Proofs

All proofs are for arbitrary constants subject to the named assumptions. The type
invariants of the modules with proofs are conjuncts of the inductive invariants and
proved with them, so the runs do not repeat them.

**RegistryProofs.** `RegInv` = types, `RegistrationOwned`, `SendToJustified` and
`ClosedUnsubscribed`. The last is needed because a slot that is reused must not
find itself in somebody's list. It is inductive under arbitrary clients and gives
`RegTypeCorrect`, `RegistrationOwnedCorrect`, `SendToJustifiedCorrect` and
`NoSilentLossCorrect`. For one id per connection `OneIdInv` adds `RegistryExact`
and that holders are open. `RegistryExactCorrect`, `AliveExactCorrect`,
`DownUnregisteredCorrect` and `NoSelfRelayCorrect` assume `Delete \notin DeviceId`:
a device called "delete" would really break them.

**IdleTimerProofs.** `TimInv` = types, `ListExact`, `Lag` (an age exceeds the true
silence by at most one walk), `JumpFresh` (only a connection that beat during this
walk is set back), `Ordered` (the list is ordered by true silence, but for the
connection in `beating`) and `BeatFresh` (that one is silent no longer than any other,
so that the splice restores the order).
`NearlyOrdered` alone is not inductive: the jump sets a time back, and only
`JumpFresh` bounds by how much.

**P2PServerProofs.** `ServerImplementsRegistry` and `ServerImplementsIdleTimer` map
every step of the server to a step or a stutter of the part; `ServerSafe` carries
the parts' invariants over to the server.

**CReceiverProofs.** `RecvInv` = types, `Pointers` (the write pointer is `length`
ahead), `MessageEnds` (messages follow each other without a gap), `FramingExact`
and `LessThanOne` (when the parser has stopped, less than the message at the front is
left). `FullOnlyForLong` follows from the last: the ring is first too full for a
`recv()` behind a message of more than `N + 1 - Chunk - Header` bytes, which is
8192 + 1 - 4096 - 4 = 4093 in the code. Nothing is assumed about the lengths.

**BufferProofs.** `BufInv` says that the buffer is a record of a byte sequence and two
ordered indices inside it, and that the vector is never shorter than
`kCheapPrepend` (`retrieveAll` sets both indices there without looking). A lemma for
each method gives the content it leaves: for `makeSpace` the same content, grown or
moved. `BufIndices` and `BufAsserts` follow; `BufRefinement` shows that every call is
a step of `ByteQueue` with the readable bytes as the queue.

**BlockingQueueProofs.** `QueInv` = types, `OwnerExact` (the mutex is owned by exactly
the thread between lock and unlock), `HolderExact`, `NothingLost` and
`NoMissedWakeup`. The last needs the others: a put adds a value and must find a
sleeper to wake or none at all, and only the owner changes the queue. `QueueIsSound`
follows.

**ClientListProofs.** `ListInv` = types, `Linkage` (which nodes are linked at which
place of init and deinit, and that fds that are set are distinct and not above
`_g_fd_start`), `NoFreedNodeLinked` and `DataExact`. `find_stupid_p2p` then has one
match at most, which gives `LiveIsFound` and `DataIsOwners`, and `ListIsSound` with them.

**Only model-checked:** all liveness (`SilentIsReaped`, `ClosedIsFreed`, `CatchesUp`,
`CallsReturn`, `Recovers`, `EverythingArrives`, `Reconnects`, `DeinitEnds`), since the
prover does not handle fairness; `IntsReadBack` and the framing of `Wire` (what a
fold or a byte stream computes needs induction over data); `ClosedHeldByHalfClosed`,
`DeliveredInOrder`, `ClientTypeOK`, `AnswerIsOwn`, and the properties of `PyClient`,
`SendFifo`, `LogText`, `Singletons` and `HttpRequest`.

## 5. Not modelled

- muduo's internals that are not in the headers: event loop, poller, the race
  inside `shutdown()` called from `onTimer`, `Buffer::readFd`, the digits of numbers
  in `LogStream`, `parseRequest`. Headers that only declare (inspector, logging back
  end, thread pool, file utilities) have no code to model.
- `recv()` interrupted by a signal; two threads inside `stupid_p2p_recv_data`;
  failures of `malloc` in `need_to_send`.
- What a cancelled thread of the C client does with a client that was freed, and an
  application that uses an fd during or after its own `stupid_p2p_deinit`.
- `send_command_fifo_deinit` as a loop of pops; in `ClientList` it is one step.
- `deinitClient` of the Python client during a restart; several application threads
  of one Python client.
- A client together with `P2PServer`: after a reconnect neither client registers or
  subscribes again, so there is no step to compose; the old registration goes with
  the old connection (`DownUnregistered`).
- The tests and the user interface, logging.
