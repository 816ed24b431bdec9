# Verification of csocket

csocket (`src/`) is a small C++ library for exchanging messages over
non-blocking TCP sockets.  One thread owns a `socket_tcp_t`; it queues connect
and disconnect requests and messages, and calls `process()` again and again,
which connects, accepts, selects, reads and writes.  This directory holds TLA+
models of the parts that have state, the TLC configurations that check them on
small instances, and TLAPS proofs of what holds for every instance.

Every module is written from the code.  Much of the code is unfinished, and
the models keep it that way: the main differences between the code and its own
comments are runs that TLC must find violated, others are told below, and the
properties of the passing runs say what the code really achieves.

## 1. The system

| Component | State | Operations | Hard behaviour |
|---|---|---|---|
| Message list and queue (`c_message.h`) | the two links of every `message_node_t`, the sentinel `m_head`, `m_size` | `clear`, `push_back`, `pop_front`, `init`, `push`, `peek`, `pop` | links written through links; a node is constructed anew while others point at it; a queue nothing initialised |
| Message writer (`c_message-tcp.cpp`, write loop of `process`) | `m_current_msg`, `m_data`, two counts, the send queue of the connection | `init`, `write`, `send_msg`, the loop | partial, interrupted and failing sends; free of what is still pointed at; object reuse; spinning |
| Message reader (`c_message-tcp.cpp`, read loop of `process`) | `m_msg`, `m_data`, two counts, `m_state`, the caller's `m_message_read` | `init`, `read`, the loop | a frame cut anywhere; the state after a delivery; spinning |
| Socket creation (`s_create_socket`) | the descriptor table, `m_handle`, `m_status` | one call, up to six system calls per address | any system call fails; other threads take the number of a closed descriptor; resolver failure |
| `socket_tcp_t` (`c_socket-tcp.cpp`, `c_socket.h`) | the server socket, lists of free, secure and open connections, request lists | `open`, `close`, `connect`, `disconnect`, `process` (connect, select, accept, two loops over open connections), `send_msg`, `recv_msg` | objects move between lists along failure paths; arrays and sets without a bound check; stale and uninitialised handles; termination |
| Secure handshake | status flags of a connection | transitions in `process` lines 654-732 | no connection ever gets there |
| Address registry (`c_address.cpp`) | hash table of chains of nodes | `create`, `add`, `get`, `rem`, `destroy` | the table is not cleared; nodes unlinked in the middle of a chain and their memory used again |
| Library initialisation (`c_socket.cpp`) | `s_initialized`, the WinSock library | `attach`, `release` of every socket | the count is wrong after two attaches, or a start that fails |
| Network address (`c_netip.cpp`) | none, a value | serialise, deserialise, compare, print | byte order |
| Message memory (`c_message.h/.cpp`) | none | `alloc_msg`, `commit_msg`, `free_msg` are stubs | `send_secure_msg` follows the NULL of `alloc_msg` |
| Peer exchange | none | comments only | none |

How they interact: the user's calls fill `m_to_connect`, `m_to_disconnect` and
a connection's send queue.  `process()` turns connect requests into sockets
(`s_create_socket`), takes connection objects from the pool and puts them on
the secure list, calls `select()`, accepts one peer, and for every open
connection runs the read loop (`read()` fills a message, `push` on a queue of
received messages) and the write loop (`write()` sends the front of the send
queue, `free_msg`).  Everything is called in one thread; what interleaves with
it is the kernel, the peers, signals (EINTR), and other threads of the process
that open and close descriptors of their own.  The writer of one process and
the reader of another meet over the network.  The address registry and the
library's count stand beside all this: no code of `socket_tcp_t` calls the
registry yet, and every socket attaches to the library when it is constructed.

Three facts about the code shape the models.  No code gives the lists their
arrays or the pool its objects, so their sizes are constants.  Nothing is ever
pushed on `m_open_connections`, so `process()` never runs its read and write
loops; they are modelled as the code has them, in the modules of reader and
writer.  The loop over the open connections around them (line 617) does not move
on: were there one, `process()` would come back to the same connection with the
same descriptor sets and never return, so the modules let either loop be entered
again after it was left, whether or not its socket is ready then.  Nothing drains
`m_to_disconnect` or `m_secure_connections`.

What makes each part correct: the queue returns its messages, in order, each
once, and never its sentinel; the writer's bytes are whole payloads in order
and what it reports written is written; the reader delivers whole bodies and
loses nothing; `s_create_socket` leaves one socket or none and closes only its
own; the connection objects are conserved, each on the secure list has its own
socket and is left alone by what is done for the others, arrays are overrun only
where the caller's numbers do not fit, and the loops end; the two ends of a connection
agree on what a frame is; the registry is a map and follows no pointer to
memory it freed; the library is loaded while a socket exists.

## 2. Modules

| Module | Models | EXTENDS |
|---|---|---|
| `MessageList` | `message_node_t`, `message_queue_t` as operators on a record of links | |
| `MessageQueue` | one queue and its users | `MessageList` |
| `MessageListProofs` | lemmas about the operators of the list | `MessageList`, `TLAPS` |
| `MessageQueueProofs` | theorems about the queue | `MessageQueue`, `MessageListProofs` |
| `SocketResults` | `is_error` and the ways a loop over `send`/`recv` ends | |
| `MessageWriter` | `message_socket_writer`, `send_msg`, the write loop, the send buffer and the peer | `MessageList`, `SocketResults` |
| `MessageWriterProofs` | theorems about it | `MessageWriter`, `MessageListProofs` |
| `MessageReader` | `message_socket_reader`, the read loop, the stream and the peer | `SocketResults` |
| `MessageReaderProofs` | theorems about it | `MessageReader`, `TLAPS` |
| `SocketDescriptors` | the descriptor table, and all that one call of `s_create_socket` can do to it | |
| `SocketCreation` | abstract specification: each call is one step | `SocketDescriptors` |
| `CreateSocket` | `s_create_socket`, one step per system call | `SocketDescriptors` (and INSTANCE `SocketCreation`) |
| `CreateSocketProofs` | theorems about it | `CreateSocket`, `TLAPS` |
| `SocketTcp` | `socket_tcp_t`; creation is one step, by the operators of `SocketDescriptors` | `SocketDescriptors` |
| `SocketTcpProofs` | theorems about it | `SocketTcp`, `TLAPS` |
| `Channel` | abstract specification of one direction of a connection, as its two users see it | |
| `Link` | one direction of a connection: a writer, the network, a reader | (INSTANCE `MessageWriter`, `MessageReader`, `Channel`) |
| `LinkProofs` | theorems about it | `Link`, `TLAPS` (INSTANCE `MessageWriterProofs`, `MessageReaderProofs`) |
| `AddressMap` | abstract specification of the registry: a finite map | |
| `AddressRegistry` | `address_registry_imp_t`, the hash table | (INSTANCE `AddressMap`) |
| `AddressRegistryProofs` | theorems about it | `AddressRegistry`, `TLAPS` |
| `SocketInit` | `nsock_init` and the sockets that attach | |
| `MC...` | values of the constants for TLC | the module they name |

The map from definition to source lines is in `PROJECT.json`.  Definitions
introduced by "Faulty variant" are not part of any specification: each is a
plausible bug that shows one property can be broken.

### MessageList, MessageQueue

A queue is a record `[size, next, prev]`; `next` and `prev` are total functions
over all nodes, because `push_back` and `pop_front` write through whatever the
links point at.  `PushBack` and `PopFront` are the assignments of the code in
their order.  `MessageQueue` adds users that construct a message in memory they
own (`AllocMsg`, which relinks the node to itself), push it and pop.

The code's ring is wrong from the second push on: `m_prev` of the sentinel,
which `pop` follows, stays at the first message ever pushed.  Hence
`FrontIsFirstPushed` (true, and for the first pop it is what a queue owes its
users), and `FifoOrder` (violated: the first message comes out twice, the
second never).  `garbage` is what `m_size` held before the first call: zero
where `init()` ran, anything in `m_received_messages`, which nothing
initialises (`c_socket-tcp.cpp:395`).  On an initialised queue the sentinel is
never popped; on the other it is, and `OnlyMessagesReturned` says when: among
the first `garbage` nodes, and only before the first message.

### MessageWriter

`Write` is one turn of the loop at `c_socket-tcp.cpp:710`: `write()` with its
loop over `send()`, `free_msg`, and the decision to go on.  `SendLoops` gives
the ways the inner loop can end, as the units accepted and the last result
("all", "again", "intr", "zero", "error").  The peer drains the buffer and may
reset between any two turns.  `wire` records the units sent as `<<message,
index>>`; it has no counterpart in the code.

The message in progress survives its own completion: `m_current_msg` becomes
what `pop()` returned.  The next `write()` therefore sends a length of zero,
takes 0 for an error and closes a healthy connection, although
`c_message-tcp.h:41` calls -1 an error; so a connection sends one message, and
the passing properties say that this one is sent right, and that no healthy
connection is given up before it is (`HealthyUntilReported`).  `init()` keeps the message
in progress as well, so a reused object goes on with the old one
(`WrittenOnEveryConnection`, violated).  The memory of a first connection is
taken to be zeroed; nothing in the code initialises `m_current_msg`.

Other divergences from the code's comments are visible in the model and have
no run of their own: the loop frees a message only when `write()` returns 1, so
the last message of the queue is never freed; the message argument is null
while the message is only partly written and not null when it is written, the
opposite of what the header says; and 0, "socket cannot be written to anymore",
is not what a full buffer makes `write()` return, which is 1, so the loop calls
it again at once and spins until the peer reads.

### MessageReader

The same for `read()`.  `stream` holds the units of the frames the peer has
sent, of which `arrived` are here and `consumed` were handed out.  A unit is
`<<frame, index>>`; a frame is a size word, as many units as it counts, and `ExtraLen` units it does not count,
of which the frames of this library's writer have one word.  A message has
memory for a header and `MaxBody` units of body, and no frame names more.  `Stored`, `Sized` and `Advanced` are the parts of
`read()`: storing what `recv()` gave, the change from size word to body in the
same buffer, and the count, which an error leaves as it was.  `Offered` is
`m_message_read` or what `alloc_msg` gives.

`m_msg` is not reset after a delivery and its counts stay equal, so the next
`read()` with nothing there delivers the caller's next, empty message as
complete, and one with data there takes a zero-length receive for an error and
returns -1.  The passing properties are about the first message, which is
delivered whole and then left alone, and up to which -1 means that the
connection has ended (`HealthyUntilDelivered`).  The loop of `process()` drops the result of
`read()`: nothing ever closes a connection whose peer has ended.  On an error
`read()` forgets what it took in the same call, which `NoUnitLost` leaves aside.

The result for "no more data" is 1 instead of the header's 0, and the loop calls
`read()` again at once: a peer that is silent half way through a frame keeps
`process()` there for ever.  That nothing else does is
`ReadLoopEndsOrWaits`: with units left to take, or the connection ended, each
call of `read()` gets on, through deliveries, errors and interruptions, until the
loop is left.

### SocketDescriptors, SocketCreation, CreateSocket

A descriptor has a kind and an owner, a connection object or the rest of the
process (`World`).  `NewFds` is what the kernel gives next, the lowest number that is
free, if one is.  `CreateSocket` takes one step per system call, each with
its failure, per address of the resolver's answer; `World` opens (lowest number
first) and closes its own descriptors in between.  `CreateIsAtomic` maps it to
`SocketCreation` by hiding the socket in the making: the concrete steps before
the return are stutters, the return is the abstract step.  The abstract
outcomes (`CreateOutcomes`) show what a caller has to expect, among it: a
failure may leave in `m_handle` the number of a socket already closed, because
two of the failure paths do not reset it (lines 222 and 294), and after a
resolver failure the call works on descriptor 0, because `m_handle` starts as
NULL and the test is for -1.

Addresses that are not IPv4, or none at all, do not resolve.  `close()` of -1
does nothing.  The options tell connecting from listening, with the inverted
sense that line 234 has: `open()`, which asks for a listening socket, connects,
and a connect request makes a socket that listens.  `getsockname()` is nondeterministic where it is given
a socket and fails otherwise.

### SocketTcp

One action per operation and per step of `process()`: a turn of the connect
loop with its outcomes (`ConnectNext`, `ConnectDropped`, `ConnectTaken`,
`ConnectFaults`), `Select`, `Accept` or `AcceptNothing`, and the loops over open
connections.  Lists are sequences used from their end, as `pop_connection`
does.  `status` is the set of flags of `m_status`.  Peers connect to listening
sockets and give up at any time.

A write past the end of an array or of an `fd_set`, or a read through the NULL `m_conn`
of an address, leads to `pc = "fault"`, where the program stops, and `fault` says
what it was.  None of the pushes looks at `m_max` and `FD_SET` has no test, so
each has its fault: the secure list, `m_to_connect`, `m_to_disconnect`, the
caller's `failed_connections` (of which only the length matters: `failed`, and
`left`, what the caller had left in it), and the sets given to `select()`.  Until
`open()` sets it the server's handle is any number, since no constructor does;
`SetSize` stands for the numbers no set has room for.  `open()` may not resolve
its own name.

`ArraysHold` says for each fault which numbers did not fit, and thereby when
none can happen: the secure list needs room for the pool and no more, though
connects, failures and accepts fill it from all sides; the request list needs
room for the requests between two calls of `process()`, because each call drains
it; `failed_connections` for as many as were asked for, besides what was left in
it; and an `fd_set` for the descriptors of the process, once `open()` was called.
A disconnect request too many is permitted, as `m_to_disconnect` is never
drained, and so is an address without a connection.

`OthersUntouched` says that what is done for one connection leaves the others
alone: a connection to be secured is not overwritten on its list, keeps its
handle and flags, and keeps its sockets, whatever fails and whoever is accepted.
Descriptor 0 is excepted, which a name that does not resolve may close.  It says
nothing of `close()`, which by its comments (lines 451-453) closes all sockets and
frees all messages, and has no statements: after `open()` and `close()` the server
socket is still there, and no property says that this is right.

What the model shows besides its properties: `process()` follows `m_conn` of an address to connect
to, which nothing in the library sets, so a fresh address faults; nothing takes
a connection off the secure list; and after a failed `open()` the server's
handle can be the number of a closed descriptor that a later connection gets,
so that `process()` selects, and can accept, on that connection's socket; with
the pool empty a connect request is dropped without a word.

### Channel, Link

The sender's variables and actions are those of `MessageWriter`, the receiver's
those of `MessageReader`; a step of one end leaves the other as it is.
`Transfer` is the network: it drains the send buffer (`PeerReads`) and lets as
many units arrive.  Either end finds the connection ended on its own.  The
receiver's frames and stream are derived from the sender's wire: one frame for
each payload begun (`FramesBegun`, `Frames`, `Stream`), and `SenderIsPeer` says that with this the receiver behaves as
`MessageReader` alone, so that what the run `reader` shows of it holds here.
`WireIsStream` is what makes the derived stream the right one.

A payload is a header of two words and `m_size` units of body.  `read()` takes
one word and then `m_size` units, into the same buffer from its start.  So the
buffer delivered begins with the flags word, its user, who looks behind the
header, does not find the body there (`BodyArrives`, violated), and the last
word is not read, by this message or any other (`TailNeverRead`): the socket
stays readable for ever.

`Channel` says what all this amounts to for the two users, in three variables:
the messages queued, those reported written, and the contents delivered.
`ImplementsChannel` maps the link to it: `queued` is `pushed`, and `inbox` is the
buffers delivered with each unit in them read off the wire (`Sent`, `Inbox`).  So
the units delivered are units that were sent, the queue is the order, and every
split, interruption and lost connection is a stutter.  The abstract
specification is also the shortest account of what the code does not do: one
message is reported, one is delivered, without its first word, and after it the
reader's user is handed empty messages.  A report does not mean a delivery, nor
the other way round: either may come first, or alone.

### AddressMap, AddressRegistry

The map is what a user of `address_registry_t` sees: the answers of `add`, `get`
and `rem`, kept in `ret`.  The registry is a function `link` from places to
pointers, where a place is a bucket or the `m_next` of a node, as in the code a
pointer to a pointer; and a function `entry` whose domain is the nodes that are
allocated.  The loops over a chain are given by where they stop (`StopsAt`): a
place `p` reached from the bucket whose link leads to no node, or to a node at
which the loop breaks, with no such place before it.  A chain that were a ring
would have no such place, and the action would not be enabled; `LookupsEnd` says
that it never happens, to the lookups or to the walk by which `add` finds where
a node belongs, and that each stops at one place only.  A node that was freed stops the loop too, by a fault.

`create` gives the table any content: each bucket is null or `Wild`.  A lookup
that follows `Wild` is a fault, and `OnlyWildFaults` says that nothing else is:
no place leads to memory the registry freed.  `destroy` walks the whole table,
so that one bucket nobody cleared makes it fault.

The order of chains comes from `compare()` of a library outside the repository;
the model takes a relation (`Below`) and nothing depends on it but
`ChainSorted`.  `m_count` and `max_addresses` are written and not used.

### SocketInit

One action for `gCreateTcpBasedSocket` and one for `gDestroyTcpBasedSocket`,
which attach and release.  `attach()` counts the first socket only,
`release()` all of them.  With two sockets the first to go cleans the library up
under the other (`LoadedWhileUsed`, violated).  The count then goes below zero
and the library is never started again; the same happens after one
`WSAStartup()` that fails.

## 3. Runs

| Run | Question | Bounds | Result |
|---|---|---|---|
| `queue` | what does hold of a queue, initialised or not? | 3 messages, 5 pushes, counts 0, 1 and 2 at first | 2,740 states, holds |
| `queue_fifo` | are messages returned in order, once each? | same, count 0 | violated |
| `writer` | is the first payload sent right, is what is reported written, is -1 an error until then, does the loop end? | 3 messages of 4 units, a buffer of 3, 2 EINTR, 2 connections in turn | 15,370 states, holds |
| `writer_reuse` | is what is reported written on every connection? | 2 messages of 3 units, a buffer of 2 | violated |
| `reader` | is the first body delivered whole, is any unit lost, any message delivered twice, is -1 the end until then, what keeps the loop going? | 3 messages, words of 2 units, sizes 0, 1 and 3, 2 frames, 1 EINTR | 22,210 states, holds |
| `link` | do the two ends work together, are they a channel to their users, and is what has begun to arrive delivered? | 2 messages of 7 units, words of 2, a buffer of 3, 2 receive buffers, 1 EINTR at each end | 43,986 states, holds |
| `link_body` | is the body where its user looks? | same | violated |
| `create` | one socket or none, whatever fails? only its own closed? equal to one atomic step? | 2 connection objects, 3 descriptors, 0 or 2 addresses, 3 options | 186,138 states, holds |
| `create_unresolved` | does a resolver failure fail the call? | 0 or 1 address | violated |
| `tcp` | are the objects conserved, does each to be secured own its socket, is it watched and left alone by what is done for others, what overruns an array, does `process()` return? | a server and 2 objects, 3 descriptors, 4 addresses (one with a NULL `m_conn`, one whose connection has an address, one that does not resolve), 2 requests, 1 disconnect, a caller's list of 2 with 0, 1 or 2 left in it, sets of 3, 1 waiting peer, 1 `open()` | 803,714 states, holds |
| `registry` | is the hash table a map, are the chains sound, what can it fault on? | 4 ids, 2 end points, 4 nodes, 2 buckets with chains of up to 3 | 1,485 states up to the names of nodes, holds |
| `library_loaded` | is the library there while a socket is? | 2 sockets, 4 creations | violated |

Why the bounds are enough.  A send buffer smaller than a payload forces every
message through partial sends, and one signal interrupts at every place.  Three
queued messages are the first number for which the front, the back and a middle
differ; 5 pushes re-queue what was popped.  Bodies of 0, 1 and 3 units are the
empty one, one shorter and one longer than the size word, whose place in the
buffer they take; the second frame is what the state after a delivery meets.
Two addresses show the retry; three descriptors, two objects and the world's
own files show the table full and numbers reused.  With one object fewer than
requests and peers together the pool runs empty and refills through failures.
Three ids in one bucket are the fewest that give a node a neighbour on both
sides, and a second bucket shows that chains stay apart; four nodes for four ids
mean that memory is used again in every order.  A word of two units can be cut
in the middle, and a payload of seven through a buffer of three is under way at
both ends at once.  Connection objects are interchangeable in `create`, nodes in
`registry`, messages and buffers in `link_body`, hence their symmetry; the runs
with liveness use none.

Deadlock is not checked in `writer` and `library_loaded`, where messages or
creations run out, and in `tcp` and
`registry`, where a fault stops the program.

Runs marked "violated" check one property each, which states what a comment of
the code says; the finding in `PROJECT.json` quotes it.

### Fairness

`ReadLoopEndsOrWaits` assumes weak fairness of the
loop's turn alone: in a single-threaded program a loop that has been entered is
run.  Nothing is assumed of the peer, which may be silent for ever; a call on a
socket with nothing to give changes nothing and is a stuttering step of the
model, and the second half of the property is there for it.

`WriteLoopEnds` assumes the turn of the loop and that the peer reads what arrives
(`PeerFairness`).  The code does not guarantee that, and the assumption is part
of what the run says: without it the loop does not end, since a call with a full
buffer changes nothing and is repeated.

`ProcessReturns` assumes weak fairness of `process()` steps alone.  It is about the
program as it is, where no connection ever gets to the open list; the loops over
that list would not end.

`BegunIsDelivered` assumes that a loop that was entered is run and that the network
carries what it holds.  Nothing is assumed of what comes before: that either
side gets to its loop, or to it again.  With an open connection `process()` does not
return, and a receiver whose `select()` timed out never reads, so a message that
was only queued need not arrive.  What holds is that once the receiver has begun
the rest follows, because neither loop is left on an empty or a full buffer.
Neither end is assumed to lose the connection, or to keep it.

## 4. Proofs

Checked by TLAPS, for all values of the constants.

`MessageQueueProofs`
- `TypeCorrect`: every link of the queue leads to a node of it and the count is
  a natural number.  The type invariant is inductive as it stands, since
  `push_back` and `pop_front` only copy links.  It holds for any initial count.
- `FrontCorrect`: from the first push on the front is the first message ever
  pushed, and the sentinel is popped only for what the initial count claimed.
  The invariant behind it, `LinkShape`, is about links only.  Before the first
  push every node is linked to itself.  From then on `m_prev` of the sentinel is
  the first message; `m_next` of the sentinel and `m_prev` of every message lead
  to messages, so `push_back` writes no `m_prev` of the sentinel; and only the
  first message can have an `m_next` that leads to the sentinel, with an `m_prev`
  that leads to itself, so where `pop_front` does write the sentinel's `m_prev`
  it writes what is there.  The steps on links are lemmas of `MessageListProofs`
  (`Untouched` before the first push, `Pinned` after it), which the proof of the
  writer uses too.  `Counted` ties the count to the pushes and pops, which
  bounds how often an empty list is popped.

`MessageWriterProofs` (for any messages, payload and buffer sizes, numbers of
interrupts and connections)
- `PayloadCorrect`: `TypeOK`, `WireIsOnePayload` and `HealthyUntilReported`.  The
  invariant `WriterInv` says that the wire is the first `written` units of the
  payload `m_data` points at, that a message has been reported exactly when all of
  them are written, and that the front of the queue stays where the first push put
  it (`MessageListProofs`).  `SendLoopsShape` is all the proof knows of the loop
  over `send()`: never more than the rest or the room, and an error on a healthy
  socket only for a rest of nothing, which is where the second message dies.
- `ReportCorrect` (`ReportedIsWritten`) and `FreeCorrect` (`NoSendAfterFree`): on
  the first connection the message in progress is the first one queued, and only
  that is ever reported; it is freed when nothing of it is left to send.

`MessageReaderProofs` (for any messages, word and body sizes, frames and cuts of
the stream)
- `CountsCorrect` (`TypeOK`, `NoUnitLost`, `HealthyUntilDelivered`) and
  `DeliveryCorrect` (`FirstDeliveredWhole`, `DeliveredOnce`).  `ReaderInv` ties the
  position in the stream to the counts, the counts to what the buffer holds
  (`Holding`: unit `i` of the buffer is unit `i` of the stream, or `i` behind the
  size word), and a delivery to counts that are equal and a state that is "body",
  from which the reader never leaves.  `NoUnitLost` needs it for every state but
  after the end of the connection, where `read()` may have dropped units.
- `Sealed`, which the link needs: what the buffer holds was handed out by `recv()`
  before, and the memory of every other message is untouched, because the reader
  begins one message and stays with it.

`CreateSocketProofs` (for any number of connections, descriptors and addresses,
any order of failures, and whatever other threads open and close)
- `DescriptorsCorrect`: `TypeOK`, `FailureClosesAll` and `SuccessOwnsHandle`.  The
  invariant `CreateInv` says at each system call which descriptors the connection
  owns: none before `socket()`, the one in the handle from there to the test of
  the handle, and none for an object whose last call failed (`AtRest`).
- `ForeignCorrect` (`ForeignFdsKept`): where the name resolves, the handle is an
  own descriptor or -1 whenever it is closed.
- `AtomicCorrect` (`CreateIsAtomic`): with the socket in the making hidden, each
  system call before the return is a stutter, the return is one of the outcomes of
  `SocketCreation`, and what other threads do is the same there.  `AtReturn` is the
  further invariant it needs: the status and the kind of the socket at the test of
  the handle are those the options ask for.

`LinkProofs` (for any messages, word and body sizes, send buffer and interrupts)
- Each end behaves as its own module says: `SenderStep` shows that every step of
  the link is one of the writer or a stutter, so the invariants of
  `MessageWriterProofs` hold of it as they stand.  The lemmas `Same...` say that
  the instances of a module in the link and in its proofs are the same.
- `ReceiverCorrect` (`SenderIsPeer`): on a first connection only the first payload
  is ever sent, so the stream the receiver reads is empty or one frame
  (`StreamOk`).  The write that begins the payload maps to the peer's sending of
  the frame, every other write to a stutter, and what the network carries is what
  has left the send buffer (`SenderInv`), which is never more than was sent.
- `RefinesChannel` (`ImplementsChannel`): `LinkInv` joins the invariants of both
  ends and `Sealed` of `MessageReaderProofs`.  From it, `InboxOk`: what is delivered
  is the first message queued behind its first word, then empty messages only.
  Every step of the sender is a `Queue`, a `Report` or a stutter, as `reported`
  only ever grows to the first message; every step of the receiver leaves what was
  delivered as it was (`FirstDeliveredWhole`, on the wire that only grows) and
  adds at most one delivery, so it is a `Deliver`, a `DeliverEmpty` or a stutter.
- `EndsMeet`: `TypeOK` (the two ends' and the network's), `WireIsStream` and `TailNeverRead`.  The last is
  `ReadBound` of `MessageReaderProofs`, that `recv()` is asked for no more than the
  first size counts, with the one frame the stream holds.

`SocketTcpProofs` (for any number of connection objects, descriptors,
addresses and any array sizes)
- `TypeCorrect`: needs that what `CreateOutcomes` returns is a table, a handle
  and a result, and that the lowest free descriptor is a descriptor.
- `PoolCorrect`: free, secure and open list partition the connection objects.
  The lists change only through `Filed`, which moves the top of the free list to
  the secure list or back to the free list; a lemma about taking the last element
  of a list without repetition carries the proof, and the open list stays empty.
- `FaultsCorrect` (`ArraysHold`), without any assumption on the sizes.  Three
  invariants carry it.  `FaultStops`: a fault is final, so what was true when
  it happened stays true.  `RequestsFit`: the list of requests is no longer than
  the number made since `process()` was last entered, and what has failed plus what
  is still to be tried is no more than was left in the caller's list plus the
  room of `m_to_connect`, while the connect loop takes requests off.
  `HandlesFit`: every handle is -1 or a descriptor but for the server's before
  `open()`.  For the secure list the partition and a pigeonhole argument: it is
  shorter than the pool while an object is free.
- `SocketsCorrect`: `SecureOwnSocket` and `SecureIsWatched`.  What a call of
  `s_create_socket` does to the table is put in three lemmas, for the resolved
  and the unresolved name; only descriptor 0 can change hands, and only by a name
  that does not resolve.  That a free object owns nothing is what makes the
  socket of a new connection its only one.
- `OthersUntouchedCorrect` (`OthersUntouched`): a call of `s_create_socket` closes
  only sockets it opened itself, descriptor 0 apart (`SocketsKept`); the secure list
  only grows, at its end; and the connection a step writes to comes from the free
  list, which shares none with the secure list (`PoolConserved`).

`AddressRegistryProofs` (for any ids, hash, order and number of buckets and
nodes; assumed that there is a bucket and that null, the wild pointer, buckets
and nodes are different things)
- The places reached from a bucket are defined as a smallest closed set, and the
  lemmas `ReachLeast` to `ReachLinear` are what is known of it: it is closed,
  contained in every closed set, and two places reached from a third are reached
  one from the other.  `FindCorrect` says what a lookup finds: a place of the
  chain that leads to the node with the id, or to nothing, and then no node has it.
- `ChainsCorrect`: the inductive invariant `Inv` is `TypeOK`, `LinkedOnce`,
  `ChainOfItsHash` and `DestroyFreesAll`.  It needs `LinkedOnce`, because only where
  one link leads to a node does unlinking it leave no other, and the reached sets
  before and after an insertion or an unlinking are compared by exhibiting a
  closed set for each.
- `TypeCorrect` and `FaultsCorrect` follow from it.
- `RefinesMap`: the map read off the entries changes as `AddressMap` says.
  Needs `ChainOfItsHash`, for a lookup to find what is registered and for an id
  to have one end point.
- `LookupsCorrect` (`LookupsEnd`).  That a chain comes to an end would be an
  induction over the chain, with the number of nodes finite.  The invariant
  `NoRing` does without both: no set of allocated nodes has all its links lead
  back into it.  An insertion and an unlinking preserve it, by looking at the set
  without the node concerned; and if a walk did not stop, the nodes it reaches
  would be such a set.  That it stops at one place only is `ReachLinear`.
- `SortedCorrect` (`ChainSorted`) assumes of the external `compare()` that its
  answer -1 is a strict order, total or total but for ties (`WeakOrder`), and of
  the code nothing.  A node goes in front of the first one that is
  below it and behind one that is not, and unlinking joins two neighbours of one
  that was between them, which is where the order has to be transitive.

`MessageList`, `MessageQueue`, `MessageWriter`, `MessageReader`, `Link`, `CreateSocket`,
`SocketTcp`, `SocketDescriptors` and `AddressRegistry` state what the proofs need
of the constants in named assumptions that the runs evaluate.

Every safety property and every refinement of the passing runs is proved.  Only
model-checked are the liveness properties `WriteLoopEnds`, `ReadLoopEndsOrWaits`,
`BegunIsDelivered` and `ProcessReturns`, which are out of TLAPS's reach: they need
fairness and ENABLED, and a measure that decreases over data.

## 5. Not modelled

- The secure handshake, the test for a frozen connection and the pruning of
  closed connections (`process` lines 617-732 beyond the two loops, 745-755): no
  code puts a connection on the open list, so the program never runs them.
- Network addresses: values without state.  Their serialisation goes through
  readers and writers of another library, whose byte order this repository does
  not say; the rest is comparison of bytes and formatting.
- The stubs of message memory (`alloc_msg`, `commit_msg`, `free_msg` of
  `socket_tcp_t`), and `send_secure_msg`, which follows their NULL.
- Peer exchange, which is comments.
- What sets up the lists of connections and the pool: `connections_t` has no
  constructor and no code fills it, so `SocketTcp` begins where that is done.
- Sizes of buffers beyond what bodies need (`m_data_size`, which `read()` does
  not look at); an `alloc_msg` of the reader's caller that has no memory for even
  one message; memory for registry nodes that runs out.
- The blocking mode of an accepted socket, which nothing reads or writes.

Tests and build files hold no behaviour of the library.

## 6. Plan

1. If the library grows code that opens connections: the handshake, with
   `SocketTcp` extended by it.
2. If it comes to clear the reader's and writer's state after a message: the same
   properties for every message in place of the first, with the proofs' `data` and
   `frames[1]` generalised to the message in progress.
