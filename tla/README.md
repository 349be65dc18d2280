# A verification of iuring

iuring is a C++ layer over liburing: an application submits accepts, connects,
sends, receives and closes, and polls a ring that calls it back when the kernel
has finished one. This directory holds TLA+ models of that layer, the TLC runs
that check them on small instances, and TLAPS proofs for every instance.

Paths in this document are relative to the repository (`src/IOUring.cpp`); in
`PROJECT.json` they carry the prefix `src/` of the checkout.

## The system

| Part | State | Operations | Talks to |
|---|---|---|---|
| Work item pool (`src/WorkPool.cpp`) | `m_work_items`, a vector indexed by id; `m_free_ids`, a stack | `alloc_*_work_item`, `get_work_item`, `free_work_item`, all under `m_mutex` | called by the ring; the id is the kernel's `user_data` |
| Work item (`src/WorkItem.hpp`, `.cpp`) | id, type, state, socket, callback, packet, message header | `submit`, `submit_packet`, `submit_stream_data`, `call_*_callback` | submits itself to the ring; runs the application's callback |
| Ring, submission (`src/IOUring.cpp:208-372`, `789-830`) | the submission queue | `get_sqe`, `submit`, `submit_all_requests`, `submit_accept/connect/recv/close`, `ackuire_send_workitem` | pool, kernel |
| Ring, completion (`src/IOUring.cpp:440-787`) | the completion queue | `poll_completion_queues`, dispatch by id and type | pool, kernel, callbacks |
| Provided buffers (`src/IOUring.cpp:136-189`) | `buf_ring`, 1024 buffers, half of them published | `setup_buffer_pool`, `recycle_buffer` | kernel takes, dispatch gives back |
| DNS resolver (`src/IOUring.cpp:833-957`) | `m_hostname_DNS_requests` | `resolve_hostname`, `trigger_hostname_resolve_callbacks` on a notification thread | handlers of the application |
| Sockets (`src/SocketImpl.cpp`) | type, kind, port, descriptor, multicast request | construction by type and kind or from an accepted connection, `send`, `mcast_bind`, joining and leaving groups | ring; the kernel's descriptors |
| Addresses (`IPAddress.hpp`, `.cpp`) | an IPv4 and an IPv6 socket address, one of them set | construction, ports, comparison, socket addresses for the kernel | sockets, items |
| Packets and messages (`SendPacket.hpp`, `ReceivedMessage.hpp`) | an array of 4096 bytes and its fill; a view of a received buffer | `append`, `reset`; reading | items, callbacks |
| Network adapter (`src/IOUringInterface.cpp`) | the addresses and the name it found | `init`: wait for an address, tune, ask for the host's name | `IOUring::init` |
| Feature probing (`src/ProbeUringFeatures.hpp`) | what the kernel says it supports | `supports`, asserted by `probe_features` | kernel |

What is hard here: the kernel completes requests in any order and knows an item
only by a number that is used again; callbacks submit further requests from
inside the dispatch; a multishot receive completes many times under one id;
every failure takes a different path through the dispatch (freed, submitted
again, dropped, or the process aborts); buffers travel from the ring to a
completion and back; descriptor numbers are given out again as soon as they are
closed; the library and the kernel share an array of buffers without a lock; and
the resolver calls back on another thread. The full
list, line by line, is under `hazards` in `PROJECT.json`.

What makes each part correct:

* pool: no id is shared by two live items, none is lost, a double free is
  caught, and the table grows only when it must;
* submission and dispatch: a completion reaches the item that made the request,
  once, and never an item that was released; everything but a multishot receive
  is on its way at most once; no submitted item is forgotten;
* buffers: each published buffer is in the ring or in one completion, however often
  the end of a stream recycles buffer 0 anew, until the array overflows with it;
* progress: what the kernel completed is handled, a close ends, an accept
  listens again;
* resolver: every handler is called once, on a stable list of requests;
* sockets: a request is about the file its socket was made for; a descriptor has
  one owner, unless it was let go of unclosed, and is then closed for nobody; a
  connection is served as a stream; a restarted server gets its port back;
* addresses and packets: what is connected to or answered is the host and port that
  were meant, a reply fits its packet;
* shared buffers: library and kernel see one queue, and a view is stable while the
  callback reads it;
* start: the adapter's address is its own, the wait for one ends, and a kernel that
  passed the probe but refuses a receive ends the process rather than being asked
  again for ever.

## Modules

`WorkPool` models the pool. Its variables have the names of the members; the top
of the stack is the head of `m_free_ids`, ids count from 0 as in the vector, and
`Slot(id)` is `m_work_items[id]`. A member of `Items` is the identity of a
`WorkItem` object and may be used again once nothing refers to the earlier
object. A failed assertion sets `aborted`. On its own (`PoolSpec`) it is driven
by any sequence of allocations and frees, double frees included, as in
`tests/test_workpool.cpp`.

`IdAllocator` is the abstract specification of the pool: unshared ids below the
largest number of items ever live together. `WorkPool` implements it with the
refinement mapping `live <- {<<id, Slot(id)>> ...}`, `peak <- Size`.

`IOUring` extends `WorkPool` with the ring, the kernel and the application.

* `queued[k]`, `sq_len` and `armed[k]` count an item's entries in the submission
  queue and its requests in the kernel; `cq` is the completion queue, whose
  entries also remember, for the properties only, the item that made the request.
* `submit(k)` has four outcomes: the kernel takes everything; `io_uring_submit`
  fails and the entry waits; the queue is full and is drained first; the queue
  is full and the process aborts.
* A step ends where the code calls the application. `EnterCallback` is the
  dispatch up to the callback, `frame` the item whose callback runs, and
  `AcceptReturns`, `RecvReturns` and `OnceReturns` the rest of the dispatch.
  Between the two, any action of `Application` may run (a callback that submits)
  and the kernel goes on. The completion is taken off the queue when the dispatch
  returns, as in `poll_completion_queues`.
* The paths without a callback are `PollDrops` (unknown id, `-ENOBUFS`),
  `FailureReleases` (send, connect), `FailureResubmits` (accept, interrupted or
  truncated receive) and `PollAborts`.
* The kernel is external: `KernelServes`, `KernelReceives` (which takes the next
  buffer, and may leave a multishot receive armed), `KernelFails` and
  `KernelEndsStream`. `Faults` says which of them a run allows.

`CompletionContract` is what a user of the ring relies on: per item, a callback
for each completion of its own request, one at a time, none after its release.
`IOUring` implements it (`ContractSpec`); a failed send or connect may be given
up without a callback there, because the code does so (see after the findings).

`DnsResolver` models `resolve_hostname` and the notification threads. The vector
`m_hostname_DNS_requests` is a sequence of `RequestInfo`; a call of
`resolve_hostname` is one step (an address, a name asked before, a new name), and
a notification thread makes one step for each element of its two loops, with the
end of a loop read when it begins, as a range-`for` does. Between two steps
anything may happen: other notification threads, the application's thread, and
the handler that was just called, which may ask for another name. Three things
follow the build rather than the text: a vector moves its elements when it
outgrows its capacity (`Capacity`, doubling), a thread that goes on in the storage
that was left finds moved-from elements or crashes, and the address of a freed
request may be handed out again (`Gaicbs`). `getaddrinfo_a` may refuse a lookup,
which the code does not notice. The string of the caller is taken to outlive the
lookup, and two threads are never inside `resolve_hostname` at once.

`IPAddress` translates the address class into operators on socket addresses whose
port is in network order: the constructors, `set_port`, `get_port`,
`data_sockaddr`, comparison, and what `WorkItem.cpp` makes of the address of an
accepted connection. `htons` is external and swaps two bytes.

`Sockets` extends it with the objects of `SocketImpl` and the kernel's tables.
`socket[o]` has the members of object `o`; `fd_table` maps descriptor numbers to
open files and `file` says what the kernel knows of one (what it is, its port, its
peer, its groups). A request resolves `get_fd()` to a file at the moment it is
submitted, as the kernel does, so a request submitted after a close may find
another file under the number; `own[o]`, the file `o` was made for, exists for the
properties only. Numbers that are free are used again, lowest first.

* Construction is a step for each system call, as another file may take the port in
  between: `create_socket`, `set_reuse_address`, `bind` (which fails for a port that
  is taken, for want of a privilege, and for an IPv6 type, whose address is one of
  IPv4), then `set_multicast_ttl` or `listen`. `making` is the object under
  construction; a call that fails ends the process (`Dies`), and
  the program does nothing else meanwhile.
* `AcceptReturns` is the constructor from an `AcceptResult` together with the accept
  that is submitted again. `AcceptResubmits` is the same without an object: the accept
  failed (`KernelRefuses`), or the callback let the result go. The address buffer of
  an accept item is whatever was in it before, as the kernel is given the length zero.
* A receive completes in two steps, `RecvCalls` and `RecvReturns`, between which the
  program may do anything to any socket (`hearing`); or in one, `RecvResubmits`, where
  the code submits it again without asking: a datagram that is not valid or was cut
  (`src/IOUring.cpp:562`, `569`, `580`), an interruption or a reset (`645`), all by
  way of line `722`, which reads the number of the descriptor again.
* `submit_connect` ends the process for a target of IPv6, by the assertion at
  `src/IOUring.cpp:280`.
* `Drop` is the end of the last reference to an object, whether it was closed or not,
  as `SocketImpl` has no destructor and `IOUring` may itself hold that reference (a
  failed connect, `src/IOUring.cpp:471-480` and `730`). The number of one that was not
  closed is `leaked`: open, and nobody's.

Completion order and work items are `IOUring`'s subject: here a request is served at
some moment and its completion handled at a later one, one at a time, and a datagram
receive is one request, though in the code each datagram adds one and a multishot
request outlives the answer `NONE` (finding `stale_multishot`). `Restart` is the fault
model: the process ends at any moment, the kernel closes its files, and remembers
connections on a port for a while, which is what `SO_REUSEADDR` is for.

`BufferQueue` is what the provided buffers promise, a queue of free buffers.
`BufferRing` is the array behind it: `setup_buffer_pool`, the two halves of
`recycle_buffer` (write the entry, publish it), between which the kernel may run,
and the kernel's own head; both counters wrap.

`SendPacket` is the packet of an item as the sequence of what was appended, with
the limit of `append`. `NetworkAdapter` is `NetworkAdapter::init`: the loop that
asks for addresses while the interface changes under it, tuning with its command
that may fail, the host's name.

`DatagramService` composes these four with the dispatch of datagrams: the start
(adapter, then `IOUring::init` with the ring, the probe and the buffers, each of
which may fail on a kernel that lacks something), then a receive that is submitted
for ever and callbacks that answer to the source. The probe asks for operations; a
receive that stays armed and buffer rings are not among them, so a kernel may pass it
and refuse the receive (`PollRefused`, `src/IOUring.cpp:624-650`) or have no buffers
to receive into. `IOUring` knows items and
callbacks; this module knows what they carry, the buffers, the views and packets,
addresses and lengths. It shows that the ring of buffers implements `BufferQueue`
with the mapping `free <- Offered, taken <- Taken`. The order of the start is the
one the library is made for; the programs under `tests/` do without the adapter.

`MCIOUring` adds the symmetry of `Items` for TLC, `MCDnsResolver` that of names and
addresses, `MCSockets` that of objects and files; `MCDatagramService` defines the
datagrams and the answers of `getifaddrs`. The modules whose names end in `_proofs` hold the proofs:
`WorkPool_proofs`, `IOUring_proofs` and, built on it, `IOUringBuffers_proofs` and
`IOUringContract_proofs`; `Sockets_proofs`; `BufferRing_proofs` and, built on it,
`DatagramService_proofs`; `DnsResolver_proofs`. Operators whose comment starts with "Mutant" are
variants of an operation with a plausible mistake; no specification uses them.

## Runs

| Run | Question | Bounds |
|---|---|---|
| `pool` | Are ids unshared, none lost, and is the pool an `IdAllocator`? | 4 items |
| `stream` | Does every completion reach its owner, and is no assertion of the pool or the dispatch reached, on stream sockets with all faults? | 3 items, 2 entries, 2 completions |
| `datagram` | The same with multishot receives that are submitted again, and is each buffer in one place? | 3 items, 3 requests per item, 3 completions, 1 published buffer |
| `contract` | Is `CompletionContract` kept, no item forgotten and no buffer lost when there is no `ENOBUFS`? | 2 items, all kinds of sockets |
| `progress` | Do closes end, are completions handled, does an accept listen again? | 2 items, no symmetry |
| `resolver` | Does a handler hear its own name, once, and are requests unshared, whatever moves or is reused? | 4 names, 5 calls, 2 addresses |
| `lookups_end` | Is a handler called that was added while the lookup was under way? | 2 names and an address, 4 calls |
| `sockets` | Does a request stay on its socket's file, has each descriptor one owner or none once it was let go of, are connections streams, do connects and leaves do what was asked, and is a port refused only by a listener? | 2 objects, 3 files, descriptors 3 and 4, 1 port |
| `service` | From the start on: is the shared array a queue, is a view stable, does the answer carry what came to where it came from, do buffers come back, does the wait of the start end, and is a kernel without multishot receives noticed? | 4 buffers, counters modulo 8, 2 send items, 3 datagrams, 2 receives, 3 completions |

Three items are enough for one to be freed, its id to be taken by a second and
the queue to hold a completion of a third; two entries of the submission queue
let one failed submission precede a full queue. `MaxOutstanding` bounds the
requests of a multishot receive (each datagram adds one, see the hazards) and
`MaxCq` the completion queue. `MaxRing` bounds the entries of the ring of buffers:
each end of a stream adds one for buffer 0, nothing else adds any, and above `BUFFERS`
they overwrite unread ones. In `contract` it is 6 with an array of 4, so the array does
overflow there (512 ends of streams in the code); what is left out is the wrap of the
16-bit tail by as many as 65,536 unread entries. The three appear only in guards of the
kernel's actions, and nothing else restrains the kernel. `BufferConservation` is exact
where no stream ends (`datagram`); where streams end (`contract`) it says that buffer 0
gains one entry for each end and no other buffer is lost or doubled, as long as the
entries fit into the array. Once they do not, buffers are lost and it says nothing.
Deadlock is not checked where a failure may abort the process; in
`progress` it is.

Four names are the least for `resolver`: an element that is appended while a thread
is in its loop stays in place only when it is the fourth (capacities are 1, 2, 4),
and only then could a thread meet the reused address of its own request. Two
addresses are enough for one to be freed and taken again while another lookup is
under way. `lookups_end` allows the two outcomes the code has beside the call of
the handler: a crash, and a vector that moved while the thread was looking for its
request, which then is never found (`LosesRequest`).

In `sockets` two objects are a listening socket and one connection, or two sockets
one of which is closed while the other is given its number. A third file lets a
connection arrive that no object has yet, two descriptors are the least that can be
used again while another is open, and run out. `Wanted` has all types and kinds but
two: clients of type `IPV4_UDP`, whose datagrams the multicast sockets have too, and
of `IPV6_TCP`, which go the way of `IPV4_TCP`. With all of it the run has 780,266
distinct states and takes under a minute.

The code reads `get_fd()` anew for each submission and looks nowhere whether the socket
was closed, so whether a request stays on its own file also depends on the program. The
program of `sockets` has this discipline, which the proofs name `CloseDiscipline`:

* a receive callback does not ask for more once the close of its socket was submitted
  (`LateAnswers = {"NONE"}`), as in `tests/ping.cpp:26-35`, which holds the only
  `submit_close` of the programs;
* a socket is not closed while a receive on it is on its way, but before one or in its
  callback (`ClosesMidReceive = FALSE`), as there. With `TRUE`, `RequestsOnOwnFile` is
  violated: a close is submitted, the number is used again for a new connection, the
  receive completes with a reset or a cut datagram, and is submitted again on the other
  connection without its callback being asked;
* nothing is asked of a socket after its close, and a listener is not closed while it
  accepts, nor a client while it connects: an accept would be submitted again on the
  closed number for ever, and nothing in the interface takes it back;
* one request of a kind for each socket; a join and a leave in turn.

Nothing is asked of the program about letting go of sockets: `DescriptorsOwned` then
says that a number without an owner was let go of unclosed, not that there is none.

In `service` the 16-bit counters are taken modulo 8 and the 1024 buffers are 4, of
which 2 are published: the counters wrap within a few datagrams, and 8 is a
multiple of 4 as 2^16 is of 1024. The datagrams are an empty one, the longest that
fits a buffer and one byte more; sizes are those of the code (4096 and the 144
bytes before the payload). The kernel has all operations or lacks one, buffer rings
or not, and receives that stay armed or not. `MaxArmed` bounds the receives: each datagram adds one in the code,
and from `MaxArmed` on the model stops counting. The interface is not followed any
further once the adapter has an address, as nothing asks again.

In `contract` and `progress` half of `BUFFERS` is at least `MaxCq`
where the ring must not run dry: every buffer taken sits in a completion, so the
kernel has no cause for `ENOBUFS`, as with the 512 published buffers of the code
and its queue of 128 completions.

Fairness (`LiveSpec`): the application's loop polls for ever and its callbacks
return (weak fairness of `Poll`), as in `tests/ping.cpp` and
`tests/echo_server.cpp`; the kernel finishes a close (strong fairness, because
the bound `MaxCq` may disable it for a while where the real kernel would keep
the completion aside). Nothing is assumed of connects, receives and sends. For the
resolver, a lookup that was accepted ends (the system's resolver has timeouts) and a
thread that was started runs; handlers return. In `service` the program polls in
a loop (weak fairness of `Poll`, whose callbacks return) and the start goes on (weak
fairness of the adapter's own steps, not of the interface's: it may change between
any two turns); nothing is assumed of the kernel or of arriving datagrams.

### Findings

Three runs end in a violation; each states what a comment, an assertion or the
README says.

* `stale_multishot`: a callback of a datagram receive answers `NONE`, the item is
  freed, but the multishot request is never cancelled. Its next completion
  carries an id that is by then another item's; for an item acquired for a send
  the dispatch reaches `assert(false)`. `CompletionReachesOwner` fails in the
  same way, which is why `StopSockets` contains no datagram socket in the passing
  runs.
* `eof_recycles`: the end of a stream selects no buffer, and buffer 0 is recycled
  all the same. Two later receives then share it, and what the callback prints
  may be overwritten while it prints.
* `first_handler`: the handler of the call that starts a lookup is not put into the
  list of its element, so only names that are asked for twice are ever answered.

Two more differences are part of the model and have no run of their own. The
callback of a send is "called once done" by `include/iuring/ISocket.hpp:58`, and is
not called when the send failed (`src/IOUring.cpp:461`); an accept is "tried again"
by the comment at `src/IOUring.cpp:705`, and is not after `-ENOBUFS`
(`src/IOUring.cpp:690`). `CompletionContract` therefore lets failed sends and
connects end without a callback, and `contract` runs without `ENOBUFS`.

## Proofs

`WorkPool_proofs!PoolInvariant`: in every state of `PoolSpec`, for any `Items`,
the types hold, the free stack is exactly the set of null slots without
repetition (`FreeStackExact`), and items in use and slots name each other
(`SlotsConsistent`). The conjunction is inductive as it stands: a popped index is
a null slot because the stack holds only those, a pushed one was not on the stack
because its slot was not null. The two operations are proved to keep it as lemmas
about a single step, for use in the proofs about the ring. The only assumption is
that `NULL` is not an item. `PoolTypesKept` and `SlotsNameTheirItems` state its
parts.

`WorkPool_proofs!PoolImplementsAllocator`: every behaviour of the pool is one of
`IdAllocator`. An allocation acquires an id nobody holds, by `FreeStackExact`; it
grows the table only when the free stack is empty, and then, because the stack is
exactly the null slots, the pairs of `live` are as many as the table is long
(`LiveCount`), so the table never exceeds the most items that were ever live at
once. A free gives one id back; a refused one stutters.

`IOUring_proofs` is about the whole ring, for any sets of items and sockets, any
faults, any sizes and bounds. It assumes `RingAssumption` (the kinds of sockets
are disjoint, the sizes are positive) and, in each theorem by name,
`NoStaleMultishot`: no callback of a datagram receive answers `NONE`. That
assumption is needed, as the finding `stale_multishot` shows.

* `CompletionsReachOwners`: an id that a queue or the kernel still knows leads to
  the item that made the request (`CompletionReachesOwner`);
* `AssertionsHold`: the assertions of the pool and `assert(false)` of the dispatch
  never fail (`NoAssertFails`);
* `RequestsOneAtATime`: only a multishot receive is on its way more than once
  (`OneRequestAtATime`);
* `RingTypeCorrect`: types, and a submission queue within its entries (`TypeOK`).

All four follow from `RingInvariant`, that `IInv` is inductive.
`CompletionReachesOwner` alone is not: a step that frees an item keeps it only if
nothing else of that item is on its way, which `OneTrace` says, and only if the
item that is freed is the one that completed, which `CompletionsOwned` and
`PoolInv` say together. `RequestsOwned` says that an acquired item which was not
sent has no request, so that sending it makes the first; `FrameOwnsHead` that the
completion the callback belongs to is still at the head of the queue when it
returns, so that the id freed then is that of the item whose callback ran. The
actions are grouped by what they do to an item (allocate, send, complete,
submit again, release, drop, nothing), with one lemma for each group; an action
is then an instance of one of them. `IInv` was checked with TLC as an invariant of
the bounds of `stream` and `datagram` before it was proved.

`Sockets_proofs` is about any number of objects, files, descriptors, ports and
groups. It assumes `SocketsAssumption` (`NULL` is none of the values, ports have 16
bits) and, by name, `CloseDiscipline`: a program closes a socket before a receive or
in the callback of one, and asks for no more there. Without it `RequestsOnOwnFile` is
false (see the bounds of `sockets`); that a receive may be submitted again without its
callback is part of what is proved about. The theorems are `RequestsStayOnTheirFiles`,
`DescriptorsHaveOneOwner`, `ConnectionsServedAsStreams`, `ConnectsReachTheirTarget`,
`LeavesSucceed` and `SocketTypesKept`, all from `SocketsInvariant`, and
`PortsRefusedByListeners` from it and `PortsShared`: every file that has a port shares
it, because the option is set before the port, in whatever order the constructions of
several sockets and the accepts of a listener come.

`RequestsOnOwnFile` speaks of requests that were submitted, and is not inductive:
the next one is about the file its number names now. `HoldersNameOwn` says that an
object which was not closed still finds its own file there. It survives a close by
somebody else because no two objects hold one number (`OwnFiles` and
`DescriptorsUnshared`), and an accepted connection because nobody has its file or
number before the callback (`ArrivalsNew`). `EachNamed` is the other half of
`DescriptorsOwned`: a number without an owner is one that was let go of, and of those
`LeakedIsNobodys` says that they stay open and are neither held nor on their way to a
callback, so no close of another object frees them. A receive that is submitted again
is about its own file because its socket still holds the number then:
`ClosedInCallback` says that a closed socket has a receive only while the callback of
that receive runs, and `HearingReceives` that such a one was served, so it is not
submitted again behind the program's back. `MakingIsNew` says that nothing was asked
of an object whose constructor is running. `ConnectsAreStreams` carries what a
connect was asked to the moment the kernel reads it, with `PortRoundTrip` (`htons`
is its own inverse on 16 bits). The four kinds of steps that only touch requests
are instances of one lemma, `RequestStep`, and joining, leaving and binding an
interface of `MembershipStep`.

`IOUringBuffers_proofs` goes on from `IInv`, under the same assumption.
`BuffersConserved` is `BufferConservation`: each published buffer is in the ring or
with one completion, with one more entry for buffer 0 for each end of a stream, and
this as long as the entries fit into the array (`RingSupplied` counts them). It needs to know which completions name a buffer: `NamesBuffer`
says that they are the receives that took one, and `CallsServed` that a callback runs
only for something received, for the end of a stream, or for a close. So each path of
the dispatch either recycles the buffer the completion names or is told of none; the
exception is the end of a stream, which recycles buffer 0 anew and so adds an entry
(finding `eof_recycles`); nothing in the model or the code keeps the kernel from ending
streams until the array overflows. Copies are
counted as elements of two sequences; `AppendCounts` and `TailCounts` say what adding
and taking one does to such a count, and `SameNumbers` is the step that moves a buffer
without losing it.

`NoneOrphaned` is `NotOrphaned`, under one more assumption, `NoEnobufs`: the kernel
has no `ENOBUFS` of its own, and as many buffers are published as completions can
wait. The second half is what the code has (512 and 128) and is used: a buffer that is
not in the ring is with a completion (`RingSupplied`), so while there is room for
another completion the ring is not empty (`NeverDry`). Without it the property is
false, as `-ENOBUFS` leaves an item without a request. The invariant beside it,
`Traced`, holds because each step that consumes a completion either submits the item
again, or frees it, or aborts the process.

`IOUringContract_proofs!RingKeepsContract`: every behaviour of the ring is one of
`CompletionContract`, where the kernel has no `ENOBUFS` of its own; no relation
between the sizes is assumed, as a receive that met an empty ring goes on being
pending, as far as the contract can see. The mapping gives each item a kind, a phase
and the number of its completions that are not passed on. A step of the ring concerns
one item (`Others`), and the proof first has one lemma for each action of the contract
in terms of that item, then shows which one each action of the ring is. That a request
completes while its item is pending with nothing done is `OneTrace`; that a callback
which returns is the one that was entered is `FrameOwnsHead`.

`BufferRing_proofs` is about the array of provided buffers, for any number of buffers
and any range of the counters that is a multiple of it (1024 and 2^16 in the code).
Entries are compared modulo the number of buffers and counters modulo their range;
division with remainder is derived there from the well-foundedness of the natural
numbers, and two facts about it carry the rest: a counter that moves by its whole
range names the same entry, and counters less than a length apart name different
ones. `TakesFirst`, `WriteIsHidden` and `PublishAppends` then say that the steps of
kernel and library are those of a queue, wrapping or not.

`DatagramService_proofs` is about any number of buffers, datagrams and send items. It
assumes what the constants of the code satisfy: a buffer has room for the header
(`Preamble <= BufferSize`), is not longer than a packet, and the counters' range is a
multiple of the number of buffers. `ServiceInvariant` says where each buffer is:
offered once (`OfferedOnce`) or named by one waiting completion (`NamedOnce`), never
both (`NamedIsNotOffered`). As those buffers are half of the entries, an entry is
always left to recycle one into, which `WriteIsHidden` asks for; and as the kernel
only writes what is offered, a buffer holds its completion's datagram until the
callback returned (`BuffersHold`). From it follow `ViewsAreStable`,
`EchoesAreFaithful`, `RepliesFit` (the largest payload, 4096 - 144 bytes, is below
the 4095 that `append` takes), `ServiceTypes` and `RingIsQueue`:
the shared array implements `BufferQueue`. `AddressesAreOwn` is about the adapter
alone and has an invariant of its own.

`DnsResolver_proofs` is about any names, request addresses and number of calls, and
assumes only that `NULL` and `"failed"` are no hosts. `HandlersCalledOnce`,
`HandlersHearOwn`, `RequestsOwned` and `ResolverTypes` follow from
`ResolverInvariant`. What could go wrong is that a thread looks for an address that
was freed and given to a later request. `FindsOwn` is what prevents it: an element
with the thread's address, within the end of the vector that the thread read when its
loop began, is the element of its own name, because a request that is made later is
appended behind that end. `Waiting` ties handlers to the thread: one that was called
is at a position the thread has passed (`Passed`), so it is not called again, and one
that is added during the walk is behind the end the loop over the handlers read.
`AnsweredOnce` and `AnswersOwnHost` say nothing of where handlers are, so neither is
inductive without these.

Each of the strengthened invariants was first checked with TLC as an invariant of the
runs' bounds.

Left to TLC: liveness (`CloseCompletes`, `CompletionsHandled`, `AcceptListensAgain`,
`AttachedAnswered`, `WaitEnds`, `BuffersReturn`, `OldKernelNoticed`), which the prover does not reach, and
the three findings. Every invariant and every refinement that a passing run checks is
also the statement of a theorem.

## Not modelled, and the plan

To come, in this order:

1. `IOUring` with callbacks that poll (the same completion handled twice) and with
   send callbacks that submit their own item.
2. The submission queue used by a resolver handler and the program's thread at once:
   the pool is locked, the ring is not.
3. `tests/echo_server.cpp` and `tests/ping.cpp` as clients of the contract, for which
   `RingKeepsContract` is then all that is needed of the ring.

Not modelled: text (parsing and formatting of addresses, the hash, logging, the
shell's output), which no property here is about; IPv6 sockets, which the
constructors refuse except for streams that connect; `get_my_mac_address`, a cached
read of a file; an `io_uring_submit` that takes only some of the entries, which leaves
the others in the queue as a failed one leaves all; the port of an accepted connection,
which `src/WorkItem.cpp:96-107` takes without converting it and nothing in the library
reads; `SendPacket::clean_proper`, which the library does not call; the
mocks of the tests. `tests/` and the scripts are used for how the library is
called.
