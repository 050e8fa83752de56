# A TLA+ model of jnet-lib

jnet-lib is a C++ library for asynchronous I/O in the style of asio: a *service*
runs the callbacks of completed *operations* on the threads that call `run()`.
On Windows the service sits on an I/O completion port (`iocp_*`), on Linux on
epoll and a queue of its own (`epoll_*`).  Sockets, files, a resolver, SSL
streams, fibers and two HTTP servers are built on it.

This directory holds TLA+ modules of the library, the TLC configurations that
check them on small instances, and proofs checked by TLAPS.  `PROJECT.json`
links each definition to the lines of source it models.  Run a configuration
with `tlc -config X.cfg M`, a proof with `tlapm M.tla`; the module that goes
with each configuration is in the table of runs below.

## 1. The system

| part | files | state | operations | used by |
|---|---|---|---|---|
| service (Linux) | `epoll_service.*`, `iocp_operation.h` | `outstanding_work_`, `stopped_`, `nthread_`, `demultiplexing_thread_`, `events_`, the queue `completed_ops_`, `ready_` of each operation | `post`, `run`, `do_one`, `stop`, `work_started`, `work_finished`, `post_deferred_completion`, `on_completion` | everything |
| sockets (Linux) | `epoll_socket.*`, event masks in `epoll_service.cpp` | `in_op_`, `out_op_`, `event_.events` of each socket and the mask the kernel has | `begin_accept/connect/send/recv`, the `on_complete` of each operation, `wait_for_epollin/out`, `clear_epollin/out`, `close` | fibers, SSL, HTTP |
| files (Linux) | `epoll_file.*` | a list of entries, one event, one worker thread | `push`, `pop`, `file_thread_loop`; read, write and read-line operations | fibers |
| resolver | `iocp_resolver.*` | the same, with a stop flag used at exit | `asyn_resolve`, `resolve_thread_loop`, `stop` | HTTP client |
| locks, events, threads | `iocp_lock.h`, `iocp_thread.*` | a mutex, an auto-reset event, a thread that waits for `start()` | | all |
| service (Windows) | `iocp_service.*`, `iocp_socket.*`, `iocp_file.*` | the port, `ready_`, `completed_ops_`, `dispatch_required_` | the same interface | everything |
| fibers | `fiber_*` | `invoker_`, `free_flag_` of each fiber | `switch_to`, `yield`, blocking calls over the asynchronous ones | fiber HTTP |
| HTTP server | `http_server.*` | per connection `ref_`, `close_flag_`, `shutdown_flag_` | callbacks and `CheckAndDelete` | programs |
| SSL | `ssl_socket.*` | `input_flag_`, `output_flag_`, two buffers, the OpenSSL engine | `io_operation` | HTTP server |
| HTTP socket and parser | `http_socket.*`, `http_parser.*` | the parser's state and marks, the request being built, bytes left over | `asyn_receive_request`, six parser callbacks | fiber HTTP |
| fiber HTTP server | `fiber_http_server.*` | per connection `close_flag_`, `shutdown_flag_`; the acceptor's loop | `Recv`, `Send`, `Handshake`, `Shutdown`, `Close` | programs |

**How the parts interact.**  An operation is started by user code, on any
thread, and always counted first (`work_started`).  It then goes one of three
ways to `completed_ops_`: at once (a `post`, or I/O that completed
immediately), through epoll (the pointer is kept in the socket until the thread
that holds the demultiplexer role takes it out), or through a worker thread (file,
resolver).  Any thread inside `run()` pops it and calls `complete()`, which
either starts the same object again, because the I/O is not finished, or
calls the user back and deletes it.  `work_finished()` follows when the scope
ends.  The decrement that reaches zero stops the service: it queues a null
operation, the *interrupt*, which each thread that leaves puts back for the
next one.

**What is hard.**  Everything above happens on several threads with almost no
locks: a counter, two compare-and-swaps, one mutex around the queue.  The
correctness of `run()` hangs on the order of counting and queueing, on who may
touch an operation object, and on one interrupt token reaching every thread.
`PROJECT.json` lists the hazards at their lines.  What makes each part correct:

* service: the count balances; an operation has one owner and completes once
  per start; nobody leaves `run()` while work is left, everybody leaves after a
  stop; somebody always polls;
* sockets: an armed operation's event bit is in the kernel's mask, and a bit
  without an operation is not;
* files and resolver: each entry is processed once, in order, and no wake-up is lost;
* Windows service: exactly one of `do_one` and `on_pending` delivers a
  completion, and refused posts are delivered later;
* fibers: a fiber runs on one thread at a time and is freed only after it has
  been left; a wake-up that comes too early is not lost;
* HTTP server: a context is deleted once and only when no callback can come;
* SSL: one read and one write at a time on the transport, everything sent once and
  in order, and every operation calls back;
* HTTP: the program gets the same events however the stream cuts its bytes.

## 2. The modules

| module | what it is |
|---|---|
| `EpollService` | the Linux service: state, actions, safety and liveness properties |
| `CompletionPort` | the abstract service: what `run()` promises a program |
| `EpollServiceRefinement` | the mapping from `EpollService` to `CompletionPort` |
| `EpollServiceProofs` | theorems about `EpollService` and the refinement |
| `EpollReactor` | one socket: its two slots, its event mask, the kernel's mask, and the threads that change them |
| `EpollReactorProofs` | theorems about `EpollReactor` |
| `ConnectionContext` | one connection of the callback HTTP server and the threads that call it back |
| `ConnectionContextProofs` | theorems about `ConnectionContext` |
| `FileWorker`, `FileWorkerMC` | the worker threads of files and resolver with their list, and the rounds of reads, writes and lines; the files and programs for TLC |
| `IocpService`, `IocpServiceMC` | the Windows service: completion port, handshake on `ready_`, refused operations, the sockets' and files' operations; the programs for TLC |
| `FiberServer` | fibers on the threads of a service, their blocking calls, and the fiber web server |
| `SslSocket`, `SslSocketMC` | an SSL stream: four operations over one engine and one socket; a handshake for TLC |
| `HttpRequest`, `HttpRequestMC` | the HTTP socket and the parser it feeds; the byte streams for TLC |
| `FileWorkerProofs`, `IocpServiceProofs`, `FiberServerProofs`, `SslSocketProofs`, `HttpRequestProofs` | theorems about the modules they are named after |

The first two components divide the work at `do_one()`.  `EpollService` treats a
socket as a place where an operation waits until epoll reports it, so it takes
for granted that an event finds its operation and that no event is lost;
`EpollReactor` is about exactly that.  In return `EpollReactor` fixes one
thread as demultiplexer, which `OneDispatcher` of `EpollService` justifies
(the role stays with a thread until it leaves `run()`), and leaves out
`stopped_` and the interrupt.  `ConnectionContext` stands on both: it takes for granted
that each operation it starts is completed once, on any thread, which is what
`CompletionPort` promises.  So do `FileWorker` (its `completed` operations are called back by
`OnComplete`, one of the ways into `completed_ops_` of `EpollService`), `FiberServer`,
`SslSocket` and `HttpRequest`: each of them stands for one
object, or the few that share something, and takes the service below as given.
`IocpService` is the other build of that service.

### EpollService

`completed_ops` is the sequence `completed_ops_` with `Null` for the interrupt.
`place` says where an operation object is: known to its starter only, armed on a
socket, with a worker thread, taken out by the demultiplexer, queued, held by a
thread that popped it, or free.  The code has no such variable; it is the sum
of the pointers that refer to the object, and what `OneOwner` compares with the queue and
the threads.  `pc`, `cur`, `new` and `ret` are the threads' positions and locals:

| label | position in the code |
|---|---|
| `new`, `out` | outside `run()`, before the first call and after one |
| `stop`, `interrupt` | in `stop()`: before the compare-and-swap, before the append |
| `enter`, `leave` | top and end of `run()` |
| `claim`, `epoll`, `dispatch`, `detached` | first half of `do_one()`: claiming the role, `epoll_wait`, the loop over `events_`, an operation taken out of its socket |
| `wait`, `token`, `claimed` | second half: `completed_ops_.wait`, the interrupt popped, an operation popped |
| `callback`, `start` | in user code; between `work_started()` and the hand-over of the new operation |
| `finish` | the destructor of `on_exit`, about to call `work_finished()` |

One action is one atomic step: an interlocked instruction, a critical section of
the queue's mutex, a system call.  A callback may start operations and call
`stop()` any number of times before it returns.  `Restart` covers the operations that start themselves
again (EAGAIN, a partial transfer, the second stage of a connect).
`Outsiders` are threads that use the service without being inside `run()`.

The variable `usage`, chosen once among `Usages`, says when they do: `single`, all of it before the
first call of `run()`, once per thread (`tcp.cpp`, `file.cpp`, `ssl.cpp`); `rerun`, also between calls; `open`, at any
time.  The HTTP servers are `open`: `startHTTP()` leaves threads in `run()` (`http_server.cpp:157`), and
`startHTTPS()` posts an accept while they are there (line 170), likewise the fiber web server.

*Left out of the steps.*  The number of completions that `run()` returns.  The
lengths of the two timeouts: an `epoll_wait` may always come back empty and a
wait on an empty queue may always time out, so `nthread_` and the length of the queue, which only choose
between 0, 1 and 100 ms, do not change what can happen.  A timed wait that
expires while the queue has just been filled is the timeout taken just before
the append.  Bytes, error codes and the contents of events.  Sockets as such:
an operation that is armed may be reported at any time; masks are the
subject of `EpollReactor`.  A callback that never returns.
An operation that fails to be armed is in the same place as one that completed
immediately.

### EpollReactor

`slot[d]` says that `in_op_` or `out_op_` holds the operation of direction `d`,
`mask` is `event_.events` without the bits that never change, and `life[d]`
follows the operation: idle, armed in its slot, taken by the demultiplexer, queued, running.
The kernel (external) keeps `kmask` and `pend`: with `EPOLLET` a socket becomes
pending when something arrives for a direction in `kmask`, or when `epoll_ctl`
finds such a direction ready, and `epoll_wait` reports what is ready in `kmask`.

| label | position in the code |
|---|---|
| `callback` | in user code, which may start operations and close the socket |
| `count`, `flag` | in `begin_recv`/`begin_send`: after `set_in_op`, after `work_started` |
| `copy`, `apply` | in `epoll_ctl`: before the mask is copied, before it takes effect; `back` is where the caller goes on |
| `poll`, `take`, `clear`, `post` | the demultiplexer: `epoll_wait`, the exchange that empties the slot, `clear_epollin`/`out`, `post_deferred_completion` |
| `run`, `complete` | the timed wait on the queue, `on_complete` of an operation |

`epoll_ctl` is two steps because the kernel copies the structure, which lives in the socket and
is shared by all threads, before it takes the lock under which it changes the
registration.  `Duplex` says what the program does: `half`, one operation at a
time on the socket; `full`, a receive and a send together; `lone`, together only when one
thread is in `run()` (`Crews`, `MayOverlap`).  One socket is enough: two
sockets share no state here except the demultiplexer's loop, and a step
`OtherCallback` stands for the completions of everything else.

*Left out of the steps.*  Operations that complete at their first try
(`post_operation`, modelled in `EpollService`), the bytes, the error codes.  A
recv or send and the `set_in_op` or `set_out_op` after it are one step: what arrives in between is
not reported before the mask is set, like what arrives just after.
A program starts a direction only when it has no operation there.
An accept and a connect that succeed go the same way: an accept is a receive that finishes at its first event, a connect
a send that starts itself again once (`connect_op::on_ready`).  Their failures, where `ret` is read uninitialised, are left out.
After `close` the socket is not opened again, and the descriptor not used by another.

### ConnectionContext

`ref`, `close_flag`, `shutdown_flag` are the members of the same names, and
`deleted` says that `cbOnClosed` was called and the object deleted.  `pending`
holds the operations outstanding on the stream, each with the thread that
started it, so that an operation started twice counts twice.

| label | position in the code |
|---|---|
| `callback` | in the program's callback, or in `on_*` around it |
| `cas`, `count`, `issue` | in `Recv`, `Send`, `Handshake` or `Shutdown`, past `check_closed()`: before the compare-and-swap, before `sync_inc`, before the call of `asyn_*` |
| `dec`, `zero` | in `CheckAndDelete()`: before `sync_dec`, after it came to zero |
| `next` | an accept that was not rejected, about to start the next accept |

`op` is the operation a thread completes, `new` the one it starts, `back` where it
goes on afterwards.  `Kind` is `type_`; `Calls` is what the program calls in its callbacks, and
`MaxStarts` bounds how often.  The program keeps to one receive and one send at a time and
starts nothing on an SSL connection before its handshake, as the streams require.

*Left out of the steps.*  Buffers and error codes: a callback
gets them and its answer is free.  The flags tested in `CheckAndDelete()` are
read in one step, since nobody else writes them then (`LastIsAlone`).  A
connection that fails, and one whose stream was closed, complete like others.
Connections share nothing but the acceptor, so one is enough.

### CompletionPort and its refinement

An operation is idle, pending or running, a thread before, in or after `run()`, and the service
halted or not.  `Start`, `Begin`, `End` say: completions happen only inside `run()`, by one
thread each, once per start; `LeaveRun`: a thread leaves only a halted service, or because a system call
failed; `Ask`, `Drain`, `Halt`: the service halts because the program asked, or because a thread found no
work left.  Finding that and halting are two steps, and unless the program is `open` there is still no work at the second.
Operations map by `place`, runners by `cur`, `stopped = 1` is halted, and a caller in front of the
compare-and-swap of `stop()` has drained the service or was asked, by where it goes on.

### FileWorker

`head`, `tail` and `next` are the list, `entries` the entries that are allocated, `event` the
state of the auto-reset event, `worker` the thread.  `pending` repeats the
order of the pushes for `ListIsQueue`.  An operation (`op[c].at`) is *claimed* while its caller
starts the thread, then at *push*, *queued*, *working* and *done*, from where `OnComplete`
either puts it at *push* again for its next round or calls back.  `worker.at` is `asleep` before the
start, `wait`, `pop`, `work`, `ended`.

Files and names have workers of their own that never meet, so one behaviour is about one of them, as
the `Programs` say; only the resolver is stopped.  `KmpTable` and `FindEol` are the loops of the line-end
search, round by round, on a table as long as the one the code allocates; `LineTold` is what the caller may conclude from the answer,
said with `EolAt` and without a search.  It asks that the lines be right and that `eof` tell no byte in which a line
end begins.  It does not ask that `eof` come only at the end of the file, which is `EofEndsTheLines` and does not hold
(section 5).  The next call goes on where the last one left the file, or rewinds it.
A file's bytes are numbers, and a failed call leaves the position where it was.
*Left out of the steps*: open, close and seek; what a lookup finds; the buffer's
address.  *Assumed of the program*: one operation at a time on a file, line ends of two bytes or more (for one byte
`build_kmp_table()` writes behind its allocation, section 5), nothing resolved after `stop()`.  The timed join expires only when a lookup is under way.

### IocpService

| place | position in the code |
|---|---|
| `out`, `loop`, `dispatch`, `batch`, `wait` (`pc`) | outside `run()`; in `do_one()`: before `dispatch_required_`, at the lock, posting the list, in `GetQueuedCompletionStatus` |
| `got`, `interrupted`, `complete`, `callback`, `return`, `finish` | a packet taken; before `on_complete()`; in the callback, before and after it started something; about to call `work_finished()` |
| `resume` | in `send_op::on_complete` after the next part was started |
| `issue`, `pending`, `queue`, `defer`, `stop`, `interrupt` (`call`) | before the overlapped call, in `on_pending`, in `PostQueuedCompletionStatus`, waiting for `completed_ops_`, in `stop()` before its exchange and before its post |

An operation is a record of the fields the service uses (`ready`, `stored`) with two that say
what is so: `parts` that are left, and `truth`, the result of the last call.  The kernel
(external) may complete an operation from the moment the call is made.  The port refuses
posts while `scarce` holds.  `PostDeferredCompletion` keeps the stored result, `OnCompletion` stores one, as the code's
two functions do.
*Bounds in the guards*: a callback starts at most one operation, and `ServiceReset` comes with at most
one interrupt left over.  *Left out of the steps*: errors of the dequeue other than the timeout, the
wake-up key (which nobody posts), `read_line` and sends of several parts with two threads
(section 5), the bytes.

### FiberServer

`on[t]` is the context that thread `t` executes: itself, or a fiber.  `invoker` and `free_flag`
are the scheduler's fields, `target` the fiber a context switches to.  `pc` is `run` in a routine, `yield`
before the switch back, `asleep` after it, `switch` before the compare-and-swap, `inside` while the
other fiber runs, `refused` when it failed; `made` and `freed` bound the life of a fiber.  A call on a stream, a file or
an HTTP socket is the same three steps everywhere: start the operation, yield, and the completion that
switches back; `op` follows it.  Connections of the acceptor and outgoing ones
are fibers of their own.  *Left out*: calls that a fiber makes on an object of another, a second
`invoke()` after the routine has ended, results other than that of accept.

### SslSocket

The engine (external) is a state of how far handshake, reads and writes have come, with the pair of BIOs between it
and `inBuf`, `outBuf`.  Units on the wire name the record they belong to.  `op` holds the
operation of each of two lanes: the receive, and one other (handshake, then sends, then shutdown).
`op[l].pc` is `pending`, `engine`, `after` around the engine's call, `branch` on what it wants,
`receiving`, `sending`, `sent` in the socket below, `posted` for a handler that must not run inside its caller,
and `lost` for the return at the end of the branch that wants output and finds none.
The reads of the BIO before and after the engine's call are steps, since no lock is held (`cs_` is commented out);
one call of OpenSSL is one step.  `got` is what `SSL_read` has put into the program's buffers.
Records behind a close are in it though `ssl_socket.h:400` appends the bytes to the answer only when there is no error;
`InOrder` speaks of a start of the stream, so it holds with them and without.

### HttpRequest

A wire is a sequence of symbols, each one byte or a run the parser treats alike, so that
`"con", "nection"` can be cut in the middle without spelling it.  `NextByte` is the head of the loop, and each action
after it is a state (or a few alike) of `http_parser_execute`; `Leftover` delivers the marks at the end of a buffer, `Returned` is
`receive_callback` after the parser.  `p`, `mark`, `parser`, `op`, `request` are the code's own.
`HttpRequestMC` writes well-formed messages out from records that also give the events due, and broken ones by hand with
their error.  *Left out*: responses, methods and URL forms that the inputs do not contain, connections closed by the program.

## 3. The runs

| run | module | what it asks | instance |
|---|---|---|---|
| `service` | `EpollServiceRefinement` | `TypeOK`, `WorkAccounting`, `OneOwner`, `NothingDropped`, `OneDispatcher`, `OneInterrupt`, `ZeroIsFinal`, `ImplementsCompletionPort`, `StopReachesEveryThread`, `QueuedIsServed`, `DrainedServiceStops`, `PollingContinues` under `FairSpec`, with explicit stops and failing system calls | every usage; 2 threads, 1 outsider, 2 operations |
| `reactor` | `EpollReactor` | `TypeOK`, `MasksAgree`, `NoFatalError`, `CountedFirst`, `OneCompletion`, `ReadyIsServed` under `FairSpec`, `lone` | 2 threads with one operation at a time, or 1 thread with both directions |
| `fatal_event` | `EpollReactor` | expected violation, see section 5 | 2 threads, both directions |
| `connection` | `ConnectionContext` | `TypeOK`, `RefCounts`, `DeletedIsUnused`, `LastIsAlone`, `ContextGoes` under `FairSpec` | 3 threads, https, 3 operations started by the program |
| `shutdown_twice` | `ConnectionContext` | expected violation, see section 5 | 2 threads, https, 4 operations |
| `leftover_interrupt` | `EpollService` | expected violation, see section 5 | usage `rerun`, 1 thread, 1 outsider, 2 operations |
| `files` | `FileWorkerMC` | `ListIsQueue`, `ToldIsTrue`, `EveryCallReturns` under `FairSpec` | every file of up to 6 bytes over two letters with 3 line ends of 2 to 4 bytes, chunks of 4; 2 or 3 callers beside each other; the resolver with and without a stop |
| `early_eof` | `FileWorkerMC` | expected violation, see section 5 | one file of 5 bytes, chunks of 4, a buffer of 6 |
| `iocp` | `IocpServiceMC` | `CompletedAlone`, `WorkAccounting`, `OperationsComplete` under `FairSpec` | 2 threads and 1 operation or 1 thread and 2, one outsider, transfers of up to 2 parts, a port that refuses |
| `fibers` | `FiberServer` | `TypeOK`, `OneStack`, `CompletionFindsFiber`, `CallReturns` under `FairSpec` | 3 threads, the acceptor, 1 accepted and 1 outgoing connection, 2 calls each |
| `ssl` | `SslSocketMC` | `OneTransfer`, `InOrder`, `OperationsComplete` | a flight larger than the BIO, sends of 2 and 1 records, 2 records from the peer, a peer that ends anywhere |
| `http` | `HttpRequestMC` | `Delivered`, `ParserAsserts`, `AllReported`; also that nothing deadlocks | 42 streams, cut into 1, 2 or 5 symbols at every point, both modes |

**Bounds.**  Only the sets are bounded.  The counter needs no bound because each
piece of work is an object of `Ops`, and the queue holds each object and the
interrupt at most once.  Two threads are enough for a race on the role, the
counter or the token, two operations for a callback that starts one while another is
queued or armed, and an outsider for all that happens beside them.  The safety properties and the refinement of the
service are proved for any number of each.
`EpollReactor` is finite as it stands, since there are two directions and the mask,
the slots and the kernel's lists are sets over them; two threads are one that
arms while the other clears, and the proofs cover more.
`ConnectionContext` needs `MaxStarts`: with three starts a receive and a send can be
outstanding together and one be started again; three threads are the callbacks of both and
one to spare.  `https` is the kind with all the actions; the theorems cover the others.
In `FileWorker` six bytes and chunks of four let a line end lie within a round, at its end and
across two, with each possible partial match; three callers are one on the list, one pushing and one starting the thread.
In `IocpService` the race on `ready_` needs two parties and one operation; two operations with
one thread let a refused one wait beside another.  In `FiberServer` the third thread posts what the other two, switching and yielding, have
not finished; the acceptor's fiber meets one connection, since connections share nothing.
In `SslSocket` buffers of one unit and a BIO of two are smaller than a record or a flight, so every transfer
needs several rounds.  In `HttpRequest` each stream is one way through the parser; `LengthMod` is $2^{64}$ scaled to 256, and
`MaxHeader` the header limit in symbols.
The runs of `ConnectionContext` end when the connection is gone, and `service` does not look for deadlock since in usage `single` the program really ends.  The same holds of `fibers`, `ssl`, `iocp` and `files`: the fibers have ended, the stream was shut down or
waits for a silent peer, every thread has left `run()`, the resolver was stopped.  That nobody hangs before is what their liveness properties say.

**Fairness.**  Weak fairness of each thread's steps: a runnable thread is
scheduled, and every wait in `do_one()` is timed.  Weak fairness of the worker
thread.  Strong fairness of `Run` and `CallbackReturns`: a program that keeps
starting work is only now and then at the point where it could call `run()` or
return, and is assumed to do so eventually.  Nothing is assumed about epoll:
an event may never come, and `StartOperation` and `UserStop` are never obliged
to happen.  `SyscallFails` is part of a thread's steps, but its weak fairness
does not force a failure, since another step is enabled with it.
In `EpollReactor`, weak fairness of the demultiplexer's steps, of each thread's
steps in `begin_*`, `epoll_ctl` and `on_complete`, and strong fairness of `CallbackReturns`,
for the same reasons.  `ReadyIsServed` asks for progress only where the direction is ready,
so nothing is assumed about the peer.
In `ConnectionContext`, weak fairness of each thread's steps, of the return of callbacks
(the program starts only so many operations), and of the completion of
operations.  The last is an assumption about the stream.  On Linux it is not
kept by an operation that waits on a socket when it is closed (`Close` in
`EpollReactor`), nor by a peer that neither sends nor closes, and `ContextGoes`
then fails with it: a connection goes when its operations come back.
In `FileWorker`, weak fairness of callers that have begun, of the worker and of the service;
a blocking call returns.  In `IocpService`, weak fairness of calls and threads, of the kernel and of `Recover`, the end of a
shortage; without the last a refused operation may wait for ever.  In `FiberServer`, weak fairness of each
thread's scheduler, routine and dispatch steps; operations of the library may never complete, and
`CallReturns` speaks of completed ones.  In `SslSocket`, weak fairness of each lane and of the
peer's part of the handshake; the peer owes nothing else, so a receive may wait for it.

## 4. What is proved

`EpollServiceProofs` proves, for all finite sets of threads, outsiders and
operations and any set of usages (the named assumptions of `EpollService`):

| theorem | statement |
|---|---|
| `TypeCorrect` | `Spec => []TypeOK`; in particular the counter is never negative |
| `AccountingCorrect` | `Spec => []WorkAccounting` |
| `OwnershipCorrect` | `Spec => []OneOwner` |
| `NothingDroppedCorrect` | `Spec => []NothingDropped` |
| `ZeroIsFinalCorrect` | `Spec => []ZeroIsFinal` |
| `OneDispatcherCorrect` | `Spec => []OneDispatcher` |
| `OneInterruptCorrect` | `Spec => []OneInterrupt` |
| `Implementation` | `Spec => ImplementsCompletionPort`, in every usage |

The inductive invariant is `ServiceInv == StateShape /\ Ownership /\
WorkAccounting`.  `StateShape` types the counter as an integer; that it is a
natural number only follows from the accounting.  The accounting is not
inductive by itself: a thread at `finish` decrements for an operation it has
already deleted, and a thread that restarts an operation moves it back among the pending ones,
so that each step needs to know in which place the operation it handles is.
`Ownership` says just that, from the label of each thread and for the queue
(`QueueingKeepsQueue`, `PoppingKeepsQueue` and `InterruptKeepsQueue` are the
lemmas on appending and popping without duplicates), and that nothing queued has
`ready_` clear.  `AccountingStep` then follows the cardinalities of `Pending` and
`Owing` through each action.

Two more invariants rest on it.  For `ZeroIsFinal`, a caller that is on its way
to `stop()` because of a zero has no pending work behind it: work can only be
started by a thread in a callback, which is itself counted, or by an outsider,
which the usages other than `open` keep out (`ZeroMeansIdle`, `ZeroStays`, `StoppingStep`).  For
`OneDispatcher`, a thread that polls or dispatches holds the role, and only the
dispatching thread takes operations off their sockets (`DispatchStep`).

`OneInterrupt` counts the nulls in the queue and the callers at `interrupt` or
`token`.  `InterruptStep` shows that each action moves one from here to there:
the compare-and-swap of `stop()` makes the first, a pop and the append that
answers it keep the sum, and nothing else touches a null because no operation is one.

The refinement is proved step by step.  `MappingInv` says what the mapped state
needs beyond `ServiceInv`: a held operation has a thread that completes it and
is nowhere else (`HeldStep`), a call of `stop()` from a thread returns into `run()` or its callback, and a thread leaves `run()` for a reason.
Then each action is a step of `CompletionPort` or a stutter: `MappedStart`, `MappedAsk`, `MappedStop`, `MappedPop`, `MappedEnd`,
`MappedRun`, `MappedFinish`, `MappedLeave`, and `MappedRest` for all the others.  `MappedRun` and `MappedFinish` are where the counter
matters: a zero that a thread reads means by the accounting that no operation is pending or running (`ZeroMeansIdle`).  `MappedStop` needs
that it still means so when the thread gets to `stop()`, which is `StoppingOnZero`, and in usage `open` nothing is claimed there.
There is no hypothesis on the usage, explicit stops and failing system calls are allowed.  The proof includes no liveness because
`CompletionPort` promises none.

`EpollReactorProofs` proves, for any set of threads that contains the
demultiplexer:

| theorem | statement |
|---|---|
| `ReactorTypeCorrect` | `Spec => []TypeOK`, for every value of `Duplex` |
| `MasksCorrect` | `CarefulDuplex` implies `Spec => []MasksAgree` |
| `NoFatalErrorCorrect` | `CarefulDuplex` implies `Spec => []NoFatalError` |
| `OneCompletionCorrect` | `CarefulDuplex` implies `Spec => []OneCompletion` |
| `CountedFirstCorrect` | `CarefulDuplex` implies `Spec => []CountedFirst` |

`CarefulDuplex == Duplex = "full" => Threads = {Demux}` lets a program do anything but use both directions while
several threads are in `run()`: `half` and `lone` satisfy it, and so does `full` with one thread.  It cannot be
dropped from `NoFatalErrorCorrect`: that is what `fatal_event` shows.  Whether the demultiplexer is alone
never changes (`AloneStays`), so there are two inductive invariants.

Among several threads there is one operation at a time, and `HalfInv` names who has it
(`Hands`: the thread that arms it, the demultiplexer, or the thread that
completes it), what an event to be dispatched implies (`EventsMatch`), and what the masks are in
each of these situations (`OpenSocket`): while an operation is being armed the
kernel watches nothing, while its bit is being cleared it is the only bit, and
otherwise the masks and the slots agree.  The steps that need an argument
have a lemma each; the others follow at once in `HalfStep`.

Alone, the demultiplexer has the masks to itself but they may hold two bits, so `LoneInv` says by how much each differs from the slots:
by the operation that is being armed (`ArmingOk`) or by the one that was taken (`TakenOk`), and the events still to be
dispatched all have an operation that waits.  A close cannot come in between, since it is made in a callback.

`CountedFirst`
needs one fact more (`Counted`): an operation is counted, or some
thread is about to count it and then nobody can take it yet (`Handled`, which both invariants imply).

`ConnectionContextProofs` proves, for any finite set of threads, every kind of
connection and any bound:

| theorem | statement |
|---|---|
| `RefCountCorrect` | `"shutdown" \notin Calls` implies `Spec => []RefCounts` |
| `DeletedIsUnusedCorrect` | `"shutdown" \notin Calls` implies `Spec => []DeletedIsUnused` |
| `LastIsAloneCorrect` | `"shutdown" \notin Calls` implies `Spec => []LastIsAlone` |
| `TypeCorrect` | `"shutdown" \notin Calls` implies `Spec => []TypeOK` |
| `AssertCorrect` | `"shutdown" \notin Calls` implies `Spec => []AssertHolds` |

The assumption is that the program leaves `Shutdown()` to the library, and
`shutdown_twice` shows why it is there.  The three properties prove each other: that a
zero means nobody is left follows from the count (`ZeroIsAlone`), and the
count is kept (`CountStep`) because whoever starts an operation either still
holds one, or is the last and alone (`AloneStep`).  `FirstIsAlone` and `StartsAreNew`
add what makes `pending` grow by one when an operation is started, and
that the library's own shutdown never finds its flag set.
That `ref` is never negative (`TypeCorrect`) and that the assertion in `CheckAndDelete()` holds
(`AssertCorrect`) follow from the count.  Without the hypothesis the assertion fails, which is the expected violation `shutdown_twice`.

`FiberServerProofs` proves, for any sets of threads, accepted and outgoing connections and any bound on the calls:

| theorem | statement |
|---|---|
| `FiberTypeCorrect` | `Spec => []TypeOK` |
| `OneStackCorrect` | `Spec => []OneStack` |
| `CompletionFindsFiberCorrect` | `Spec => []CompletionFindsFiber` |

`invoker` and the target of a switch are two ends of one link: `Invoked` says what a fiber with or without an
invoker may be doing, `Invoking` that a context `inside` is the invoker of its target.  Only the acceptor's fiber
switches to another (`Nesting`), so a thread executes its own context, a fiber it switched to, or one that the
acceptor switched to on this thread (`Executing`); none of the four is inductive without the others.  `OneCompletion`
adds that at most one completion is on its way to a fiber, queued or with a thread that is about to switch, and `Alive`
that a fiber which may run without one has its object.  That a thread which finds the fiber still in
`yield` fails in its compare-and-swap and tries again is what keeps `OneStack`.

`IocpServiceProofs` proves, for any sets of callers, threads and operations, with a port that may refuse at any time:

| theorem | statement |
|---|---|
| `WorkAccountingCorrect` | `Spec => []WorkAccounting` |
| `CompletedAloneCorrect` | `Spec => []CompletedAlone` |

Every operation alive has one *bearer* (`OneBearer`): a call that has not gone
through, the kernel, a packet in the port, a list of refused ones, or a thread.  A
starter that has not yet come to `on_pending()` stands beside it, and `Handshake` says
how `ready` and the stored result tell which of the two comes second and delivers.
`Untouched` is the part of an operation that a step leaves alone, and `UntouchedStays` keeps its
bearer, so that each step is only about the operation it handles.

`FileWorkerProofs` proves, for any finite set of callers, any sizes and any programs with line ends of two bytes or more:

| theorem | statement |
|---|---|
| `ListIsQueueCorrect` | `Spec => []ListIsQueue` |
| `ToldIsTrueCorrect` | `Spec => []ToldIsTrue` |
| `KmpTableIsRight` | for every word of two bytes or more the loop of `build_kmp_table()` ends with the longest borders, in the entries it has allocated |
| `FindEolIsRight` | for every text and such a word `find_eol()` ends with the first place, or the longest start at the end |

`Pointers` says where `head`, `tail` and each `next` point in terms of `pending`; `Stations` where each
operation and the thread are, `Started` and `Stopped` what the flags imply.  `ListIsQueue` is about the walk along the pointers, a recursive function:
`OneWalk` shows that it is the only one, `WalkPlaces` that its n-th step is at the n-th call, both
by the least counterexample (`LeastElement`, from the library's theorem that `<` on `Nat` is well-founded).
This is the form that induction takes in these proofs.

`ToldIsTrue` rests on the search for the line end.  `Building` is the invariant of the loop that makes the table: the entries written
so far are the longest borders, and the candidate `cnd` is one.  `Searching` is that of the search: the matched bytes are a start of the
word, and every earlier place is `Refuted`.  `LoopGetsOn` bounds both loops by twice the length of
what they read, so the code's loops end, and so do the model's, which have that many rounds.  `ChunkSearched` then says
what the answer about a chunk means in terms of the file (`EolAt`, `Partial`).  `Rounds` carries this over the rounds of one reader: each round
behind it ended in a chunk that held neither a line end nor, at its end, the start of one (`Round`, `TransferInv`).  What is told in `OnComplete` follows
for each kind of call (`LineTells`, `ReadTells`, `WriteTells`): of an `eof`, that no line end begins in what it tells, not that the file ends there, and `TransferStep` takes the other
actions, which leave all this alone.

`SslSocketProofs` proves, for any handshake, any sizes of records and buffers and any sends:

| theorem | statement |
|---|---|
| `OneTransferCorrect` | `Spec => []OneTransfer` |
| `InOrderCorrect` | `Spec => []InOrder` |

`SslInv` says which operation may want what (`Wanted`) and that receives
begin behind the handshake (`Phases`), so that only a receive, or before it the handshake, reads from the
socket, and only the other lane writes.  `Answers` is what it needs of the engine: a call that wants to write has filled the BIO, so that there
is something to send.  For the handshake this is an argument about the maximum of the
steps that fit (`MaxIsGreatest`, `CountNext`).  `Moved` is what a place must satisfy for an operation
to go there, and each action goes to such a place.

`InOrder` needs two more invariants.  `OutInv`: what the peer got, what is under way and what the BIO
holds make up exactly what the engine has made (`OutLine`), until the connection is reset.  This is inductive only because the output BIO is empty whenever a
call of the sending lane begins (`QuietAt`): then a flight, a record or the alert follows what was sent before, and a record, which is no larger than the BIO, is never
written in part (`Stages`).  The exception is an operation that failed with an SSL error, which is never followed by another.
`InInv` counts: each unit in the input BIO, the input buffer or on its way stands at its position of the peer's stream, which is what the engine has consumed plus its place in line
(`Line`, `Right`); so the unit that completes a record names the record that is due (`RecordDue`, from `LastOfRecord` and
`Product`), and an alert or a broken unit is the last that comes (`LastUnit`).  `RecordsJoined` is about `FlattenSeq`, a recursive function of the library:
that it exists and is unique for any number of records is shown by the least counterexample again.

`HttpRequestProofs` proves, for any streams, cuts and limits:

| theorem | statement |
|---|---|
| `ParserAssertsCorrect` | `Spec => []ParserAsserts` |
| `UrlIsWholeCorrect` | `Spec => []UrlIsWhole`: the URL handed on is one run of the wire from behind a space to the next space or line end |
| `NothingSkippedCorrect` | `Spec => []NothingSkipped`: the buffer is the end of what was delivered, and more is read only when it is used up |

`ParserInv` relates the parser's state to the rest: a mark is set only in the states that read its piece
(`MarksFit`), a body has a length other than the one that stands for none (`LengthKnown`), the bytes of a chunk
size are counted from its first one on (`Counted`), a header's value is not read in a state of the header that needs a look
at it (`HeaderKnown`), and nothing is parsed behind an error (`Running`).  The
lemmas follow `http_parser_execute` state by state, with the
common endings in `StepsTo`, `StepsPlain`, `Fails`.  `LengthMod > 16` is assumed, so that a hexadecimal digit fits; the
code has $2^{64}$.

`UrlIsWhole` is the part of `Delivered` that can be said of all bytes, without an answer given beforehand.
Its invariant `UrlInv` has four parts.  `NothingSkipped` ties the
buffer to the wire.  `Pausing` says that a mark lies within what was read and that a run ends without a pause or an error only with the buffer used up.  `UrlKept`
goes by groups of states: before the URL nothing is stored, inside it (`UrlStates`) the bytes stored so far and
those from the mark on are one run of the wire behind a space, with no end of a URL in it (`Gathering`), and behind it the stored
URL is whole.  A cut inside the URL stores the first piece, and the next buffer continues where it ended (`TwoPieces`, `PieceOfPiece`, `UrlJoined`).  `Fine`
says that what was already handed on is whole.  `UrlByte` is the fact about the grammar: a byte that
`parse_url_char` accepts ends no URL.  Most steps do not touch the URL; `Quiet` says what such a step keeps, with one lemma for each way it can end
(`QuietStep`, `QuietError`, `QuietComplete`, `QuietData`, `QuietBegin`).

**Only model-checked.**  Liveness (`StopReachesEveryThread`, `QueuedIsServed`, `DrainedServiceStops`,
`PollingContinues`, `ReadyIsServed`, `ContextGoes`, `CallReturns`, `EveryCallReturns`, `OperationsComplete`): it
rests on fairness, which is out of the prover's reach.  `Delivered`
and `AllReported` of `HttpRequest`, which compare what was handed on with the answers that `HttpRequestMC` writes beside its
streams: nothing says what the answer to another stream would be, short of a second parser, so they have no meaning for all
values of the constants.  `UrlIsWhole` and `NothingSkipped` are what can be said of all streams.

## 5. What the code does otherwise than it says

`leftover_interrupt`: the comment in `do_one()` says that the test of
`stopped_` makes sure that leftover interrupts of a previous `run()` are
ignored.  `stopped_` is set once and never reset, and each thread that leaves
puts the interrupt back, so a second `run()` pops it and returns with the newly started work
undone.  (asio, where the comment comes from, has a `reset()`.)
In usage `single`, that of `tcp.cpp`, `file.cpp` and `ssl.cpp`, this does not show.

`early_eof`: the comment at `epoll_file.cpp:548` calls the branch of `read_line` that tells `eof` "normal eof" and
"eof with no error".  A chunk that ends in the first bytes of a line end is kept but for these bytes, which the next round is to
read again (line 539).  The condition of the branch then compares what was kept with `max_read_buffer_size`, and a full chunk
that was cut looks like the short last one.  The caller is told `eof` in front of a line end, with room in its buffer and more
lines behind.  `src/file.cpp:18` closes the file on any error code.  A line end is thus never found across two chunks by one call; a
caller that goes on after `eof` gets it with the next, and loses no byte, which is what `LineTold` says and
`ToldIsTrueCorrect` proves.  `iocp_file.cpp:356` has the same comparison.

`fatal_event`: `do_one()` prints "in fatal error" when an event comes without an
operation.  With a receive and a send outstanding and two threads this can
happen.  One thread starts a send: it sets `EPOLLOUT` in `event_.events` and
enters `epoll_ctl`, which copies a mask with both bits.  The demultiplexer takes the
receive, clears `EPOLLIN`, and its `epoll_ctl` is applied first.  Then the
older copy is applied, the kernel watches both directions again, and the next
byte is reported for an empty `in_op_`.  If that event carries `EPOLLERR`, the
line before writes through the null pointer.  `reactor` and the theorems show that one
thread in `run()`, or one operation at a time, is safe.

`shutdown_twice`: in `ConnectionContext::Shutdown()` the test of
`shutdown_flag_` has no braces, so it guards the count only and not the
`asyn_shutdown()` after it.  When callbacks of a receive and a send run on two threads and
both call `Shutdown()` before either has set the flag, two
shutdowns are started and one is counted.  `ref_` reaches zero with a shutdown
outstanding, the context is deleted, and the completion that comes later counts below zero,
which `assert(ret >= 0)` in `CheckAndDelete()` denies (and reads a deleted object to find out).

Other places where the code does something a reader would not expect, met while modelling.  The
modules follow the code wherever it is in them; where it is not, the last word says so.

* `epoll_file.cpp:487`: the table of a word of one byte has one entry and the next line writes a second, behind the allocation;
  with a line end of one byte the search is undefined.  Left out by `ProgramsAssumption`.
* `epoll_file.cpp:549`: `read_line` tells a full buffer as `eof` too.  `LineTold` admits it.
* `ssl_socket.h:400`: bytes that `SSL_read` has delivered are appended only when there is no error, so a record that arrives beside a
  close is read and not handed on.  The model's `got` counts it.
* `epoll_service.cpp:297`: when `epoll_ctl` fails on an open socket, out of memory, the operation is completed with the error and stays in
  `in_op_` with its bit set.  `EpollReactor` lets it fail only after a close, where no event follows; left out.
* `epoll_service.cpp:70`: in usage `open` work may be posted between a thread's look at zero and its `stop()`, and is then left in the
  queue; `startHTTPS()` meets this window only when nothing listens any more.  `ZeroIsFinal` and `Halt` exclude that usage.
* `iocp_file.cpp:362`: `read_line` starts its next round without `reset()`.  `ready_` is still set, so
  `on_pending()` posts the operation that the kernel posts too, against the comment at
  `iocp_service.cpp:192`; this is the seeded fault `Reset_keepsReady`.  Left out of the model.
* `iocp_socket.cpp:255`: a send of several parts reads its object after starting the next part.  With
  two threads it may be gone; TLC finds that when `PartsOf` allows it.
* `iocp_service.cpp:102`: a refused interrupt is lost, and no thread looks at `stopped_` without one.
  `dispatch_required_` has no initial value (`Init` takes both).
* `iocp_resolver.cpp:87`: lookups on the list at `stop()` are never called back, and `tail_` is left
  dangling; the file service has a stop flag that nobody sets.
* `http_socket.cpp:125`: a URL with a port above 65535 makes the callback return 1, which tells the parser
  to skip the body; a body is then read as the next request.
* `http_socket.cpp:52`: CONNECT and Upgrade are reported as errors (`UNKNOWN`).
* `http_socket.h:88`: `last_field_or_value_` is not initialised for trailers outside continuous mode (`unset` in the model, where `OnHeaderField` chooses).
* `http_parser.c:1465`: the overflow test of `content_length` compares with the previous value only and
  misses some wraps.  `http_parser.c:1797`: the bytes of a chunk without its CR are delivered or not, depending on the cut.
* `ssl_socket.cpp:371`: `map_error_code` turns a proper close into a short read, which the comment at
  line 390 does not say.  `ssl_socket.cpp:438`: a renegotiation started by the peer would hang a send; left out.
* `epoll_socket.cpp:377`: after a partial receive at the first try `recv_` stays set, the next event
  reads nothing, and `eof` is told although data is there; and `recv_op::on_post` (`epoll_socket.h:206`) does not
  delete its object.  Left out.

## 6. Not modelled, and the plan

Not modelled: the plain data (addresses, errors, buffers), the programs with a `main` (tests,
examples, `http.cpp`, `fiber.cpp`), and in the modelled parts what section 2 leaves out: certificates
and contexts, virtual hosts, the list of I/O objects of a service, opening and closing of files.

Next, in this order:

1. `EpollReactor` - `connect` with its second stage and its uninitialised `ret`
   (`epoll_socket.cpp:152`), accept, the first try, and a socket opened again after `close`.
2. `IocpService` - `read_line` with its missing reset; that it implements `CompletionPort`.
3. `SslSocket` - a renegotiation.

Every safety property of the runs that can be stated for all values of the constants is proved.  A proof to come is that
`IocpService` implements `CompletionPort`, when a run checks it.
