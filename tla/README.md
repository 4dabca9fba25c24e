# A TLA+ verification of MTASC

MTASC is a small asynchronous network client library: a thread pool, TCP and TLS
sockets whose calls run on the pool and answer through callbacks, a receive buffer, and
parsers for URLs and HTTP requests. This directory holds TLA+ models of its code, TLC
configurations that check them on small instances, and proofs that TLAPS checks.
Paths and line numbers are those of the repository; `PROJECT.json` gives the lines of
each definition.

## 1. The system

| component | source | state | operations |
|---|---|---|---|
| `ThreadManager` | `include/thread/threadTask.hpp` | deque of tasks, atomic count of unfinished tasks, stop flag, two mutexes, one condition variable, the threads | worker loop, `asyncTaskvoid`, `asyncTaskret`, `waitAllthread`, destructor |
| `THREAD` | `include/thread/thread.h` | the process-wide pool and a flag, unlocked | `createThreadManager`, `getThreadManager`, `waitThread`, destructor at exit |
| `readBuffer` | `include/client/buffer/buffer.hpp` | a vector, a read and a write pointer | `appendTobuffer`, `retrieveData`, `peekData`, `readableBytes` |
| `socketTcp` | `include/client/socket/TCP/socket_tcp.hpp` | a resolver's address list; everything of a connection is in a `client_context`: descriptor, buffer, settings, flags, retry count | `async_resolver_domain`, `async_try_connect_tcp`, `async_write`, `async_read_until`, `async_read`, and their retry loops |
| `socketSSL` | `include/client/socket/SSL/socket_ssl.hpp` | a configuration with pointers to an `SSL` and an `SSL_CTX`, beside the context | `async_create_tls`, `async_try_connect_tls`, `async_write_tls`, `async_read_until_tls` |
| URL parser | `include/client/Parser/Urlparser.hpp`, `lib/parser_lib/urlparser_lib.cc` | none that lasts | `parserBasicUrl`, `parserQueryUrl` |
| HTTP template | `lib/M_maker_httpv1_template.cc` | none | builds a request |
| `clientTool` | `include/client/clientapp/clientTool.hpp` | none | posts a parse to the pool, which posts the callback |

How they interact. Every asynchronous call takes the pool from `THREAD` and submits a
task with `asyncTaskvoid`; when the task is done it submits the user's callback in the
same way, so callbacks run on workers and usually make the next call. A connection has
therefore one call under way at a time, but consecutive calls run on different workers,
and a worker runs tasks of many connections: what they share is the deque, the counter,
and each worker's `errno`. The context is moved from call to callback to call and carries
its flags and its buffer along.

What is hard here:
- **interleavings** in the pool: two mutexes for one deque, one condition variable waited
  on with both, notifications sent without the waiters' mutex, a shutdown with a timeout;
- **`errno` read late**: retry decisions look at the worker's `errno` long after the call
  that would have set it;
- **state machines with fall-through**: the read tasks are `switch` statements in which
  missing `break`s decide the path;
- **retries and partial failure**: bounded loops that race the arrival of data, and must
  neither lose bytes nor go on for ever;
- **state that outlives a call**: flags and settings in a context that is used again, pointers
  to SSL objects that were released, references to a pool that was replaced;
- **sizes**: `size_t` pointers of the buffer, `-1` converted to `size_t`, ports cut to 16
  bits, positions of a string that may be `npos`.

What makes each part correct: a submitted task is run once, in order, and the shutdown
waits for what was accepted and ends; the buffer is a queue of bytes in bounded space; a
read or write is answered exactly once, hands over every byte it took, and tells the
truth about it; a connect yields a descriptor connected to an address that answered and
leaks none; a handshake, whatever it retried, leaves the configuration with the object that
is connected, no SSL object is lost or used after it was released; a request to `clientTool` is
answered before the process ends, with the parts of the URL it was given or a text a server
understands. `PROJECT.json` lists the hazards line by line with the properties that
address them.

## 2. The modules

| module | models |
|---|---|
| `TaskPool` | what a pool promises: FIFO queue, each task started once and finished by its worker |
| `ThreadManager`, `MCThreadManager` | the pool, one action per access to shared state |
| `ThreadManagerProofs` | its inductive invariant, its refinement of `TaskPool`, and what it promises when all tasks go through one submission function |
| `ByteQueue` | what a buffer promises: a queue of bytes |
| `ReadBuffer`, `MCReadBuffer` | the vector and its pointers |
| `ReadBufferProofs` | its inductive invariant and its refinement of `ByteQueue` |
| `TcpConnect`, `MCTcpConnect` | `async_resolver_domain`, `async_try_connect_tcp`, `M_tryIpaddrs`, `M_retryTcpConnect`, and what the constructors of `Ipv4addrs` and `Ipv6addrs` return |
| `TcpConnectProofs` | its inductive invariant, and that a connect ends |
| `ReceiveSide` | external: the kernel's receiving side, the peer, `errno` |
| `TcpReadUntil`, `TcpRead`, `TcpWrite` | the three calls on a connected socket, each with its retry loop |
| `TcpConnection`, `MCTcpConnection` | their composition: a client that makes one call after another on one connection |
| `TlsObjects` | what the calls of a `socketSSL` share: the SSL objects, the descriptor, the task |
| `TlsHandshake` | `async_create_tls`, `async_try_connect_tls`, `M_ssl_handshake_retry`, `M_creater_new_retry_tls` |
| `TlsWrite` | `async_write_tls` and `M_ssl_write_retry` |
| `TlsReadUntil` | `async_read_until_tls` and `M_ssl_read_until_retry` |
| `TlsConnection`, `MCTlsConnection` | their composition: a client that makes these calls in any order and destroys the socket |
| `ReceiveSideProofs` | lemmas about the receiving side |
| `TcpConnectionProofs` | the inductive invariant of `TcpConnection`, and that its calls end |
| `TlsConnectionProofs` | the inductive invariants of `TlsConnection`: the objects, the answers; that its calls end |
| `ThreadSingleton` | `THREAD`: unlocked creation, access, waiting and the destruction at exit, over pools as `TaskPool` promises them |
| `UrlParser` | `parserBasicUrl`, `parserQueryUrl`, `M_parserQueryParamter` as operators |
| `HttpTemplate` | `syncCreateHttpv1template` as an operator |
| `ClientTool`, `MCClientTool` | the requests of `clientTool`, composed with the three above |
| `ParsingProofs` | what the parsers make of a well-formed URL, and a server of a template's text, as lemmas about the operators |
| `ClientToolProofs` | the inductive invariant of `ClientTool`, and with these lemmas what its callers are answered |

Definitions whose names end in `_Something` and whose comment begins with "Mutant" are
plausible bugs of the definition before the underscore; each checked property is
violated when one of them is put in its place.

### ThreadManager

`tasks`, `count`, `stop`, `tasksMutex`, `countMutex` are the members of the class; `pc`,
`arg` and `cur` say where each thread is, what it is submitting and what it is running;
`origin`, `accepted`, `retired` are history. Each lock, push, count, notification and
test is an action. A test of a wait predicate (`Check`, `WaitCount`, `WaitEmpty`) and
going to sleep (`Block`, `WaitBlock`) are different actions, because a notification may
fall between them unless its sender holds the mutex; releasing the mutex and sleeping is
one, as condition variables guarantee. `NotifyOne` may wake a worker or the thread in
`waitAllthread`, and sleepers may wake spuriously. A task may submit tasks. `RetTasks`
selects which tasks go through `asyncTaskret`.

Two pushes at a time (possible when both functions are used, since they lock different
mutexes) are undefined behaviour: the model lets the later push overwrite the earlier or
leave an empty function in the queue. Tears of the deque's own structure, a push under
one mutex against a pop under the other included, are *not* modelled, nor is what the C++
standard leaves undefined about waiting on one condition variable with two mutexes: it
behaves as glibc's does. A task does not throw (an exception would end the process).

### ReadBuffer

`mem`, `rd`, `wr` are the vector and the pointers. Retrieving more than is readable,
which no caller in the repository does, and the class's moves are left out. `MaxReadable`
bounds what callers let accumulate: without it the vector has no bound.

### The TCP calls

Bytes are counted, not represented: a stream is its length, a delimiter the position at
which its first occurrence ends, a buffer the number of its bytes. Counting starts anew
with each call (`BeginCall`). `state` is the variable of the same role in the code
(`VERIFY`, `READING`, ... ) extended by "retry" for the retry function and "posted" for
the callback. Fall-throughs are modelled as the code has them: in `TcpReadUntil` a
successful `recv` goes to `ERROR`. `errno` is that of the worker: a call finds what the
call before left, or anything in `StartErrnos` that other tasks of the pool may leave. A successful
system call leaves it alone. `select` may return at any time (ready or timed out, the code
does not look), or be interrupted.

`TcpConnect` models the resolver's outcomes, the test of each address, the second
`connect` on the connected descriptor (which leaves `errno` 106), and the retries. The
caller may repeat either call with the context it was handed back, whether the last call
failed or the connection was lost, so everything that outlives a call is state: the list, the
descriptor (-1 after a failed resolution), `invalid` and `success`. Neither the pointer to the
list nor the descriptor has an initialiser (84, 87): a connect before a resolution has assigned
one may be refused (`TryRefused`) or follow the pointer (`TryUnset`, "undefined"). The test of
`M_addrs_host` beside it (310) is left out: the host is the caller's to set. Descriptors are numbers,
`NewFd` one that is free. Not modelled because they
cannot be reached: `select` returning 0 for a connected descriptor and `ECONNREFUSED`
after it (360-365, 386-392), a null result of the resolver or an exception inside the try
block (196-206, 224-231; `getaddrinfo`'s failure throws from the constructor outside it).

`TcpWrite` distinguishes the message's size, which the parameter check tests, from its `strlen`
(`len`), which is what is sent: a message with a NUL in it is cut there, or not sent at all, and
reported without an error. It keeps the conversion of write's `-1` to `size_t` (`AsSizeT`), which disables
the inner loop of `M_retryTcpwrite`; the loop is modelled all the same (`Rewrite`), and is
never entered. A write to a connection the peer reset fails with an error; the `SIGPIPE` that
may accompany it is not modelled.

### The TLS calls

The OpenSSL library is external: `ReceiveSide`'s bytes are decrypted ones and its `errno`
is, in the read, what `SSL_get_error` says. A handshake may answer anything OpenSSL can
(`SslResults`); what a system error leaves in `errno` includes 0, for a peer that closed.
`SSL_write` takes what it is given (`len`, up to the message's first NUL) whole or not at all. On a
descriptor that was closed every operation fails at once: an object there is "fresh", and its
handshake would come first. The peer may send for ever: the first `StreamLen` bytes of a call are
counted, what follows is received but not told apart (`SslRead`, `Appended`).

The modules share `TlsObjects`: what `M_openssl_ptr` and `M_openssl_ctx_ptr` point to.
`ssl` is the object's state, "released" when the pointer is left behind; `leaked` counts
objects that nothing points to. Using a released object is the state "undefined",
an exception that leaves the worker is "crashed"; neither goes on. "silent" is a task that
has ended without a callback: nobody makes the next call, but the socket may be destroyed. `M_creater_new_retry_tls` frees
the object that `M_retry_tls` points to and makes another, which malloc may put in the same
place: then the configuration's pointer is valid again, otherwise it dangles until a retry
connects and updates it. `Replacements` is both. `broken` is history: a handshake or a write has
failed for good since the objects were made.

In `TlsReadUntil` the search of the `VERIFY` state compares memory behind the
data (line 485): its result is a nondeterministic choice. After the end of the connection
is posted the code uses a buffer it has moved away: "crashed".

Left out: the reference counts inside OpenSSL, failed allocations (162 cannot be reached),
and the early return at 128-135, which `init_client_openssl` rules out, and that the number of a closed
descriptor may have gone to another connection meanwhile.

### ThreadSingleton and ClientTool

`flag` and `pool` are `M_is_init_threadmnager` and `M_threadmanager`. Each access to one of
them is a step: the test, the construction, the two halves of the `unique_ptr`'s assignment
(reading the old pointer, writing the new), the wait for the replaced pool, the flag. The
assignment races with itself; of the outcomes such a race may have on a
pointer-sized member, the model has those of interleaved loads and stores. The pools behave as
`TaskPool`, which `ThreadManager` implements when all tasks are submitted by `asyncTaskvoid`, as
they are here; but a worker may sleep through a lost wake-up, so nothing is claimed that needs
one to run. Only `Main` waits for the pool and leaves.
`getThreadManager` throws before a pool is marked. The functions of `clientTool` are `noexcept`
when the callback is (80-84, 109-113, 146-150): then the process ends (`Refused`); otherwise the
exception reaches the caller and changes nothing, so it is no action.

`ClientTool` has one action per step of a request: taking the reference to the pool, the
submission, the work on a worker, the submission of the callback, the callback. A callback
that is not noexcept ("plain") may throw when it is called, which ends the process. What the
work computes are the operators of `UrlParser` and `HttpTemplate`. A URL is a sequence of
tokens: one for each character that the parser looks for, one for each run between them (of
the three characters that it skips after the scheme, the last may be the first of a run: `Tails`
says what is left of it, as in `http:/abc/`, whose host is `bc`);
`UrlText`, `Behind` and `QueryText` build such a URL from parts, independently of the parser,
and are the reference it is checked against. `ServerReads` is the reference of the template: what
a server takes from a text.

## 3. What is checked

Each run's properties are stated in words above their definitions.

| run | instance | shows |
|---|---|---|
| `ThreadManager_void` | 2 workers, 2 clients, 3 tasks through `asyncTaskvoid` | no task lost; `waitAllthread` never sees the pool drained while something runs and is always woken at the end; the pool implements `TaskPool` |
| `ThreadManager_ret` | the same, 2 tasks through `asyncTaskret` | no worker sleeps while there is work; every accepted task of a running pool is finished |
| `ThreadManager_mixed` | 3 tasks, one through `asyncTaskret` | counter exact, no task run twice, only late tasks abandoned, `continue` at 103 unreachable, the inductive invariant (the type invariant is part of it) |
| `ThreadManager_shutdown` | 2 tasks through `asyncTaskvoid`, fairness | nested tasks are finished during a shutdown, and shutdown ends unless a worker was caught between its test and its sleep |
| `ReadBuffer` | 2 byte values, chunks up to 3, 5 unread | a queue of bytes, pointers in bounds, at most twice the space needed |
| `TcpConnect` | lists of up to 3 addresses of 2 families, 3 resolutions and 3 connects in any order | connected to the first address that answered, at most one more descriptor per resolution or connect, every call answered (one before any resolution may be undefined), the first "address not available" true |
| `TcpConnection` | 2 calls of any kinds, streams of 5 bytes, pieces of 2 and 1, 3 tries, any `errno` | every byte taken is handed over once; success of read-until (given a retriable `errno`), read and write (up to a NUL) is true; every call is answered |
| `TlsConnection` | 6 calls in any order, streams of 5 bytes, pieces of 2 and 1, delimiters of 0 to 2, 4 tries | a successful handshake has connected the object the next calls use, a successful read has its delimiter and every byte; one callback per call, but for the ends in silence or an exception that `AnsweredOnce` names; a released object is used only in a handshake's retries, after a failure for good, or by the destructors; one SSL object lost per call at most; every call ends, unless it is a read and the peer sends for ever |
| `ClientTool` | 2 callers, 2 pools of 2 workers, 60 requests | a request accepted in time is answered before the process ends; the pool outlives its uses unless two were made at once; URLs are taken apart into their parts; the process dies only of malformed URLs, callbacks that throw, and noexcept callbacks without a pool; a server understands the template |
| `ThreadManager_lost_wakeup` | 1 worker, `asyncTaskvoid` | **violated**: a push between a worker's test and its sleep is not noticed (149: the push takes `M_countMutex_`, the worker waits with `M_tasksMutex_`) |
| `TcpConnection_after_connect` | a worker that ran this connection's calls only | **violated**: `errno` is the 106 of connect, so the first piece of data is reported as a complete read (654, 1024) |
| `TcpConnect_reconnect` | the same | **violated**: after one call that found no address, a call that connects reports that none is available (1266, 329) |

Bounds. Two workers and two submitters are needed for every race between a push, a pop, a
test and a notification, and more add no kind of step; three tasks make a queue whose
order can be wrong while a worker is busy. Streams are longer than one piece, than one piece
and all the retries but one, and than the bytes asked for, so a read can end by its
delimiter, its size, its tries, the stream's end and a reset. Three tries distinguish first, middle
and last. Two calls show what one leaves to the next (errno, buffer, send buffer, peer).
`MaxLen` exceeds `MaxRoom`, so a message needs several writes. `SizeMax`, 15, stands for the
largest `size_t`, which is what `-1` converts to; every length is smaller. Six calls let a TLS
client create, shake hands, write and read, or go wrong in one of them and go on; they include a
write that closes the descriptor, a creation, a write and a connect on what that leaves. Two callers
suffice for two pools at once; `Main`'s menu has URLs with every kind of port, path, parameter
list and fragment, the malformed ones, and every shape of template, while the other caller asks
one thing.
`MaxCalls`, `MaxResolves`, `MaxKept`, `StreamLen`, `MaxLen`,
`MaxReadable` and the set `Tasks` are the bounds. Symmetry (workers; tasks submitted
alike) is used in `ThreadManager_mixed` only, which has no temporal property.

Fairness. In `ThreadManager` every thread is scheduled (WF on each thread's steps), tasks
return, the five seconds of line 195 pass, and a mutex that is free again and again is
granted (SF on the lock steps, as the wait at 195 and the workers' lock compete with
others); nothing makes a client act, and spurious wake-ups are never required. For the
socket calls (`TcpConnect`, `TcpConnection`, `TlsConnection`): WF on the task, since its worker
is scheduled and `select` has a timeout; nothing on the peer or on the client. That is not enough for a TLS read while pieces keep
coming: the loop of `READING` and `VERIFY` (477-548) counts no tries and does not find the
delimiter, so `CallsEnd` excepts a read that takes a piece there for ever. `ClientTool`
assumes no fairness and claims safety only.

The stop flag has the same race as a push: `M_stop` is set without the workers' mutex (192),
so a worker between its test and its sleep misses it and the destructor's join never returns.
`ThreadManager_lost_wakeup` shows the root; `ShutdownCompletesUnraced` names this exception and
says that nothing else keeps a shutdown from ending.

`CHECK_DEADLOCK FALSE` is set where the system really stops: after the pool is destroyed,
the last call answered, a crash, or the process's end.

## 4. What is proved

Eight modules hold proofs. Seven of them are about a state machine: each states its inductive
invariant as a conjunction of named parts and proves that `Next` keeps it action by action; TLC
checked these invariants on small instances first. The eighth, `ParsingProofs`, is about
operators. Every invariant that a passing run checks is also a theorem.

### The pool

`ThreadManagerProofs`, for any finite sets of tasks and threads and any assignment of tasks to
the two functions, from `ThreadsAssumption` and `TasksAssumption`:

- `Invariance`: `IInv` holds always. The safety properties are not inductive alone. That
  `count` is the number of outstanding tasks needs that a pushed task not yet counted has
  exactly one thread about to count it (`PushedIsCounted`); that needs that a thread
  inside a critical section owns its mutex (`LocksHeld`); `RunOnce` needs that what is queued
  or held was pushed (`QueueWasPushed`, `HeldByWorkers`). The step is proved conjunct by
  conjunct (`StepTypeOK`, `StepLocksHeld`, ...), with the actions that touch neither
  the queue nor the counter grouped by `StepKinds`.
- From it `TypeCorrect`, `CounterCorrect`, `NoTaskRunsTwice`, `OnlyLateTasksAbandoned`,
  `ContinueUnreachable`.
- `Refinement`: when all tasks go through the same function (pushes then exclude each
  other, `NoRace`), the pool implements `TaskPool`.

Its second half is what holds only when all tasks go through one
function. Each theorem names the function as its hypothesis, because the code keeps the
promise for no other use:

- `NothingLost` (`RetTasks = {}` or `RetTasks = Tasks`): with both functions two pushes may
  overlap and lose a task (section 5). `WholeInv` adds to `IInv` that no empty function is queued.
- `DrainedIsQuiet`, `DrainNotMissed` (`RetTasks = {}`): `asyncTaskvoid` counts under the mutex
  with which `waitAllthread` tests, so what the waiter read stays true while it looks at the
  queue and goes to sleep; `asyncTaskret` counts under the other. `DrainInv`
  says this for every place between a test and what is done about it, and that a sleeping
  waiter has a counted task or a worker on its way to notify it.
- `NoWorkerSleepsOnWork` (`RetTasks = Tasks`): `asyncTaskret` pushes under the mutex with which
  workers test; `asyncTaskvoid` does not, and loses wake-ups (`ThreadManager_lost_wakeup`).
  The argument counts: a step that takes a worker off its way takes a task off the queue, or
  finds it empty; a notification that is given puts a sleeping worker on its way
  (`BoundKept`). `AwakeInv` adds that a worker about to sleep has found the queue empty and
  that `waitAllthread`, which could be woken in a worker's place, comes after the stop.

### The buffer and the connect

`ReadBufferProofs`, for any bytes, any set of chunks and any `MaxReadable`, from
`BytesAssumption`: `Invariance`, `PointersInBounds`, `SpaceIsBounded`, and `Refinement`:
the buffer implements `ByteQueue`. The refinement rests on lemmas that say what
`EnsureWriteable`, an append and a retrieval do to the unread bytes.

`TcpConnectProofs`, for any address lists and any number of tries, resolutions and connects,
from `ConnectAssumption`: `TypeCorrect`, `FirstConnected`, `DescriptorsBounded`,
`FirstRefusalTrue`. `ConnectedToFirst` is not inductive: the invariant adds that the addresses
passed by the test were refused and that the call has opened no descriptor yet
(`TestedInVain`), and that behind the test the descriptor is connected (`ConnectedOnTheWay`).

### That calls end

Liveness itself cannot be proved here, but all of it that is safety can. `CallsAreShort`, in the
proof modules of `TcpConnect`, `TcpConnection` and `TlsConnection`, gives each call a count,
`StepsLeft`, and proves of it that it stays between 0 and a bound, that it is 0
exactly when the call is over (answered, crashed, ended in silence, or lost in undefined behaviour),
that each step of the call's task lessens it, and that no step of the peer, of the send buffer or of
a delay raises it. So no peer can make a call longer, and a call that its worker goes on with is
over after that many steps. One step is excepted: a TLS read that takes a piece outside its retries
(`TakesPiece`) adds one to the count, so a read that takes k pieces there has at most
`MaxRetry + 4 + 2k` steps, and one whose peer sends for ever need not end. What is left to TLC is that a step is possible as long as the
call is not over; for the one place where that is not plain, the loop of `M_retryTcpConnect`,
`CallsAreShort` of `TcpConnectProofs` says that a try is left (`TryLeft`).

### The TCP reads and writes

`ReceiveSideProofs` holds what TCP and TLS share: what `recv` may return and leave behind
(`RecvReceives`), a call's beginning, an interruption, an arrival.

`TcpConnectionProofs`, for any streams, messages, delimiters, cache sizes, send buffers, tries
and calls, from `ReceiveAssumption` and `ConnectionAssumption` (which bounds messages below
`SizeMax`, the largest `size_t`): `TypeCorrect`, `BytesDeliveredOnce`, `UntilReportsTruly`,
`ReadReportsTruly`, `WriteReportsTruly`, and the action property `RetryNeverSends`. `IInv` has
a part for what the calls share, one that ties the callback to the end of the task
(`PostedAtEnd`), and one for each call:

- `UntilInv`: the buffer holds what was taken. Truth of the result needs `errno` to stay one
  of the failures that the retry loop tells apart, which holds for a worker that starts with
  `EAGAIN` or `EINTR` only (the hypothesis `UntilIsTruthful` itself states;
  `TcpConnection_after_connect` shows why), and that what is given up after a reset was
  searched before.
- `ReadInv`: the same for kept bytes and taken ones; `ERROR` is reached by a failure only,
  and a retry begins with a try left.
- `WriteInv`: the count is the kernel's and stays below the length while the task goes on;
  in the retry it is `SizeMax`, the converted -1, throughout, so the retry never sends. What
  `WriteReportsTruly` says of a success is about the bytes in front of the message's first NUL.

### The TLS calls

`TlsConnectionProofs`, for any number of calls and tries and any delimiters, counts of bytes and
messages, from `ReceiveAssumption` and `TlsAssumption`: `Invariance`, `ObjectsLost`,
`ReleasedObjects`. That `leaked` stays
below the number of calls needs the objects that are still held to be counted with it
(`AllocatedByCalls`): a replacement then moves an object between the configuration, `M_retry_tls`
and nowhere without making one more, because in its retries a handshake has exactly one,
unless it has no context to make one from (`RetryHasOne`), and begins with one
(`BeginsWithOne`). `ReleasedBy` says which failures leave a released object behind.

A second invariant, `AnswerInv`, is inductive relative to the first: a task posts when it
ends or just before it crashes, and ends in silence or crashes without a callback only as
`AnsweredOnce` says, so a callback is single and missing only there; the buffer of a read holds what was
taken, and a success was tested since its last piece. From it `TypeCorrect`, `SuccessIsSo`,
`UntilDelivers`, `OneCallback`.

### THREAD and clientTool

`ClientToolProofs`, for pools of any size and any menus of requests, from `CallersAssumption`
(main and one other caller at most: with three, two replacements could destroy the same pool,
which `ThreadSingleton` does not model), `UrlsAssumption`, `TailsAssumption` and `MenuAssumption`:

- `LifeInv`: each caller makes one pool at most (`OneEach`, by counting those about to make
  one); without overlap there is one pool and nothing replaces it (`OnePool`); references
  point to pools (`Pointers`). It gives `PoolLives`.
- `TaskInv`: a request or its answer is in one place: in the hands of one thread, once in one
  queue, or answered (`OnePlace`, `NoDoubles`), is the one its caller made, and what is
  on its way back or was handed to a callback is an answer to that request (`OwnRequests`, `OwnAnswers`).
  With `LifeInv` it gives `TypeCorrect`.
- `EarlyInv`: what was accepted in time is answered, or in the queue of a pool with a worker
  left, or in the hands of one of its workers (`InPool`); `Destroy` waits for all workers, and a
  worker leaves an empty queue only. It gives `AnsweredInTime`.
- `CrashInv`: a crash has a request whose work does not return, or whose callback was called
  and may throw, or was noexcept and refused before a pool was marked. `CrashesExplained` then
  needs that the parser returns on every well-formed URL (`FrontReturns`).
- `UrlsSplit` and `TemplatesRead` follow from `OwnAnswers`, once it is known what the
  operators compute. That is what `ParsingProofs` is for.

`ParsingProofs`, for URLs of any length with any number of parameters, and for bodies and
sets of headers of any size:

- Searches. The parser's loops look for the first position of a sign, the parameters' map
  keeps the last of equal keys: a set of positions has a least and a greatest element
  (`LeastPosition`, `GreatestPosition`), by well-foundedness of inclusion on finite sets.
- Induction. Theorems that take an operator as a parameter cannot be used with these
  provers, so `Induction` is stated for sets: a set that holds 0 and with each number the next
  holds all numbers. From it, that `FlattenSeq` has an iteration (`FlatteningExists`) and what
  stands at each place of a flattened sequence (`FlattenPlaces`), from which
  `QueryText` and `ServerReads` are read; and that the loop of `M_parserQueryParamter`, started
  behind the i-th parameter, finds those that are left (`ParametersRead`).
- URLs. The first colon and slash are where `UrlText` put them (`UrlParts`, `PortRead`,
  `NoPortRead`), what follows is cut at the right signs (`RestFound`, `QueryFound`), the
  parameters begin where the ampersands are (`PieceIsAt`, `EntryRead`), and the map built from
  them means what the list of parameters means (`MapIsMeaning`). Together: `BasicIsSplit`, `QueryIsSplit`.
- Templates. A text has one of two forms, with the body or without (`TextForms`); the first empty
  line ends what a server takes for the head (`HeadRead`), the rest are the bytes (`BytesFlat`),
  and no line but the program's own gives their number (`LengthsAre`). Together: `TemplateRead`.

Two things this taught. The parser reads the keys of a URL as they are only if every
parameter except the last one has a value: with two that have none, the first key is taken to reach to the
end. The condition had been that values come first, which the proof refuted and a menu
entry of `ClientTool` (`"?e&f"`) now shows; `AllHaveValues` is what holds. And
`TemplateIsRead` depends on different numbers being written differently, a fact about
`ToString` that TLC computes and the prover does not know: it is the hypothesis `ToStringApart` of
`TemplatesRead`, and the only one of a theorem here that is not about the constants.

`UrlsAssumption` says what a well-formed URL is: its scheme, host and port have none of the
signs ":" and "/", its port is a number, its path begins with a slash and its fragment with "#", the
runs of path and parameters hold none of the signs that the parser looks for behind them
(`Run`), and if no slash follows host and port, no colon does,
for the parser would take that for the one in front of the port. `MenuAssumption`: templates have one of
the two methods, a finite set of headers, and none that is called Content-Length.

### Only model-checked

- All liveness: `AcceptedComplete`, `NestedComplete`, `ShutdownCompletesUnraced`,
  `CallAnswered`, `CallsEnd`. Fairness and ENABLED are out of the prover's reach; the safety
  half of the last two is proved (`CallsAreShort`).
- The three violated properties (section 3) are counterexamples of TLC.

## 5. Known deviations the models keep

The models follow the code where it differs from what its comments say. Three of these
are runs (section 3); the others can be read off the modules:

- two simultaneous pushes through `asyncTaskvoid` and `asyncTaskret` lose a task
  (threadTask.hpp:149, 181; `Push`);
- a fresh worker (`errno` 0) reports the first piece of a read-until with error code 0 and
  size 0 (socket_tcp.hpp:680; `RetryFailed`);
- the piece read by the last try of read-until is not searched (1077;
  `OnlyLastTryOverlooks` says that nothing else overlooks a delimiter);
- `async_read`'s retry loop compares one piece with the cache size (976) and its last try
  succeeds whatever it read (981; `Retried`), hence "needed no retry" in `DoneMeansEnough`;
- a message with a NUL in it is sent up to there only and reported as a success (450, 465, 509;
  `TcpWrite!Call`);
- a failed write reports twice the bytes sent (501), and its retry loop never
  writes (474, 1153; `Writing`, `RetryTurn`); `async_write` returns -1 where
  line 405 announces 1;
- the resolver overwrites the caller's address family and timeout in the context (185-187;
  `Resolve`), so the setting at test/test_tls.cc:18 has no effect; a second resolution
  forgets the first one's list and descriptor (192, 207; `Resolved`);
- `M_is_retry_success` is never reset: after one connect that was retried, a retry that fails
  is reported as a success (1088; `RetryConnect`), which is true only because the
  descriptor is connected before the retries begin;
- `async_read_until_tls` returns without a callback when the memory behind the data equals
  the delimiter (socket_ssl.hpp:485, 477; `Verify`), does not find the delimiter, and so does not
  stop, as long as pieces arrive without a pause (`Reading`), and uses a moved buffer after a close
  (540-556; `Closed`);
- a shutdown may never return (threadTask.hpp:192; see section 3).

TLS (socket_ssl.hpp):
- a handshake that fails in its retries is reported by `errno`, which may be 0 (279; `GiveUp`),
  and leaves the configuration pointing to a released object; so does a write that finds
  the connection closed (395; `TlsWrite!Closed`);
- an empty message is taken for a closed connection (391), a write without SSL object is never
  answered (339-416), and no write is ever retried: the tests at 898-905 hold always;
- `SSL_ERROR_SSL` in a handshake's retry is thrown out of the worker (`TurnThrows`);
- `~socketSSL` and `~client_ssl_configure` both release the context (63, 732; `Destroy`);
- the limits at 990 and 1010 (`count > max`) are never reached.

`THREAD` and `clientTool`:
- creations at the same time destroy or forget one of the two pools (thread.h:54-61; `Swap`), after
  which a reference handed out dangles or a waiting request is never run;
- what is asked before a pool is marked ends the process if the callback is noexcept
  (thread.h:64-65, clientTool.hpp:80-84; `Refused`);
- what is asked after `waitThread` is accepted and never run; once the pool exists the flag
  stays set (thread.h:51);
- a URL with no slash behind its host has an empty host and path, one whose `:/` is at the
  end overruns the string (urlparser_lib.cc:24; `UrlFront`); the port is uninitialised
  when absent, cut to 16 bits, or an exception that ends the process (58; `Stoi`);
- `parserQueryUrl` loses the path of a URL without "?" or "#" (`ParserQueryUrl`); a key without
  a value swallows the next parameter's "=" (Urlparser.hpp:107; `Parameters`);
- the template has an empty line too many, which shifts the body, and a header without name
  or value ends it early (M_maker_httpv1_template.cc:25; `CreateHttpv1Template`);
- the macro at thread.h:22-24 calls a member that does not exist.

## 6. Not modelled, and the plan

In order:

1. The lifetime of the address list (it lives as long as its `socketTcp`, while contexts keep a
   pointer to it: socket_tcp.hpp:57) and of contexts: their moves, which cut `M_timeout` to 16
   bits (108, 834), composed with `TcpConnect`.
2. Proofs: the pool as `ThreadSingleton` uses it, shown to be `TaskPool` for each of the pools
   (its requests and answers would need a history of which pool finished them); a count like
   `StepsLeft` for the shutdown of `ThreadManager`.

Left aside for good: the moves of the pool and of the buffer (no caller), the unused
`M_connects` and `M_findChunkedsize`, type traits and platform macros, `getaddrinfo`
wrappers beyond their outcomes, the build and the one example in `test/`.
