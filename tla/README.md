# A TLA+ model of Metasys

Metasys is a header library of thin C++ wrappers around POSIX: descriptors, pipes, processes, threads,
mutexes, epoll, TCP sockets. Each wrapper owns a resource of the operating system and promises
"typical C++ properties like RAII" (src/README.md:5-6). What is hard about it is ownership through time: numbers
(descriptors, pids, pthread_t) are reused by the system as soon as they are given back, calls fail
half-way, and other threads and processes act between two system calls of one C++ call. This directory
models the wrappers as state machines over a small model of the system, checks them with TLC and proves
with TLAPS what matters most.

## Inventory

| Component | State | Operations | Hard behaviours | What makes it correct |
|---|---|---|---|---|
| FileDescriptor, ClosingInterface (sys/) | `_fd` | construct, adopt, move, reset, close, destroy, move-assign; filled by open/create of derived classes | close in the middle of another call, a throwing close, reuse of numbers | one holder per number, what is held is open, no leak |
| Pipe (io/) | `_fds[2]` | open, openinit, rmove/wmove, proxies, move-assign, destroy | two closes in one call, closes through a proxy, uninitialised slots | the same, for programs that avoid four hazards |
| ReadableDescriptor, WritableDescriptor (io/) | none | read, write with retries | EINTR, EAGAIN, partial transfers, a return of 0 | bytes once and in order, calls end |
| EpollDescriptor (sched/) | a ClosingDescriptor, the kernel's interest list | create, add/mod/del, wait | stale events, several loops, EINTR restarting a timeout | an event is handled once, on the stream it was about; waits end |
| Process, ProcessBehavior (sched/) | `_pid` | fork, wait, kill, reset, move, destroy (signal, then wait) | pid reuse, inherited handles, interrupted waits | a handle names an unreaped child, no zombie left |
| Pthread, Thread, Jthread (sched/) | `_tid` | create, join, detach, cancel, reset, move, destroy per behavior | reuse of pthread_t, blocking joins, empty handles | a joinable thread has one handle, the destructor returns |
| ThisPthread, PthreadCancelInhibitor, PthreadMutex (sched/) | cancel state, mutex | setcancel, lock, unlock | a thread cancelled while it holds a mutex | states restored, no lock orphaned |
| SocketDescriptor, TcpSocket, TcpServerSocket (net/) | a ClosingDescriptor | open, bind, listen, accept, connect, `*init` | error paths that close and rethrow, port reuse | no leak on failure, the requested options |
| InetAddress, TcpAddress, AddressInfo, bit (net/) | an address; an addrinfo list and iterators into it | compare, convert, resolve, iterate, reset, move | byte order, unlisted error codes, iterators into freed lists | order is total, conversions undo each other, lists freed once |
| SystemException (sys/) | none | throwErrno | errno values with no exception abort | every errno a call can return throws |
| Directory (fs/) | `_dh` | open (by name, from descriptors), close, reset, move, destroy | a close that leaves the pointer, a descriptor with two owners | closed once |
| Stat (fs/) | a struct stat | stat, accessors | none: it is a value | - |
| Makefile, Function.mk, tools/asmcmp | - | - | - | not part of the library |

The components interact by calls and through the system: EpollDescriptor, the sockets and the pipe's Reader
and Writer are ClosingDescriptors, Jthread is a Pthread, and everything that holds a descriptor competes for the
same table of numbers.

## Modules

| Module | Models | Used by |
|---|---|---|
| `Ownership` | the abstract promise: a resource is acquired once, has one holder at any time, is released once | the property `Owns` of each component |
| `FdTable` | external: the descriptor table, lowest free number first | `ClosingDescriptor`, `Pipe`, `EventLoop`, `LibcHandle` |
| `ClosingDescriptor` | FileDescriptor and ClosingInterface, used by several threads | `ClosingDescriptor_proofs` |
| `ClosingDescriptor_proofs` | the proofs about it | |
| `Pipe` | Pipe, with the rest of the program as environment | `Pipe_proofs` |
| `Pipe_proofs` | the proofs about it | |
| `Process` | Process, the program's and its children's copies of the handles, the process table | `Process_proofs` |
| `Process_proofs` | the proofs about it | |
| `Pthread` | Pthread for each behavior, the threads it creates | `Pthread_proofs` |
| `Pthread_proofs` | the proofs about it | |
| `TcpStack` | external: sockets, ports and connections as the socket calls show them | `Tcp` |
| `Tcp` | SocketDescriptor, TcpSocketDescriptor, TcpSocket, TcpServerSocket, the errno values SystemException throws; threads that compete for a port | `Tcp_proofs` |
| `Tcp_proofs` | the proofs about it | |
| `Cancellation` | PthreadCancelInhibitor, ThisPthread, PthreadMutex, in threads that `~Jthread` cancels and joins | `Cancellation_proofs` |
| `Cancellation_proofs` | the proofs about it | |
| `EventLoop` | EpollDescriptor, ReadableInterface and WritableInterface: threads that wait for events of streams and read them, a thread that writes | `EventLoop_proofs` |
| `EventLoop_proofs` | the proofs about it | |
| `NetBits` | bit.hxx: an unsigned integer is the tuple of its bytes, so that widths and byte positions are exact and no table of 2^32 values is needed | `InetAddress` |
| `InetAddress` | InetAddress, as functions of the fields of `_sin` | `LibcHandle` |
| `LibcHandle` | Directory and AddressInfo, which own a block of the C library (a stream with its descriptor, a list), iterators, `TcpAddress::instance` | `LibcHandle_proofs` |
| `LibcHandle_proofs` | the proofs about it, and about `InetAddress` and `NetBits` | |
| `MC*` | values for TLC | the cfg files |

**Correspondence.** A variable of a module is a data member (`fd[h]` is `_fd` of object `h`, `fds[p]`, `pid[x][h]`,
`tid[h]`), the existence of an object (`alive`), a call in progress (`frame`), or a table of the system. An action is a
C++ call up to its next system call, or the system call and what the call does after it; PROJECT.json maps each to its lines. Asserted preconditions are guards where
the caller must respect them (open on a valid object); where a property is about the assertion itself (Pthread's cancel() under `_stop()`, throwconnect(), ~PthreadMutex) its failure is a state.
Names that end in `_something` and are marked "Mutant" are plausible bugs; replacing the definition by the mutant violates the property PROJECT.json names.

**Number reuse.** A file is identified by the rank of the call that opened it (a child, a thread likewise), the
number is a slot of a table. The refinement to `Ownership` maps a resource to the places whose number the table
currently maps to it, so a stale number that was reused shows as a second holder.

**Hazards.** `Pipe`, `Process`, `Pthread`, `Tcp`, `Cancellation`, `EventLoop` and `LibcHandle` are not safe for every legal sequence of calls. Each behaviour
chooses in `Init` a kind of program: the set of hazards (a failing openinit, an assignment of a pipe to itself, ...) it
may meet; in `EventLoop` also its style (several loops with one-shot entries, O_NONBLOCK, calls with a handler, timeouts, signals), which
are not hazards but ways to use the library. Properties say which hazards they survive, so that the checks tell exactly what each hazard breaks.

## What is checked

* `ClosingDescriptor` - 2 threads, 3 handles, 3 numbers, 3 opens. Three handles are the least for a move chain beside an assignment; with two threads a
  number is closed by one and opened by the other between the two halves of a call; 3 opens on 3 numbers make every number reused.
  Holds: `OneHolder`, `HeldIsOpen`, `NoLeak`, and the refinement `Owns`.
* `ClosingDescriptor_copies` - found violated: `ClosingDescriptor b(a)` compiles, by the variadic constructor, and aliases.
* `Pipe` - 2 pipes (the two sides of an assignment), 4 numbers (both pipes open at once), 5 opens (one more, to reuse a number).
  Without hazards it implements `Ownership`. In a careful program (at most assignments to itself) every number has one holder and is open, and the
  assertions of the assignment hold (`CarefulPipes`); without self-assignment nothing leaks, whatever slots go stale.
* `Pipe_openinit` - found violated: a failing openinit() claims, then closes, someone else's descriptors.
* `Process` - 2 handles, 2 children, 2 pids, every set of hazards. A handle goes stale only when it is used after wait(); a zombie
  is left only by an interrupted wait; a stop is stuck on nothing but a child that runs (`StopsGoOn`) and always ends (`StopEnds`).
* `Pthread` - 2 handles, 2 threads, 2 numbers, six kinds of programs over the four behaviors. A thread is lost only by an assignment, a handle goes stale only by a failed creation, and no call
  aborts otherwise; a call is stuck on nothing but a joinable thread that runs (`CallsGoOn`), and a stop that asks before it joins ends (`StopEnds`).
* `Pthread_assign` - found violated: the inverted test of the move assignment loses a running thread.

* `Tcp` - 2 threads, 2 servers, a client, one port, 3 sockets (two that compete for the port and a connection), a queue of one. Every step of `listeninit()`
  and `connectinit()` may fail. Holds: `Owns` (no failure leaks), `HandlerSeesFailure`, `InitReturnsReady`, `SharedOnlyIfAsked`,
  and `AbortsOnlyByUnknown`: a call that throws aborts only for the errno values SystemException does not know, or for a `connect()` that is repeated too early.
* `Tcp_listeninit` - found violated: `listeninit<false>(addr, handler)` sets SO_REUSEPORT, so a second socket listens on the port.
* `Cancellation` - two workers and the main thread, two nested inhibitors and three calls each (an inhibitor, another or a lock, and a lock), five kinds of programs. Cancel states
  nest; a mutex is orphaned only by a worker that locks it outside of inhibitors or enables cancellation inside one. Without these, the thread that `~Jthread` joins
  has ended, can be cancelled, or waits at most for a thread that can leave its scope (`StopGoesOn`: no ring of waits), and `~Jthread` returns (`StopReturns`).
* `EventLoop` - two loops and a writer, 3 numbers (the EpollDescriptor and two streams), 3 opens (so that a number that was closed
  is opened again while an event about it is pending, the least that makes an event stale), arrays of 2 events, streams of one byte (each write fills its stream, each read empties
  it: the case in which a second loop, or a second read, finds nothing), 2 bytes, a timeout of 2 ticks, one signal, nine kinds of programs, one of them with two loops that wait with timeouts for one-shot entries. Holds: `Conserved`
  (what was written is what was read and what is buffered, through EINTR, EAGAIN and partial transfers), `ReadsFindData` (a careful program never blocks or spins in a read done for an
  event, and never reads another stream: neither with one loop, nor with several on one-shot entries), `AbortsOnlyByHazard`, `LateOnlyBySignals` (a wait is
  late by at most one timeout per signal), `CallsGoOn` (what a call waits for can happen) and `CallsEnd` (reads, writes and waits end). Programs that drop a stream with a pending event (`crossclose`) or share entries that are not one-shot (`shared`) are in the run too: there reads do meet other streams, and the
  properties except them.
* `LibcHandle` - two handles, both Directories or both AddressInfos (two sides of an assignment), 2 blocks and 4 allocations, 2 numbers and 4 opens (each block and each number is reused), a little-endian machine, ports whose bytes differ and
  whose bytes are equal, six kinds of programs. Holds: `CarefulHoldOnce`, `LeaksOnlyByHazard`, `ResultsRight`, and `Owns`, the refinement of `Ownership` for the blocks and for
  the descriptors in them.

The type invariants of `ClosingDescriptor`, `Process`, `Pthread`, `Cancellation`, `EventLoop` and `LibcHandle` are theorems or parts of one, and these runs do not repeat them.

Further disagreements seen in these models, by the hazards that the properties exclude: `rend().close()` leaves the slot valid; a close that throws in Pipe's assignment
leaves a stale slot; a Pipe moved to itself leaks both ends; `Process::wait()` twice fails the ECHILD assertion (Process.hxx:251); destroying an
empty Jthread (default, joined or moved from) aborts in Pthread.hxx:697; a write() of no bytes retries for ever or aborts, by the errno of an earlier call
(WritableDescriptor.hxx:50); read() aborts for ECONNRESET; `Directory::close()` leaves `_dh` to the destructor (Directory.hxx:173); `Directory::open(FileDescriptor)` shares the number with its owner;
`resolvethrow()` returns for a code it does not list; `Stat::operator=` calls itself.

Deadlock is checked except where the program may stop: in `Pipe` after a failed assertion, in `Pthread` after an abort or terminate, in `Tcp` after an abort
or when all sockets were used, in `Cancellation` at the end of the program, in `EventLoop` after an abort, in a read or write that nothing ends, or at the
bounds, in `LibcHandle` after undefined behaviour or at the bounds.

**Fairness** is weak and stated one process, thread or child at a time. `Process`: a process inside a stop is scheduled again (`StopFair`: the code between two system calls runs to its end), and a child that got a terminating signal
dies (`ObeyFair`: the default disposition of SIGTERM; a child that ignores it blocks the destructor for ever, by design of the
behavior). `Pthread`: the thread inside `_stop()` is scheduled (`ContinueFair`), and a thread with a pending cancellation reaches a cancellation point (`ObeyFair`). `Cancellation`: a scope that was entered is left, a mutex that stays free is given to a thread that waits,
a thread that may be cancelled reaches a cancellation point; that bodies are finite (`MaxCalls`) is what excludes starvation. 
`EventLoop`: the kernel ends a call it can end (`WaitFair`, `ReadFair`, `WriteFair`), and time passes (`TickFair`); `CallsEnd` rests on finitely many signals (`MaxSignals`), since each starts a timeout again, and excepts a write
to a stream that stays full, which no loop has to read. Nothing else is fair: no call is ever required to be made and no thread
or child has to end by itself.

## What is proved

`ClosingDescriptor_proofs`, for every number of threads, handles, descriptors and openings, from the assumptions
that bounds are naturals and `NoHandle` is no handle.

`OneHolder` is not inductive: that `Take` does not overwrite an open descriptor needs to know that an
assignment has emptied its target or is a self-assignment, that no other call uses the two objects, and
that an object that does not exist holds nothing. `IInv` adds these (`FramesOK`, `DeadHoldNothing`), and
states the three properties kind of holder by kind of holder (`Distinct`, `AllOpen`, `AllHeld`), which the provers handle better than a
union of tagged pairs. One lemma per action shows that it preserves the parts; `IInvImplies` gives back the
properties as stated. Theorems: `Invariance`, `TypeCorrect`, `UniqueHolder`, `NeverStale`, `NothingLost`.

`Implements` (`Spec => Owns`) is the refinement. The mapping finds the holders of a file through its number, so one more invariant is needed, that no file has two numbers (`OneNumber`). From
`IInv` and `OneNumber` follows `MapOK`: in every state a held file has one holder, any other none. `StatusStep` shows from the
three things a step can do to the table that a file goes from unused to held to released; the two together make every step an
`Acquire`, `Transfer` or `Release` of some files and a `Keep` of the others (`StepImplements`).

`Cancellation_proofs`, for every number of workers, depth of nesting and number of calls, from `CancellationAssumption` (and, for liveness, `FiniteWorkers`).
`TypeCorrect` first. `Nesting` (`CancelStateNests`) rests on `NestInv`, the shape of a running thread's stack of saved states
(each `_old`): the outermost one is what the thread asked for, every other one is "disabled". This is what makes the destructors,
which restore blindly, correct; the property alone says nothing of what a destructor will restore. `NoOrphan`
(`OrphanOnlyByBareLock`) rests on `OwnInv`: whoever waits for the mutex or has it is running, and a worker among them is inside an
inhibitor. By `NestInv` such a worker has cancellation disabled, so that `TestCancel` cannot end it.

`EventLoop_proofs`, for every number of loops, descriptors, streams, events, bytes and signals, from `EventLoopAssumption` and `FdTableAssumption` (and, for liveness, `FiniteLoops`).
`BytesConserved` (`Conserved`): the property speaks of streams whose read end is open; `Accounts` says it of every file, and that a file not yet opened has an
empty stream, which an opening would otherwise break. `WaitsPunctual` (`LateOnlyBySignals`): `Punctual`, that elapsed and remaining time are together at most
a timeout for the call and one for each interrupt. `ReadsAfterEvents` (`ReadsFindData`) and `AbortsExplained` (`AbortsOnlyByHazard`) rest on
`Settled`: in a careful program the events a loop has in its batch or at hand are about streams that are open under the number of the event and registered (`EventsHold`), those not yet read
are about streams with data (`DataThere`), an event at hand is no more in the batch (`InHand`), and each event is one loop's (`OneOwner`): only one loop
runs, or the entry is disarmed from the return of `epoll_wait` to the `mod()` that ends the handler. `OneOwner` is what makes `DataThere` inductive, since a read or a close of another loop could otherwise take the data;
`OneNumber` and `Unwatched` (the epoll descriptor watches no file that is its own or not yet opened) keep a new file from being taken for an old one. `IInv` is the conjunction with `TypeOK`, `Accounts` and `Roles`
(which calls a loop and the writer make).

`Process_proofs`, for every number of handles, children and pids, from `ProcessAssumption`. `IInv` adds to `TypeOK` and the three properties only `Stops`, the shape of the calls
that processes are in: a stop is on its way between its two system calls, in the program or in a child's unwinding copy. `TypeCorrect`, `NamesItsChild` (`StaleOnlyByRewait`) and `UniqueHolder` (`OneHolder`) hold for every behavior;
`NoZombie` (`ZombieOnlyByInterrupt`) and the refinement `Implements` (`Spec => Owns`) are about behaviors that wait in the destructor (`ASSUME WaitOnDestroy`), since the others let go of children on purpose. As for
`ClosingDescriptor`, the refinement finds holders through numbers and needs that a living child has exactly one pid (`OnePid`); a child that ends stays held until it is reaped.

`Pipe_proofs`, for every number of pipes, descriptors and openings, from `PipesAssumption` and `FdTableAssumption`. A call of Pipe closes two slots one after the other and empties neither, so the invariant speaks of what
a slot claims (`Val`): nothing once an assignment is past it or the object is gone. `Calls` says which objects a call in progress has, and that a destructor at the write end has closed the read end. `Holding` has two halves that
hold for different programs: `Owned` (claims are distinct, open and nobody else's) for careful ones, `Found` (what is open is claimed) for all that do not assign a pipe to itself. Each action is one of seven
things done to claims (two pipes exchange them, a claim is dropped, closed, handed out, ...), one lemma each. Theorems: `TypeCorrect`, `EndsAreOwned` (`CarefulPipes`, the assertions of the move assignment included), `NothingLost` (`LeaksOnlyBySelfMove`) and
`Implements` (`Owns`), the refinement in programs without hazards: the assumption says that no pipe is the place `"other"`, where the rest of the program holds its files, and `OneNumber` again that no file has two numbers.

`Pthread_proofs`, for every number of handles, threads and pthread_t and each behavior, from `PthreadAssumption`. `IInv` adds to `TypeOK` and `Survives` what a call in progress relies on (`Calls`: a thread that `join()` waits for
stays joinable, a stop of an empty handle happens only in programs that do so), that a thread has one pthread_t from its creation until it is gone (`OneTid`), and what places hold (`Holding`): each its own
joinable thread (`Named`), unless a creation may fail, and together all of them (`Found`), unless the program assigns over a thread. The distinctness in `Named` is not in the properties, but without it a join or detach by one handle would leave
another one stale. `Survives` follows from `Named`: the assertions of the calls fail only on a pthread_t that names no joinable thread, or on none. Theorems: `Invariance`, `TypeCorrect`, `NamesItsThread` (`StaleOnlyByFailedCreate`), `NoneLost` (`LostOnlyByAssignment`),
`NeverAborts` (`Survives`) and the refinement `Implements` (`Owns`).

`Tcp_proofs`, for every number of threads, handles, sockets and ports and every length of a listener's queue, from `TcpAssumption` and `TcpProgramsAssumption` (servers, clients and threads are distinct, `NoHandle` is none of the handles).
`IInv` adds to `TypeOK` and `AbortsOnlyByUnknown` what a call of several steps relies on (`Calls`: the object it fills is empty and its own, its socket is in the state the step expects, the errno kept is the one of the step that failed),
that handles and calls together hold the open sockets, each once (`Holding`), and that two listeners on a port both have SO_REUSEPORT, which a socket has only if it was asked for (`Sharing`). Without `Holding` another call could change the socket of a
`listeninit()` between its `bind` and its `listen`. Each action has one of four effects on who holds what (`Effect`: nothing, a place gets a new socket, gives its socket back, or hands it to another), which gives both the preservation of `Holding` and
the refinement. Theorems: `Invariance`, `TypeCorrect`, `HandlerIsTold` (`HandlerSeesFailure`), `PortsExclusive` (`SharedOnlyIfAsked`), `AbortsExplained` (`AbortsOnlyByUnknown`), `ReturnsReady` (the action property `InitReturnsReady`: only the last step of a
call returns its socket) and `Implements` (`Owns`).

`LibcHandle_proofs` first proves of the functions of `NetBits` and `InetAddress`, for every value of every integer and both byte orders (`EndianAssumption`): the swaps are involutions, `ntoh` undoes `hton`, `hton` gives the
most significant byte first in memory, the two constructors agree, `port()` returns what was stored, and the order of addresses is the numerical one and a strict total order.

Of the handles it proves, for every number of handles, blocks, descriptors, allocations and openings, from `LibcHandleAssumption` and `FdTableAssumption`: `IInv` adds to `TypeOK` and `ResultsRight` the shape of the calls in progress (`Calls`:
an object that does not exist points to nothing, only a call of AddressInfo has a local list), what the C library guarantees (`Library`: only a live stream has a descriptor, no allocation is in two blocks, no file under two numbers), and `Holding`. As for
`Pipe`, `Holding` has halves that hold for different programs: for careful ones `BlocksHeld`, `Streams` and `FdsHeld` (what a handle, a local list, a stream or the rest of the program claims is live and claimed once), and `BlocksFound`, `FdsFound` (what is live is claimed)
unless a handle is moved to itself or an open that fails took a descriptor. What a handle claims (`Val`) is its pointer, except for the target of a move assignment, which still has the pointer that was freed. Each action
has one of a few effects on the blocks (`BlockEffect`: none, allocated for a holder, freed by its holder, handed on) and on the descriptors (`FdEffect`), or ends in undefined behaviour, which no careful program reaches.
Theorems: `Invariance`, `HeldByOne` (`CarefulHoldOnce`), `NothingLost` (`LeaksOnlyByHazard`), `ResolvedRight` (`ResultsRight`, which rests on `ConstructorsAgree` and `PortRoundTrip`) and `Implements` (`Owns`), which maps both
blocks and files by their ranks.

**Deadlock.** `NoDeadlock` of `Process_proofs`, `Pthread_proofs`, `Cancellation_proofs` and `EventLoop_proofs` says that a call in progress meets the guard of a step that goes on, or waits for a thread or child that runs
(`StopsUnblocked`, `CallsUnblocked`, `JoinUnblocked`). In `Process` it needs that a pid is that of one living child (`OnePid`), so that no stop waits for a child that was reaped; in `Pthread`, that the number in a `join()` stays joinable (`Calls`); in `Cancellation`, `WaitInv` (whoever waits for the
mutex does not own it, and without hazards main does not own it while it joins), so that the owner is a worker that runs and can leave its scope; in `EventLoop`, where it is about the reads of programs without hazards, `Settled`. The properties the runs check (`StopsGoOn`, `CallsGoOn`, `StopGoesOn`) add `StepsEnabled`:
each fair action is ENABLED where its guard holds. `StepsEnabled` is about the shape of one action at a time. No prover here expands ENABLED, so TLC checks it on every reachable state of the runs.

**Liveness.** The temporal prover takes an ENABLED as an atom it knows nothing of, so the theorems about weak fairness have `[]StepsEnabled` as hypothesis, and nothing else about ENABLED. They prove, for every value of the constants:

* `StopTerminates` of `Process_proofs` (`StopEnds`), for behaviors that signal: a stop that waits for a running child has signalled it (`Chased`), the child obeys, and a pid whose child has ended, or that
  names none, does not block `waitpid` again (`Freed`), since no other child takes the pid of a zombie.
* `StopTerminates` of `Pthread_proofs` (`StopEnds`), for behaviors that cancel first: the thread a stop joins has a pending cancellation (`Asked`), also where the handle names a thread it did not create, and its end frees the join.
* `StopTerminates` of `Cancellation_proofs` (`StopReturns`): while main joins, every step but a stutter makes `Rank` less. `Rank` is the number of things the threads can still do (`Work`): a thread's `Load` counts what it has to leave, get
  and give back, and three for each call it may still begin, since a call adds at most two (`LoadStep`). By `NoDeadlock` and the fairness such a step comes (`Progress`).
* `CallsComplete` of `EventLoop_proofs` (`CallsEnd`): `ReadsComplete` and `WritesComplete` follow from `NoDeadlock` and the fairness of one step. `WaitsComplete` does not: what keeps a wait from its end is the other waits that are due, the time
  that is left, and signals that start it again. `Rank` counts what lies ahead in that order (`Ahead`: signals left, then ticks left, then waits due); no step makes it more (`WaitMoves`), and the return of a wait that is due, or a tick when none is, makes it
  less (`LeftEnds`, `Progress`).

The last two are inductions on `Rank`, and the provers cannot instantiate an induction theorem with a temporal formula. Each therefore has the one instance it needs as a hypothesis of its own, `Inducts`: if `Ends(t, n)` holds whenever `Ends(t, m)` does for all `m < n`,
then it holds for all `n`. This is true of every formula; what the theorems prove is its premise, the step of the induction (and `RankType`, that there is an `n` to start from). `Rank` is a cardinality, so that it needs sets that are finite:
`FiniteWorkers` and `FiniteLoops` say that a program has finitely many threads.

Only model-checked: `StepsEnabled`, as a part of the three properties above, and the runs that are expected to find a violation.

## Plan

The modules were written bottom up: the descriptor that everything owns, what composes two of them (Pipe), the wrappers of other resources (Process, Pthread, sockets, streams and lists), then what uses them concurrently
(Cancellation, EventLoop); each first checked, then proved. Every refinement, safety and liveness property of a passing run has its theorem; what these leave to TLC is `StepsEnabled`. What is left is under "Not modelled".

## Not modelled

Stat (accessors over a copied struct, and an `operator=` that calls itself whatever the state), the accessors of EpollEvent, `wait()` of an empty container (a single call that fails by its
argument), the position of a directory stream, the printing of addresses, the errno values that no modelled call returns, the commented-out parts (forkto, PipeStream), template helpers, the texts of exceptions, build files and tools. The
kernel is a model of what the library relies on; `close` frees the number whatever it returns (Linux).
