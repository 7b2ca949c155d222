# TLA+ models of ucxx

This directory holds TLA+ models of the ucxx C++ utility library (`src/`). TLC checks them. Each model is translated from the source, and `PROJECT.json` maps every definition that models code to the lines it stands for.

## 1. The system

ucxx is a small portable library. Its parts and their state:

| Part | Source | State | Operations |
|---|---|---|---|
| ByteArray | `ByteArray.{h,cpp}` | a `std::vector<char>` | append, size, constData (slice, clear and indexing are called nowhere) |
| Variant (value model) | `Variant.h` (not in `src/`; spec.md §3) | a tag + payload: Invalid, Null, Boolean, Integer (32-bit), Real (double), String, List, Map (sorted by key) | constructors, accessors |
| ByteArraySerializer (codec) | `ByteArraySerializer.{h,cpp}`, `IVariantSerializer.h` | `m_byteArray`, read cursor `m_index` | `pushValue`, `popValue`, `reset`, `initWith`, `available`; the private `push*`/`pop*` readers and writers |
| Mutex / MutexLocker | `src/Mutex.cpp`, `Mutex.h` | a recursive pthread mutex / Windows mutex (`CreateMutex`) | `lock`, `unlock`, `tryLock`, RAII lock |
| Semaphore | `Semaphore.cpp`, `src/Semaphore.h` | three builds: POSIX `sem_t`; Apple `m_count` + two mutexes + a condition variable; Windows semaphore handle + shadow `m_count` | `wait(ms)`, `notify(n)`, `value()` |
| Queue\<T\> | `src/Queue.h` | `std::queue`, a Mutex, a Semaphore that counts items | `enqueue`, `dequeue`, `head`, `count`, `clear` |
| Thread | `Thread.{h,cpp}` | OS thread, start semaphore, `m_running` under a Mutex | `start`, `join`, `terminate`, `isRunning`, `sleep` |
| TcpSocket / Socket | `TcpSocket.{h,cpp}`, `src/Socket.cpp` | descriptor `m_socket`, peer address, last error | `connectToHost`, `close`, `read*`/`write*`, `readLine`, `available` |
| TcpServer | `TcpServer.cpp`, `src/TcpServer.h` | `m_pServerSocket` under a Mutex | `listen`, `accept`, `close`, `isListening` |
| StringUtils | `src/StringUtils.h` | none | trimming and number formatting |

How the parts interact:

- Queue is built from Mutex and Semaphore. Its correctness depends on the semaphore counter tracking the number of items across four separate steps per operation.
- Thread uses a Semaphore to hold the new POSIX thread until `start()`.
- TcpServer owns a TcpSocket and hands out new ones from `accept()`. Both read the descriptor under a Mutex and then use it outside the lock.
- The codec is single-threaded. Its difficulty is the wire format: recursion through List and Map, little-endian two's-complement integers, and length prefixes. It also has a cursor that moves on failure.

Behaviours that are hard to test, and that the models target (all listed in `PROJECT.json` "hazards", each at its line):

- **Queue:**
  - the interleaving of `dequeue`'s wait-then-lock with `enqueue` and `clear`;
  - `clear()` waiting on the semaphore while it holds the mutex;
  - a signal interrupting `sem_wait`, whose `false` result `dequeue()` ignores.
- **Semaphore:**
  - Apple build: a lost wake-up between the count check and `pthread_cond_wait`, and a `false` return from an untimed wait;
  - Windows build: drift of the shadow counter.
- **Codec:**
  - a failed `popValue` leaves the cursor inside the value;
  - truncated input and length fields larger than the buffer;
  - bools read from arbitrary bytes (UB);
  - repeated map keys; nested values.
- **Thread:**
  - destroying a Thread that was never started;
  - termination while `m_pMutex` is held (an abandoned Windows mutex).
- **Sockets:**
  - `close()` leaves `m_socket` set, so the destructor closes the number twice;
  - `accept` uses a descriptor that `close()` may have released;
  - `listen` is check-then-act;
  - `connectToHost` leaks its descriptor on a failed or concurrent connect;
  - `readLine` never ends on EOF.

Properties that make each part correct:

- **Codec:** decoding what was encoded gives back the same value and consumes exactly its bytes. A truncated value fails. The cursor never passes the end. A failed pop can be retried once more bytes arrive (spec.md §7).
- **Queue:**
  - `dequeue` only pops a non-empty queue;
  - interrupted waits never leave the semaphore behind the queue;
  - an item is never left queued while a consumer sleeps;
  - `clear()` returns;
  - the semaphore counts the items.
- **Semaphore:** it behaves as an abstract counting semaphore (a `wait` that returns true takes one unit, `notify` adds units), a timed wait returns, and a waiter with a positive count is not left asleep.
- **Thread and sockets:**
  - `start` eventually runs `run()` (`StartedRuns`, run thread);
  - `join` after `start` returns;
  - a descriptor is closed exactly once, and only by its owner;
  - at most one listening socket exists.

## 2. Modules and how they correspond to the code

### `Variant.tla` (from spec.md §3)

`Variant.h` is not among the sources, so this module is modelled from the spec. A Variant is a record `[type, val]`:

- a Real carries its 8 IEEE-754 bytes;
- a String is a sequence of bytes;
- a List is a sequence;
- a Map is a function from byte strings to Variants.

`StringLess` is `std::string`'s `operator<` (lexicographic over bytes), which gives the key order of `std::map`.

### `ByteArray.tla` (`ByteArray.cpp`)

`m_data` is a sequence of bytes. The module has the members the codec calls: `EmptyByteArray` (the default constructor), `size`, `appendChar` (`append(char)`), `appendBuffer` (`append(buffer, size)`) and `constData` (a read at an offset, past the end an unspecified byte). The other members are called nowhere in the sources.

### `ByteArraySerializer.tla` (`ByteArraySerializer.cpp`)

- **Encoding:** `pushValue` and every `push*` are operators that take `m_byteArray` and return it with the exact bytes the code appends, through the ByteArray operators.
  - `cTypeSignature` gives the signature bytes, appended with `appendChar`.
  - `pushRawValue` appends the representation with `appendBuffer`; the representation is `LittleEndian` / `IntBytes` / `UnsignedBytes`, two's complement for negatives.
  - `pushList` and `pushMap` fold `pushValue` over the elements (`FoldLeft`).
  - `pushMap` writes keys in `StringLess` order, which is `std::map` iteration order.
- **Decoding:** `popValue` and every `pop*` are operators from (bytes, cursor) to a *set* of outcomes `[ok, val, idx]`. It is a set because `popRawValue<bool>` on a byte other than 0/1 is undefined behaviour (`BoolOf`).
  - `idx` is where `m_index` is left, on success *and on failure*, exactly as the code leaves it.
  - `available` is `size() - m_index` in unsigned arithmetic: if the cursor is past the end the result wraps, which the model keeps as `HugeCount`.
  - `Load` reads through `constData`; the wrap above would let reads past the end happen, and `CursorInBounds` shows none does.
- **State:** `byteArray` is `m_byteArray` and `index` is `m_index`. The actions are:
  - `PushValue(v)`: `pushValue` on `m_byteArray`; `Encoding[v]` is `pushValue` on an empty array, used by the properties;
  - `PopValue`: `popValue`, choosing one outcome;
  - `Reset`: `reset`;
  - `InitWith(v, n)`: `initWith` with the first `n` bytes of the encoding of `v`, which is a complete or truncated message;
  - `InitWithGarbled(b)`: `initWith` with a received array `b` from the constant `Garbled`, bytes that no `pushValue` writes.
- **History variables:** `segs` records which values the array is made of (a Garbled array is one `Garbage` segment), and `lastPop` records the last pop. They exist only for the properties.

### `Queue.tla` (`src/Queue.h`, POSIX and Windows `Semaphore.cpp`, `src/Mutex.cpp`)

Each thread has a program counter `pc`. Every step of the code between two points where another thread can intervene is one action:

- **enqueue:**
  - `EnqueueLock` is the MutexLocker at line 49;
  - `EnqueuePush` is line 50;
  - `EnqueueNotify` is `sem_post` at line 51;
  - `EnqueueUnlock` is the scope exit.
- **dequeue:**
  - `DequeueWait` is `sem_wait` succeeding at line 35;
  - `DequeueInterrupted` is `sem_wait` failing with EINTR (only when the constant `Interruptible` is TRUE). The counter may be positive by then, because a signal can win against a post that raced the blocked waiter;
  - `DequeueLock` is line 36;
  - `DequeuePop` is lines 37-38, which on an empty queue moves to the terminal `"undefined"` state that stands for the UB of `front()`;
  - `DequeueUnlock` is the scope exit.
- **clear:**
  - `ClearLock` is line 79;
  - `ClearWait` and `ClearWaitInterrupted` are one iteration of the loop at 80-83, with `drained` as `i`;
  - `ClearReset` is line 84;
  - `ClearUnlock` is the scope exit.
- **head / count:** `HeadLock` / `CountLock` take the mutex (lines 60, 70), and `HeadReturn` / `CountReturn` read and unlock. `front()` on an empty queue is the same UB as in `dequeue`.
- **Windows semaphore** (constant `Build = "win"`): `sem` is the kernel semaphore and `mcount` the shadow `m_count` that `value()` returns. `DequeueWait` and `ClearWait` are `WaitForSingleObject` taking a unit (line 53), and `WaitShadow` is the later `m_count--` under `m_pMutex` (lines 56-58). `EnqueueNotify` is `ReleaseSemaphore` plus `m_count = previous + 1` (lines 158-160). Each `m_pMutex` section contains no call that blocks, so it is one step. `WaitForSingleObject(INFINITE)` is never interrupted, so `Interruptible` is FALSE for this build.

`owner` is the mutex, and `Acquire` / `Release` model `Mutex::lock` / `unlock`. `sem` is the `sem_t` value. `pushed` numbers the items and bounds the enqueue calls, and `delivered` records what `dequeue` returned.

### `CountingSemaphore.tla` (the contract of `src/Semaphore.h`)

This is the abstract semaphore every build should implement. `count` is the counter and `apc[t]` is idle or waiting. The actions are:

- `Call(t, m)`: a thread enters `wait`, either `wait(0)` ("infinite") or `wait(ms)` ("timed");
- `Acquire(t)`: the thread takes a unit when there is one;
- `GiveUp(t)`: a timed call returns false;
- `Post`: `notify` adds one unit.

Initially the count is 0 and no thread is inside `wait`.

An untimed wait never returns false.

### `SemaphoreApple.tla` (`Semaphore.cpp`, `__APPLE__` build)

`count` is `m_count`. Each section that holds only `m_countMutex` is one atomic step. `waitOwner` is `m_waitMutex`, and `sleeping` is the set of threads blocked on `m_waitCond`.

- **wait(ms):**
  - `WaitTake` / `WaitMiss` are lines 66-72;
  - `WaitLock` is line 74;
  - `CondWait` releases the mutex and sleeps (lines 76-77 and 88);
  - `TimedOut` and `SpuriousWake` are the other ways the cond wait returns;
  - `Relock` is the cond wait taking the mutex back;
  - `WaitUnlock` is line 90;
  - `RecheckTake` / `RecheckFail` are lines 92-102.
- **notify(n):** n rounds of `NotifyIncrement` (lines 166-168) and then a signal (line 169). The signal either wakes one sleeper (`NotifySignalWake`) or is lost (`NotifySignalLost`).

`Abs` instantiates `CountingSemaphore` with a refinement mapping: a thread is "waiting" whenever its `pc` is not idle. `Refines` is the abstract safety specification. With timed waits alone it says no more than the count guards at lines 67 and 94, so no run checks it. With untimed waits (`Modes = {"infinite"}`) TLC finds it violated: see the observations.

### `TimedWait.tla` (deadline arithmetic)

This module covers the four places that turn "now + ms" into a `timespec`: the Apple and POSIX timed `Semaphore::wait`, and the Apple and POSIX `Thread::sleep`.

- Each site is one operator over `<<tv_sec, tv_nsec>>`.
- `Normalise` is the carry at lines 85-86, 117-118 and Thread.cpp 152-153.
- `Arm` is one computation from a chosen clock reading and timeout.

### `Mutex.tla` (`src/Mutex.cpp`)

A mutex is a value `[owner, depth]`, and the module gives the operations on it. `UnlockedMutex` is the constructor. `lock` and `unlock` are recursive, as the pthread attribute `PTHREAD_MUTEX_RECURSIVE` and a Windows mutex both are. `unlock` by a thread that does not own the mutex leaves it unchanged (EPERM, or `ReleaseMutex` failing). `CanLock(m, t, dead)` says when `lock()` returns for `t`. The set `dead` holds the threads whose hold the OS hands on. On Windows these are the ended threads: the next wait takes the mutex over and returns `WAIT_ABANDONED` (`Abandoned`), and line 50 asserts `WAIT_OBJECT_0`. On POSIX `dead` is empty, because a plain mutex whose owner ended stays locked.

### `Thread.tla` (`Thread.cpp`)

The model has the runner thread (`rpc`, threadRunner) and the owning client thread (`cpc`). `mutex` is `m_pMutex` (module Mutex), `startSem` is `m_pStartSemaphore`, `running` is `m_running`, and `alive` says the object has not been destroyed. The build is chosen in `Init` and never changes: `build` from `Builds`, and `asserts` (no `NDEBUG`) from `AssertModes`. One run covers every combination. The builds differ as follows:

- **POSIX:**
  - the runner blocks in `sem_wait` until `Start`;
  - `Terminate` sets a pending `pthread_cancel`, which `CancelPoint` carries out at a cancellation point (the `sem_wait`, or inside `run()` when `RunCancellable`).
- **Windows:**
  - the runner is created suspended, and `Start` is `ResumeThread`;
  - `Terminate` stops the runner wherever it is, also while it holds `m_pMutex`;
  - `Dead` is then `{Runner}`, so the next `isRunning` takes the abandoned mutex over. It returns (`PollReturn`), or, with asserts, it aborts at `Mutex.cpp:50` (`PollAbort`).

`setRunning` is two steps, `LockTrue`/`SetTrue` and `LockFalse`/`SetFalse`. `isRunning` is `PollCall`/`PollReturn`, and `join` is `JoinCall`/`JoinReturn`. `Destroy` is `~Thread`.

### `ReadLine.tla` (`TcpSocket::readLine`, `TcpSocket.cpp` 175-197)

`input` holds the bytes the peer will send; `sent` keeps all of them for the property. After the input the peer either closes (`peerClosed`) or stays silent. The loop body is:

- `RecvByte`: `recv` returns a byte, and CR or LF is not kept;
- `RecvEof`: `recv` returns 0 and `c` is unchanged;
- `RecvTimeout_`: `recv` fails after the 1 s `SO_RCVTIMEO` the accepting constructor sets (lines 31-44).

`Continue` is the do-while test at line 194. `Expected` (RECURSIVE) is the reference definition of "the first line": the characters before the first LF, without CR, at most `size` of them.

### `Sockets.tla` (`TcpSocket.cpp`, `TcpServer.cpp`)

The module composes the TcpSocket objects and the TcpServer with the operating system's descriptor table. `fdOwner[n]` is the object number `n` was opened for. `socket()` and `accept()` return the lowest free number, as POSIX does.

- A call an object makes on a number that now belongs to another object sets `misuse`. `Use` covers recv, select, accept and shutdown; `CloseFd` covers close.
- **TcpServer:**
  - `listen` is `ListenCheck` (line 40), `ListenSocket`, `ListenBind` and `ListenAssign` (75-77);
  - `accept` is `AcceptNative` (the descriptor read under `m_mutex`) and `AcceptAccept` (select and accept without the lock);
  - `close` holds `srvOwner` (`m_mutex`) over its three closes of the server descriptor: `close()`, then `~TcpSocket`'s `close()` and `::close`.
- **TcpSocket:**
  - `Construct` is `TcpSocket()`;
  - `connectToHost` is `ConnectClose`, `ConnectSocket` and `ConnectFinish`, where a failed connect leaks the descriptor as line 160 does;
  - `Close` is `close()`, which keeps `m_socket`;
  - `Read` is one recv, send or ioctl when `isConnected()`;
  - `~TcpSocket` is `DestroyCall` and `DestroyFinish`, two closes.

Threads call the operations in any order, at most `MaxOps` each.

The MC modules (`MCQueue.tla`, `MCByteArraySerializer.tla`, `MCSemaphoreApple.tla`, `MCReadLine.tla`, `MCSockets.tla`) give the constants. They supply model values for threads and objects, the value set the codec is checked over, the byte sequences `readLine` receives, and a symmetry set for the interchangeable threads and sockets. `Thread` and `TimedWait` are checked directly from their cfgs.

## 3. Runs

| Run | cfg | Expect | What it shows |
|---|---|---|---|
| serializer_roundtrip | MCByteArraySerializer.cfg | pass (120k states) | Over any sequence of push / pop / reset / initWith of complete or truncated encodings of 8 values (every type, a negative int, a nested list, a two-key map whose keys must be written sorted), and of 4 corrupt arrays (a repeated map key, unsorted keys, a bool byte of 2, a string length of 2^32 - 1): the cursor stays in bounds (`CursorInBounds`); every pop from the start of a complete value returns that value and ends where the next begins; a truncated final value fails (`DecodeFaithful`). |
| queue_wakeup | MCQueue.cfg | pass | POSIX build, 2 producers and 2 consumers, 5 items: no pop on an empty queue; under weak fairness no item stays queued while a consumer sleeps in `wait` (`NoStrandedItems`). |
| queue_clear | MCQueueClear.cfg | pass (15.8k states) | Windows build, 2 producers, 2 consumers, a `clear()` caller and a `head()`/`count()` caller, 5 items. The kernel count + pending notifies + pending pops + items drained by clear = queue length (`SemaphoreTracksLength`); no pop on an empty queue; `value()` never reports more than the kernel count plus the waits still to decrement `m_count` (`ValueNeverAhead`). |
| queue_clear_hangs | MCQueueClearHangs.cfg | violation | `ClearReturns`: a `clear()` that enters its loop eventually returns. Violated: a consumer past `wait` and blocked on the mutex leaves `clear()` waiting for a count that never comes, and everyone hangs. |
| queue_eintr | MCQueueEintr.cfg | pass (36.7k states) | POSIX build, 2 producers, 2 consumers, `clear()`, 5 items, with signals interrupting any `sem_wait` of `dequeue` or of `clear()`'s loop. The counter may run ahead of the queue but never behind it, in-flight steps counted (`SemaphoreNeverBehind`). EINTR loses waits, never posts: its harm is a pop on an empty queue, not an item stranded while consumers sleep. |
| semaphore_apple | MCSemaphoreApple.cfg | pass (10.8k states) | Two waiters making timed waits and one notifier posting up to 2 units, with spurious wake-ups. Every `wait()` returns (`TimedWaitReturns`). |
| semaphore_apple_lost | MCSemaphoreAppleLost.cfg | violation | `NoLostWakeup`. The notify comes between `WaitMiss` and `CondWait`, the signal finds nobody asleep, and the waiter then sleeps for ever with `m_count = 1`. |
| timed_wait | MCTimedWait.cfg | pass | The POSIX semaphore and both `sleep` deadlines are exactly `ms` after the clock reading (`DeadlineIsTimeout`) and normalised (`TypeOK`). This holds for timeouts at 0/999/1000-ms boundaries and up to 2·10^9 ms, and for start instants with `tv_nsec` near 10^9. |
| thread | MCThread.cfg | pass (634 states) | POSIX and Windows builds, with and without asserts, with terminate possible at any time and `run()` containing a cancellation point. `m_running` is false after `join` on a thread that was not terminated (`FlagClearedOnExit`), `join` returns, `isRunning` never blocks for good (`IsRunningReturns`), also when `TerminateThread` abandons `m_pMutex`, and a started runner eventually sets `m_running` unless terminated first (`StartedRuns`). |
| readline | MCReadLine.cfg | pass | Every input of up to 4 bytes over {a, CR, LF} with `size` 1-3, on a peer that either stays open (the receive timeout ends the call) or closes after its bytes. A line returned without error is `Expected(sent, size)` (`LineIsFirstLine`). |
| sockets_double_listen | MCSocketsDoubleListen.cfg | violation | `SingleListener`: at most one listening socket is open. Two threads with three calls each, over three socket objects and two free descriptor numbers. Both threads' `listen` pass `isListening()` (line 40) before either assigns. The second `m_pServerSocket = new TcpSocket(sock)` (line 76) overwrites the first, and the first listener stays open where `close()` cannot reach it. |
| sockets_foreign_close | MCSocketsForeign.cfg | violation | `NoForeignDescriptorUse`. A client's destructor closes its number once in `close()`; another thread's `listen` gets the number from `socket()`; the destructor's `::close` then closes the listener's socket. |

Each property of a passing run has a mutant in `PROJECT.json`: a plausible bug in the mapped code that TLC then finds. The mutants are:

- notify twice or not at all;
- the Windows wait without its `m_count--`;
- wait on a zero count;
- clear resetting one iteration early;
- decoding negatives without the borrow;
- the integer length check off by one;
- an unguarded re-check in the Apple wait;
- `m_waitMutex` not released at line 90;
- the timespec carry dropped;
- a deadline in microseconds;
- `start` not posting;
- the runner exiting before `setRunning(false)`;
- `setRunning` not unlocking;
- a Windows mutex that is never handed on when its owner ends;
- CR kept in the line.

### Findings

The four violation runs:

1. **`clear()` can hang, and with it the queue** (`Queue.h:82`, run queue_clear_hangs). spec.md §4.3 calls the race a correctness risk. The model shows it is a permanent deadlock: the mutex is held while waiting on a count that a blocked dequeuer already took.
2. **Apple lost wake-up** (`Semaphore.cpp:74`, run semaphore_apple_lost). `notify` signals without `m_waitMutex`. A waiter between its count check and its cond wait then sleeps for ever with a unit available.
3. **Double close of descriptors** (`TcpSocket.cpp:52`, `TcpServer.cpp:130`, run sockets_foreign_close). `close()` keeps `m_socket`, and every later close may hit a number that another thread has since been given.
4. **Two listeners** (`TcpServer.cpp:40`, `:76`, run sockets_double_listen). `listen` checks `isListening()` and assigns `m_pServerSocket` under separate locks. Two concurrent calls both succeed, and one listening socket leaks, where line 41 says a second `listen` fails ("Already listening").

### Observations reproduced by one change to a cfg

Each of these is a property of the modules that TLC finds violated when a passing run's cfg is changed as shown. Every one was checked, but none is kept as a run of its own.

| Observation | Source | Change | Property violated |
|---|---|---|---|
| EINTR in `dequeue`: the untimed POSIX wait does not retry on EINTR, unlike the timed one at line 121. `dequeue` ignores the `false` and pops an empty queue. | `Semaphore.cpp:107` | MCQueueEintr.cfg: `INVARIANT NoPopOnEmpty` | `NoPopOnEmpty` |
| A failed pop moves the cursor into the value. spec.md §7 expects callers to retry after more data arrives, and the retry decodes a value from the middle of what was sent: a truncated Boolean followed by an Invalid decodes the `X` byte as a bool. | `ByteArraySerializer.cpp:204`, `:287` | MCByteArraySerializer.cfg: `PROPERTY NoPhantomValue` | `NoPhantomValue` |
| Decoding accepts what encoding never writes: a Map with a repeated key (the later pair overwrites the earlier, line 335), keys out of order, and a bool byte other than 0 or 1 (line 47). | `ByteArraySerializer.cpp:335`, `:47` | MCByteArraySerializer.cfg: `PROPERTY DecodeCanonical` | `DecodeCanonical` |
| Apple `wait(0)` returns false after a wake-up whose unit was taken, or after a stale signal. `Semaphore.h` promises false only on timeout. | `Semaphore.cpp:100` | MCSemaphoreApple.cfg: `Modes = {"infinite"}` | `Refines` |
| The Apple timed wait is too short: the sub-second part is multiplied by 1000, not 1000000, so `wait(1)` waits 1 µs. | `Semaphore.cpp:84` | MCTimedWait.cfg: `Sites = {"semApple"}` | `DeadlineIsTimeout` |
| Windows `terminate` inside `setRunning` abandons `m_pMutex`. The next `isRunning` gets `WAIT_ABANDONED`, and a build with asserts aborts at `Mutex.cpp:50`. `Thread.h` warns only that the flag may stay wrong. A release build takes the mutex over and goes on. | `Thread.cpp:114`, `Mutex.cpp:50` | MCThread.cfg: `INVARIANT NoAssertFailure` | `NoAssertFailure` |
| Destroying a Thread that was never started deletes the semaphore its runner is blocked on. | `Thread.cpp:77` | MCThread.cfg: `DestroyUnstarted = TRUE`, `MayTerminate = FALSE` | `NoUseAfterFree` |
| `readLine` spins for ever on EOF, where `TcpSocket.h` says "till EOL or socket error". | `TcpSocket.cpp:194` | MCReadLine.cfg: `PROPERTY ReadLineReturns` | `ReadLineReturns` |
| Windows `value()` goes negative: a `notify()` between a wait's `WaitForSingleObject` and its `m_count--` overwrites `m_count` with the kernel count, and the pending decrement is applied on top. Two waits and one notify reach -1. `value()` is called nowhere in the sources. | `Semaphore.cpp:57`, `:160` | MCQueueClear.cfg: `INVARIANT ValueNonNegative` | `ValueNonNegative` |
| A descriptor leaks: `connectToHost` returns false after a failed `connect` without closing `sock` (line 160). Also, two concurrent `connectToHost` calls on one socket each open a number, and the later `m_socket = sock` (line 156) overwrites the other. | `TcpSocket.cpp:160`, `:155` | MCSocketsForeign.cfg: `INVARIANT NoLeakedDescriptor` | `NoLeakedDescriptor` |

Other observations:

- `Queue.h` has an inner `#ifndef QUEUE_H` guard with no matching `#endif`, and includes inside the namespace. This is not modelled.
- spec.md mentions a timed `dequeue`, which the code does not have.

### Bounds, and why they are enough

- **Queue:**
  - 2 producers, 2 consumers and 1 clearer, with 5 items, give every ordering of two concurrent enqueues against two dequeues, with items left over for `clear` and `head`.
  - The Windows drift needs one notify between a waiter's two steps and a second waiter after it; two consumers and two producers reach it.
  - `clear` meets the queue with 0, 1 and 2 items while a dequeuer sits between its wait and its lock. The hang needs 2 items and 2 consumers, and is found.
  - `MaxItems` caps the item counter `pushed`; producers stop after it, which is why deadlock checking is off in the queue runs: the bounded system is meant to stop.
- **Codec:**
  - 8 values cover every type tag, a negative integer (the borrow path), a nested List, and a two-key Map, whose pairs must be written in key order.
  - Every prefix of every encoding is a possible `initWith` input, and so is each corrupt array, which reaches the repeated key, the unsorted map, the undefined bool and the unsigned wrap of a huge length.
  - `MaxBytes = 8` lets a value be pushed after a loaded one, so a second value can follow a first.

- **Semaphore (Apple):**
  - Two waiters and two posted units are needed: the false return needs one waiter to steal the other's unit, and the lost wake-up needs one waiter and one notify.
  - `MaxCalls = 2` lets a waiter wait again after a return, which is what makes stale signals possible.
- **TimedWait:** the timeouts and start instants are chosen at each carry boundary (999, 1000, 1001, 1999 ms; `tv_nsec` of 0 and just under 10^9). The largest timeout, 2·10^9 ms, exercises a large quotient.
- **Thread:** join before start is not modelled: `JoinCall` requires `start()`, as the documented use does. One runner and one client is the whole object. `MaxPolls = 2` lets `isRunning` race both `setRunning` calls, and lets it poll again after a terminate. Both builds, each with and without asserts, are explored in the same run.
- **ReadLine:** inputs of up to 4 bytes and sizes 1-3 contain a CR before and after other characters, an LF first, last or absent, and lines both longer and shorter than `size`. `MaxEofReads = 2` bounds how many 0-byte reads the model follows.
- **Sockets:**
  - Two free numbers are the fewest that let one number be closed and handed to another object while a second stays open.
  - Three objects allow a listener, a client and an accepted socket at once.
  - Three calls per thread reach every finding in under 12 steps.

### Fairness

Each thread gets weak fairness on its own actions only: a runnable thread is eventually scheduled. The code relies on no more than this. Strong fairness is not assumed, because a pthread mutex is not fair.

The individual models refine this as follows:

- **SemaphoreApple:** each waiter and notifier is weakly fair while it is inside a call, and a timed wait's timeout is one of the waiter's own steps. `MaxCalls` bounds the calls, so a waiter cannot be overtaken on `m_waitMutex` for ever, which weak fairness alone would allow.
- **Thread:** the runner is weakly fair, and so are the client's returns from `isRunning` and `join`. The client is never forced to call anything.
- **ReadLine:** `recv` eventually returns something: a byte, 0, or the timeout.
- **Sockets:** only safety is checked, in violation runs, so no fairness is assumed.

## 4. Plan

Done so far:

- Queue with the POSIX and Windows semaphores, and all five of its operations; the codec over ByteArray; Variant.
- The Apple semaphore, with its refinement mapping to `CountingSemaphore` (checked with untimed waits, where it fails).
- `Mutex`, with recursion and abandonment, composed into `Thread`.
- Deadline arithmetic, `Thread`, `readLine`, and the socket descriptor lifecycle.

Next, in order:

1. The Windows timed wait (`WAIT_TIMEOUT`) and the POSIX timed wait's EINTR loop (lines 119-131), which no modelled caller uses.
2. Sockets:
   - descriptor 0 and `isConnected`.
3. `tryLock`, if a modelled caller comes to need it.

## 5. Not modelled

- **StringUtils:** text formatting with no state.
- **Name resolution:** I/O only.
- **WinSock start-up** (`Socket.cpp` 16-20, 78-94): `initializeWinSock()` returns `WSAStartup(...) != 0`, which is true when start-up *fails*. So `s_winSockInitialized` is set only after a failure, and every `Socket` constructor calls `WSAStartup` again after a success. `WSACleanup` then runs only when start-up failed. This needs no interleaving, so a Windows unit test that counts `WSAStartup` calls shows it. It is recorded here, not modelled.
- **Thread priorities:** OS calls with no shared state. `sleep` is modelled only through its deadline (`TimedWait`).
- **`~TcpServer`:** it deletes the server socket without the lock. Destroying a server other threads still use is the caller's error.
- **Peer address and port, and error strings:** plain setters with no effect on control.
- **`ByteArray` members called nowhere:** `slice`, `clear`, `operator[]`, `data`, `append(ByteArray)`, `append(string)`, and the constructors other than the default one.
- **`Mutex::tryLock`:** no caller in the sources calls it. Queue, SemaphoreApple and Sockets keep a plain owner variable instead of the Mutex module: none of their callers re-enters a mutex or ends while holding one, so the owner variable is exact there.
- **Strings and lists over 4 GiB:** the length truncation at `ByteArraySerializer.cpp:239` needs sizes beyond 2^32.
