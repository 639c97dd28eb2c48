# Verification of the U2RX_cc kernel

TLA+ models of the real-time kernel of the Fullhan FH8626V300 camera SDK
(`src/kernel`, derived from RT-Thread 3.1.3) and of services built on it (pipes, the
serial driver with `poll`, asynchronous I/O on a work queue), model-checked with TLC.
Every safety property that a run shows to hold is also proved with TLAPS, for any number
of threads and any sizes. The models follow the configuration the product is built
with, `src/out/rtconfig/rtconfig.h`: one core (no `RT_USING_SMP`), 256 priorities, soft
timers, semaphores, mutexes, events, mailboxes, message queues, memory pools, a
one-level timer list, no signals.

Contents: [the system](#the-system), [modules and code](#modules-and-code),
[runs](#runs), [bounds](#bounds), [fairness](#fairness), [proofs](#proofs),
[where code and comments disagree](#where-the-code-and-its-comments-disagree),
[not modelled](#not-modelled), [plan](#plan).

## The system

The SDK has 1.26 million lines; most are vendored (lwIP, mbedTLS, file systems),
generated, or demonstration programs around binary media libraries. The part with
the SDK's own concurrency is the kernel. Everything else (USB host, DMA, SPI, MMC,
lwIP's `sys_arch.c`, the POSIX layer, the camera pipeline) blocks and is woken
through it.

| component | state | operations | what makes it hard | correct means |
|---|---|---|---|---|
| scheduler (`scheduler.c`) | ready list per priority, two-level bitmap, current thread, lock count | `rt_schedule`, insert, remove, enter/exit critical | the bitmap is a second copy of "is the list empty"; interrupts insert while the scheduler is locked | bitmap = lists; every switch goes to a highest ready thread; no switch while locked |
| threads (`thread.c`, `idle.c`, `clock.c`) | status, priority, error number, list node and timer of each thread; the defunct list | create, start-up, suspend, resume, sleep, delay, yield, change priority, exit, delete, reap | status is tested with interrupts enabled and acted on later; deletion takes four sections; a time-out fits between any two | a thread is in the one list its status says; a thread timer runs only while its thread is suspended |
| semaphore (`ipc.c`) | 16-bit value, suspend list | take, release (threads, interrupt handlers), reset, detach | release against time-out, reset against take; wrap of the value | no token lost or given twice; nobody sleeps on a token; a limited wait ends |
| mutex (`ipc.c`) | value, owner, hold count, original priority, suspend list | take, release, detach | ownership passes to a thread that has not run yet; priority inheritance with several mutexes | one owner; owner at least as urgent as its waiters; priority given back |
| event (`ipc.c`) | 32 flags, suspend list, per-thread mask and option | send, receive (AND, OR, CLEAR), reset, detach | one send wakes several threads, some of which clear flags | no thread sleeps on flags that are there; a cleared flag satisfies one thread |
| mailbox (`ipc.c`) | ring of words, two suspend lists | send, wait-send, urgent, receive, reset, detach | offsets at their limits; both sides loop after a wake-up | a bounded queue; nobody waits while there is mail or room |
| message queue (`ipc.c`) | node pool, queue and free list, suspend list | send, urgent, receive, reset, detach, delete | messages are copied with interrupts enabled between two sections | a bounded queue; each node in one place |
| soft timers (`timer.c`) | sorted list, ACTIVATED flags, due ticks; the timer thread's locals | start, stop, set time, detach; the timer thread's loop | 32-bit wrap; the list is read and the thread suspended in two sections; call-backs run with interrupts enabled and change the list being walked | list in order; no active timer is slept through; a stopped timer is not called |
| memory pool (`mempool.c`) | chain of free blocks, count of suspended threads, suspend list | alloc, free, detach | a woken thread loops and may find the block taken; the count is kept apart from the list | no block out twice; no waiter overlooked |
| completion (`completion.c`) | counting flag, the one waiting thread | init, wait, done (interrupt handlers) | done against time-out, done before the wait | no completion lost, none left over for the next user |
| wait queue, `poll` (`waitqueue.c`, `fs/src/poll.c`) | wake-up flag, nodes with an event filter; the poll table | add, remove, wait, wake-up; `poll` | the node stays linked while its thread does something else; look, then wait | a wake-up between look and wait is not slept on |
| ring buffer, pipe (`ringbuffer.c`, `pipe.c`) | two indices with mirror bits; readers, writers, reference count, mutex, two wait queues | put, get, forced put; open, close, read, write | the mutex is released before the wait; ends close while the other side waits; a `size_t` count becomes a 16-bit length | bytes in order; no call waits for what is there |
| serial driver (`serial.c`, `uart.c`) | receive FIFO, two completions, wait queue, the transmitter's interrupt enable | read, write, poll; receive and transmit interrupts | overrun between reads; the interrupt is enabled before the wait | the latest bytes in order; every call ends |
| work queue, asynchronous I/O (`workqueue.c`, `posix_aio.c`) | work list, current work, the worker; `aio_result` of each request | queue, cancel, cancel and wait; submit, `aio_cancel` | the worker looks at the list and suspends itself with interrupts enabled; cancel against completion | no work is slept on; cancelled work neither queued nor running; what is settled stays so, and every request is settled |
| POSIX layer (`compat/posix`) | condition variables, read-write locks, barriers, mqueue | | built on semaphores and mutexes | planned |

How they interact: pipe, serial driver and asynchronous I/O are compositions. A pipe
is a ring buffer under a mutex with two wait queues; a serial file is a FIFO shared
with an interrupt handler, two completions and a wait queue that `poll` hooks into
while it takes and releases the file system lock; asynchronous I/O is work whose
function blocks on a device.

Every blocking operation has the same shape. With interrupts disabled the caller
links its list node into the object's suspend list, sets its status to SUSPEND and
starts its thread timer; it enables interrupts and calls `rt_schedule`; when it
runs again `thread->error` tells it what happened. Three parties may end the wait:
another thread, an interrupt handler, and the tick (`rt_thread_timeout`). What goes
wrong in such code goes wrong between two interrupt-disabled sections, so that is
the grain of the models.

## Modules and code

**One step is one interrupt-disabled section**, or one access made with interrupts
enabled. Only the thread in `k.cur` takes thread steps; the tick interrupt and
interrupt handlers come between any two steps. `pc[t]` says where in a kernel call
thread `t` is; a thread at `"run"` may make any call its role allows.

| module | models | notes |
|---|---|---|
| `Kernel` | `scheduler.c`, the list and status primitives of `thread.c`, `rt_ipc_list_*` of `ipc.c`, `__rt_ffs` | no variables: kernel functions are operators from a kernel state `k` to the next, because they run with interrupts disabled and call one another. Ends with the kernel invariant `KernelInv(k, limbo)` |
| `Threads` | `thread.c`, `idle.c`, the tick of `clock.c` | threads are created, started, controlled, deleted and reaped |
| `Ipc` | what the IPC objects share: control points, blocking with a time-out, sleep, `rt_ipc_list_resume_all`, the tick | extends `Kernel`; threads are all started |
| `Sem`, `Mutex`, `Event`, `Mailbox`, `MsgQueue` | the five objects of `ipc.c` | each extends `Ipc` |
| `MemPool` | `mempool.c` | extends `Ipc` |
| `SoftTimer` | the soft-timer half of `timer.c`, timer thread included | extends `Ipc` |
| `Channel` | nothing in the code: the bounded queue that `Mailbox` and `MsgQueue` promise | they implement it (`IsChannel`) |
| `Lock` | a mutex as services use it (`rt_mutex_take` without limit, `rt_mutex_release`) | the owner and the priority to give back: that `value` and `hold` follow from the owner is `FieldsAgree` of `Mutex` |
| `WaitQueue` | `waitqueue.c`, the wake-up filter of `poll.c` | operators on a queue; extends `Kernel` |
| `RingBuffer` | `ringbuffer.c` | operators on a buffer |
| `Completion` | `completion.c` | extends `Ipc` |
| `Pipe` | `pipe.c` | composes `Lock`, `WaitQueue`, `RingBuffer` |
| `Serial` | `serial.c`, `uart.c`, `poll()` with one file, `dfs_lock` | composes `Lock`, `WaitQueue`, `Completion` |
| `WorkQueue` | `workqueue.c` | extends `Ipc` |
| `Aio` | `posix_aio.c` | extends `WorkQueue` |
| `KernelProofs`, `IpcProofs` | | lemmas on the operators of `Kernel` and `Ipc` |
| `ThreadsProofs`, `SemProofs`, `MutexProofs`, `MailboxProofs`, `MsgQueueProofs`, `MemPoolProofs` | | theorems about the module each is named after |
| also in `SemProofs`; `MutexProofs`; `MailboxProofs`; `MemPoolProofs` | | theorems about `Aio` and `SoftTimer`; `Serial`; `Pipe`; `Event`, in the second part of the module. The parts share the lemmas of `IpcProofs` and the variables `k` and `pc`, nothing else; each is about its own specification and rests on its own module's assumptions |
| `MC*` | | instances for TLC |

How the code's idioms are written:

- `k.wait[q]` is the sequence of threads behind list head `q`; `Unlink` is
  `rt_list_remove`, which is correct whatever list the node is in, as in C.
- A thread timer is the flag `k.armed[t]`. `TickTimeout(t)` may come at any time
  while it is set: time-outs in any order, as early as the next tick. The
  hard-timer list itself is not modelled; its order is the order `SoftTimer` models.
- Waiting times are `"NO"`, `"TICKS"`, `"FOREVER"`. The remaining time a loop
  recomputes (`rt_mq_recv`, `rt_mb_*`, `rt_mp_alloc`) may or may not be used up.
- `rt_ipc_list_resume_all` looks at a list with interrupts enabled and takes its
  head later: two steps. `rt_mp_free` takes the head because a count says there is
  one. If the list is empty, C takes the list head for a thread and the `RT_ASSERT`
  of `rt_thread_resume` fails: the caller goes to `"crashed"` and stays there. `WorkQueue` (the list
  head taken for a work) and `Pipe` (a freed device) do the same.
  Loops in which interrupts stay disabled (`IrqOff`) let no tick in.
- `life` says whether an object may still be called. No thread makes a new call
  once a detach or delete has begun: making one is a caller's error, threads that
  are already inside are the kernel's business.
- History variables carry what a property speaks of and the code does not store:
  `balance` (Sem), `held` (Mutex), `sends`/`takes` (Event), `got`, `asleep`
  (Mailbox, MsgQueue), `given` (MemPool), the byte numbers `sent`, `fetched` (Pipe),
  `recv`, `got` (Serial), which are also the bytes' values. They appear in no guard except as bounds.
  `asleep` is who waited when a deletion began and has not been woken by a mail, a
  message or room since (`Served`).
- In `MsgQueue` the nodes' `next` pointers are modelled, not just a sequence,
  since the two-section send and receive work on them.
- `SoftTimer` has the tick at a small modulus with the code's unsigned
  subtraction, and the timer thread's locals, because what it remembers across a
  call-back is what can be stale.
- `RingBuffer!Length` is the conversion of a caller's `size_t` to the `rt_uint16_t`
  length of the ring buffer's functions, modulo `LenModulus`.
- `Aio` lets callers use a block as `posix_aio.c:241` demands ("Simultaneous asynchronous
  operations using the same aiocbp produce undefined results"): it is not submitted while
  in progress or being cancelled, nor cancelled before it is queued (`Queueing`,
  `Cancelling`). The calls about *different* blocks and other work interleave freely.
- In the compositions a call is a table of control points. `Pipe!Takes`, `Wakes`,
  `Waits` list where the mutex and the queues are called and where each call goes
  on, and one action per primitive serves them all.
- In `Serial` the transmitter is external: it is full or not (`UartSends` empties
  it), and its interrupt comes while it is enabled and the transmitter is not full.
  `fh_uart_putc` reads the status and enables the interrupt in two steps.

Operators marked "mutant" in the modules are wrong versions of the definition
that follows them, one per property; substituting one must make TLC find that
property violated.

## Runs

| run | asks | distinct states |
|---|---|---|
| `threads` | Do create, start, control, sleep, lock, exit, delete and reap keep every thread in its list (`ListsOK`), is the inductive invariant of the proofs true, bitmap and timers included (`Inv`), is every switch right (`SwitchToHighest`, `LockedNotPreempted`)? | 0.68 M |
| `sem` | Are tokens conserved against time-outs, resets and the 16-bit wrap (`TokensKept`, `NoLostWakeup`), is the list the set of blocked threads in priority order (`SuspendListOK`), and does a limited wait of the most urgent thread end (`TimedTakeReturns`)? | 33 k |
| `mutex` | One recursive mutex, limited and unlimited waits: does exactly the owner hold (`OwnerHolds`), do value, owner and hold agree (`FieldsAgree`), does the waiter's priority reach the owner and come back (`Inherits`, `PriorityRestored`), does the most urgent thread get through an unlimited wait although a middle one never stops running and others time out (`UrgentGetsThrough`)? | 62 k |
| `mq` | Is each node in one place while messages are copied with interrupts enabled (`NodesKept`), is no receiver left asleep on a message (`NoLostWakeup`) or by a deletion (`DeleteWakesAll`), is it a bounded queue (`IsChannel`)? | 1.2 M |
| `mb` | The same of the mailbox, for receivers and senders | 0.99 M |
| `event` | Is nobody left asleep with its condition true (`NoSatisfiedWaiter`), does one send of a flag satisfy at most one receiver that clears it (`ClearedOnce`)? | 2.3 M |
| `soft_timer` | Across the wrap of the tick, with a thread, an interrupt handler and a call-back using the timers: is the list in order (`Sorted`), do flag and list agree (`ActiveIsLinked`), is a stopped timer never called (`StoppedNotCalled`), does the timer thread not sleep past a timer that threads start (`SleepsOnlyPast`), does each of those leave the list (`Fires`)? | 0.56 M |
| `mp` | Is no block handed out twice or lost (`BlocksOwned`), does a waiter sleep on a free block only while a woken thread is on its way to it (`NoLostWakeup`)? | 1.8 M |
| `pipe` | Named and unnamed, blocking or not, with ends opened and closed at any time: do bytes come out in order (`InOrder`), is each ring buffer operation that of a bounded queue in every state reached (`RingIsQueue`), does no call wait for what is there (`CallsEnd`)? | 0.35 M |
| `serial` | Reads, writes and polls against receive and transmit interrupts: are the latest bytes in the FIFO in order (`RxInOrder`), does the file system lock exclude (`FsLockHolds`), is a transmit completion never left over (`TxPaired`), does no call wait for what has happened, nor a limited poll for ever (`CallsEnd`)? | 0.23 M |
| `aio` | Two clients whose calls interleave at every step: is no work left with a sleeping worker (`WorkNoticed`), is cancelled work neither queued nor running (`CancelIsFinal`), does what was carried out or cancelled stay so until it is submitted again (`SettledStays`), is every request settled (`AioSettles`)? | 66 k |
| `soft_timer_lost` | **violated**: `SleepsOnlyIdle` when an interrupt handler starts a timer | |

`soft_timer_lost`: the timer thread finds no timer (`timer.c:686`), an interrupt
handler starts one, finds the timer thread READY and does not resume it, and the
timer thread suspends itself with no time-out (`timer.c:690`, commented "no
software timer exist, suspend self"). The timer is not served until somebody starts
another. A thread less urgent than the timer thread cannot get into that window,
which is what `SleepsOnlyPast` and `Fires` show in `soft_timer`, with that interrupt
handler at work.

## Bounds

Four or five threads suffice for the cases the code tells apart: one that runs, two
waiters whose order matters, one that wakes them, and the idle thread. Instances
use both equal priorities (the tick interleaves them in any way) and different ones
(a wake-up preempts). `threads` has `NGroup = 2`, so priorities lie on both sides of
a bitmap word; one word is enough elsewhere.

- `Times = {"NO", "TICKS"}` covers `"FOREVER"` for safety: a limited wait may last
  as long as one likes. `mutex` has all three, because `UrgentGetsThrough`
  is about unlimited waits only.
- `Modulus = 3` (`0x10000` in C) and `MaxTokens = 3`: the value wraps. `MaxTokens`
  bounds only releases.
- `HoldModulus = 4` (256 in C), `MaxHold = 2`: recursion, without the wrap that
  `rt_mutex_take` does not guard against. One mutex: the priority properties fail for
  two (below). `OwnerHolds` and `FieldsAgree` are proved for any number, circular waits
  included.
- `MaxSends = 2` per flag: two sends, two receivers that clear.
- `Size = 2`, `MaxMsgs = 2`, two messages: empty, partly filled and full; urgent
  mail wraps backwards from offset zero. Two blocks in the pool, `MaxCount = 3`.
- `TickModulus` 12 or 16 (2^32 in C), time-outs 0 and 2, or 2 and 4: every run goes round
  several times. `Stride = 2` leaves out the odd ticks, `RT_TICK_MAX` among them
  (the code reserves it, see below). `MaxLate` is the assumption the code states at
  `timer.c:551`: the list is looked at before a due tick is half the range old.
- `pipe`: `BufSize = 2`, `LenModulus = 4` (2^16 in C), counts 3 and 5: a write larger than
  the buffer that takes several rounds, every position of both indices and mirrors, full
  and empty, and a count whose length is cut: a write of 5 puts one byte, and with 4 to go
  it hands over the length 0. C rounds the size down to a multiple of 4; nothing in the
  arithmetic depends on it. `CallCounts = {1, 3, 5}` passes as well (0.46 M states, three
  and a half minutes). One reader and one writer, because the wake-up protocol fails for
  more (below).
- `serial`: `Bufsz = 3` and bursts of up to two bytes: the FIFO overruns within one
  interrupt and over several. `UINT_MAX = 2`: the completion's counter sticks.
  The client and the user of the lock have one priority, so the tick interleaves them
  at every step.
- `aio`: one request and one other work, two clients of one priority, less urgent than the
  worker, between which the tick switches at every step: both queue before either resumes
  the worker, one cancels what the other queued, cancels hit each position, and the worker
  is resumed for a list that is empty again (`"crashed"`).
- `MaxNest = 1` nested scheduler lock in TLC; the proofs have any number.

`Sleepers` in `Sem` and `Mutex` says which threads sleep between calls. Threads that
are never asleep keep less urgent ones from running, which is the hard case for
liveness, so the run has both.

No run turns off deadlock checking: a thread at `"run"` always has a step, the tick
too.

## Fairness

- The running thread finishes the kernel call it is in: strong fairness of "some
  thread's `InCall` step". Strong, because the step is disabled whenever the tick
  has just switched threads. It says nothing of *which* thread: that is the
  scheduler's choice, and a ready thread that is outranked for ever gets nothing.
- A running thread timer expires (`TickTimeout`): the tick interrupt keeps coming.
  Strong in `Sem`, where a reset loop with interrupts disabled only delays it.
- Mutex owners that run release at each depth of recursion: an assumption on
  callers without which no lock is live.
- Call-backs of soft timers return; the tick advances.
- In `pipe`, `serial` and `aio` each thread inside a call takes its next step if it
  keeps getting the processor (strong fairness per thread), and the tick keeps
  dividing it among threads of one priority. The UART sends what it holds and its
  interrupt comes; devices answer the worker.
  In `aio` the tick is strongly fair: a client that runs between its calls uses up its
  slice although each call that wakes the worker takes the processor away for a while. Users of the file system lock leave it.
- Nothing is assumed of threads at `"run"`. They may spin for ever.

## Proofs

`KernelProofs` and `ThreadsProofs` prove, for any set of threads, any priorities,
any size of the bitmap and any nesting, under `KernelAssumption` and
`ThreadsAssumption`:

| theorem | statement |
|---|---|
| `Invariance` | `Disciplined => (Spec => []Inv)` |
| `TypeCorrect`, `ListsCorrect`, `BitmapCorrect`, `TimerCorrect`, `RunningCorrect` | `Spec => []TypeOK`, `[]ListsOK`, `[]BitmapOK`, `[]TimerAssert`, `[]RunningIsReady` |
| `SwitchCorrect`, `LockCorrect` | `Spec => SwitchToHighest`, `Spec => LockedNotPreempted` |

`Disciplined` is what callers must respect for the kernel's lists to stay sound:
nobody deletes a thread that sleeps or that exits by itself, a deleting parent is
not itself deleted, and nobody suspends, resumes or re-prioritises a thread that may
die. It is needed, because the status tests of `rt_thread_suspend`,
`rt_thread_resume` and `rt_thread_delete` are made with interrupts enabled: with
`Victims` and `Sleepers` overlapping in `threads.cfg` TLC finds a deleted thread
back in the ready list. `threads` runs under it too (its constants satisfy it).

*The kernel lemmas.* For every operator of `Kernel`, `KernelProofs` shows that it
preserves `KernelInv(k, limbo)`, the conjunction of type, `ReadyListed`,
`ListsSound`, `BitmapSound`, `TimerSound` and `IdleReady`. `limbo` is the set of
threads off every list whose status does not say so yet: `rt_thread_delete` unlinks
in one section, stops the timer in a second, writes CLOSE in a third and queues in a
fourth, the idle thread unlinks and frees later. Without `limbo` the invariant that
a READY thread is in its ready list is false between them. The lemmas are stated for
any `limbo`, which makes them usable from the modules that extend `Ipc`, where it is
empty.

*The invariant.* `Inv` adds to `KernelInv(k, limbo)` what a thread inside a call
relies on: `RunningOK` (the running thread is ready or on its way to the scheduler,
and not in limbo), `DeletingOK` (only the parent deletes, so no thread is in limbo
twice), `ReapingOK` (the idle thread and a deleting parent never hold the same
thread), `ActingOK` (suspend and resume act on threads that cannot die), `StartingOK`
(a thread between the two halves of `rt_thread_startup` has not run), `MortalOK`
(only victims and exiting threads are closed; victims have no timer running). Each
is needed by a step of another: for instance `StartingOK` keeps `StartupResume` from
linking a thread twice. `ThreadsProofs` has one lemma per action; `NextInv` combines
them. `SwitchCorrect` uses `rt_ffsLowest` and `ScheduleOK`: the first bit of the
first word is the highest ready priority exactly because `BitmapSound` holds.

### The objects and services

`IpcProofs` lifts the kernel lemmas to what the modules that extend `Ipc` share. On them
rest the theorems below, for any number of threads, priorities and list flags, any sizes,
and under each module's own assumptions on its constants:

| module | theorem | statement |
|---|---|---|
| `SemProofs`, `MutexProofs`, `MailboxProofs`, `MsgQueueProofs`, `MemPoolProofs` | `Invariance` | `Spec => []Inv` |
| `SemProofs` | `TokensCorrect`, `WakeupCorrect`, `SuspendListCorrect` | `Spec => []TokensKept`, `[]NoLostWakeup`, `[]SuspendListOK`, for any width of the counter |
| `MutexProofs` | `OwnerCorrect`, `FieldsCorrect` | `Spec => []OwnerHolds`, `[]FieldsAgree`, for any number of mutexes |
| | `RankInvariance`, `InheritsCorrect`, `RestoredCorrect` | under `OneMutex`: `Spec => [](Inv /\ Ranked)`, `[]Inherits`, `[]PriorityRestored` |
| `MailboxProofs` | `WakeupCorrect`, `DeleteCorrect`, `Refinement` | `Spec => []NoLostWakeup`, `[]DeleteWakesAll`, `Spec => IsChannel` |
| `MsgQueueProofs` | `NodesCorrect`, `WakeupCorrect`, `Refinement` | `Spec => []NodesKept`, `[]NoLostWakeup`, `Spec => IsChannel` |
| | `DeleteCorrect` | under `Created`: `Spec => []DeleteWakesAll` |
| `MemPoolProofs` | `BlocksCorrect`, `WakeupCorrect` | `Spec => []BlocksOwned`, `[]NoLostWakeup` |
| `MemPoolProofs` (event) | `EventInvariance`, `EventWakeupCorrect`, `ClearedOnceCorrect` | `EventSpec => []EventInvariant`, `[]NoSatisfiedWaiter`, `[]ClearedOnce`, for any flags, masks and options |
| `SemProofs` (soft timers) | `SoftTimerInvariance`, `ActiveIsLinkedCorrect`, `StoppedNotCalledCorrect` | under `TimersApart`, `TimerOutranks`: `TimerSpec => []TimerInvariant`, `[]ActiveIsLinked`, `StoppedNotCalled` |
| | `SortedCorrect` | under `TicksFit` as well: `TimerSpec => []Sorted`, for any modulus of the tick |
| | `SleepsOnlyPastCorrect` | under the first two: `TimerSpec /\ []NoneDueAtMax => []SleepsOnlyPast` |
| `MailboxProofs` (pipe) | `PipeInvariance`, `InOrderCorrect`, `RingIsQueueCorrect` | `PipeSpec => []PipeInvariant`, `[]InOrder`, `[]RingIsQueue`, for any buffer size and number of readers and writers |
| `MutexProofs` (serial) | `SerialInvariance`, `RxInOrderCorrect`, `FsLockCorrect`, `TxPairedCorrect` | `SerialSpec => []SerialInvariant`, `[]RxInOrder`, `[]FsLockHolds`, `[]TxPaired`, for any FIFO size and number of users of the lock |
| `SemProofs` (aio) | `AioInvariance`, `CancelIsFinalCorrect`, `SettledStaysCorrect` | `AioSpec => []AioInvariant`, `[]CancelIsFinal`, `SettledStays`, for any number of clients |
| | `WorkNoticedCorrect` | under `Outranks`: `AioSpec => []WorkNoticed` |

Some hypotheses are more than typing. Each is something the code leaves to its callers, and
each is needed: without it TLC violates at least one of the conclusions (the table below has
the changes of cfg).

- `OneMutex`: the code keeps one `original_priority` per mutex, and with nested mutexes
  both conclusions fail (`ipc.c:868`, `ipc.c:702`).
- `Created`: the queue goes by `rt_mq_delete`; `rt_mq_detach` leaves the receivers asleep
  (`ipc.c:1958`).
- `Outranks`: the worker is more urgent than its clients. `workqueue.c` does not enforce it
  (the worker of `posix_aio.c` has the middle priority); a client as urgent can be let in
  by the tick between the worker's look at the list and its suspension (`workqueue.c:58`),
  find it READY, and what it queues is slept on.
- `TimersApart`: a timer is used by one thread, or by the call-backs, or it is periodic and
  an interrupt handler starts it; a call-back stops no timer but its own and restarts its
  own only if it is periodic. `rt_timer_start` and `rt_timer_stop` have several sections
  and nothing keeps two of them apart (`timer.c:345`, `462`), the next node is remembered
  across the call-back (`timer.c:636`), and a one-shot timer is marked inactive after it
  (`timer.c:666`).
- `TimerOutranks`: the timer thread is more urgent than the threads that use timers, so that
  none of them runs between its look at the list and its suspend (`timer.c:686`), nor stops
  a timer that it is about to call. At equal priority a time slice lets one in there.
- `TicksFit`: the longest time-out and the greatest lateness together are at most half the
  range of the tick, what `timer.c:551` says of the comparison.
- `NoneDueAtMax`: no timer in the list is due at `RT_TICK_MAX`, the tick that stands for "no
  timer" (`timer.c:687`). It is a hypothesis on behaviours, not on constants: the theorem
  speaks of every run in which no timer happens to be due then.

The hypotheses on constants are in the component modules, and `MCSoftTimer` and `MCAio`
assert theirs, so that TLC evaluates them on the constants of its runs; in `soft_timer`,
`Stride = 2` makes `NoneDueAtMax` true as well.

*What the objects share.* `IpcOK(PC, S, L)` is `KernelInv(k, {})` with what blocking
code relies on: a thread is suspended only at a control point in `S`; the running thread
is ready, or at one in `L`, on its way to the scheduler. `Blocking(q, W)` says that
list `q` holds suspended threads inside the call (`W`) that have not been given an error
number, and that each of those is in it. None of the safety properties is inductive without
it: a wake-up takes the head of the list and the properties count on its being a thread
that will look at the object again. The threads that were resumed and have not run yet,
`Woken(W)`, are part of the state of every object, which is why each lemma of `IpcProofs`
also says what a step does to them.

*Semaphore.* `Counted` states conservation modulo the counter's width, the tokens of woken
threads included. A time-out and a release of the same waiter differ only in the error
number it finds, so `Counted` needs `Blocking`.

*Mutex.* Between `rt_mutex_release` and the next run of the thread it chose, that thread
owns the mutex and does not know. `Handed` says so; `Queued` says that a thread in a
list still wants that mutex and does not own it, which keeps a second release from handing
it over twice. `Ranked` adds that the lists are in priority order, so that the head taken
over by a release outranks those it leaves behind, and that `original_priority` is
the owner's own.

*Mailbox.* `Ring` ties the two offsets and the count, `in = (out + entry) mod Size`.
`Counts` is `NoLostWakeup`. `Closing` records how far a deletion has come: once the
senders are being woken, no receiver that waited at its beginning is still in the list.
For the refinement, `Queue(mb)` is the ring read from `out`; lemmas show that
`Put`, `PutUrgent`, `Get` and `FreshBox` append, prepend, take the first and empty it,
and every other action leaves it and `got` unchanged.

*Message queue.* `Pool` says that there are two sequences, without repetition and
disjoint, which the `next` pointers spell out from `head` and from `free`, and
that every node in neither is in the hands of exactly one thread (`Owns`). `Holds` says what
a thread's node contains at each control point: filled but not linked, unlinked
but not copied. Without the second part another sender's writes could not be ruled out
of the node. `QueuedIs` shows that the chain from `head` is unique, so `Queued`, which the module
chooses, is that sequence; the refinement to `Channel` then goes step by step as for the
mailbox, with linking as the moment of a send and unlinking as the moment of a receive.

*Memory pool.* `Counts` says `suspend_thread_count` covers the list (it may be
larger, see `mempool.c:357` below). `Pends` is `NoLostWakeup` with the threads that were
woken and have not yet looked again. `Chain` makes free and given blocks a partition.

*Event.* `Unsatisfied` is `NoSatisfiedWaiter` for the threads in the list. What has to be
shown is that it survives the search of `rt_event_send`, which walks the list while it
unlinks threads and clears flags for them: the lemmas follow it thread by thread, and say after
`i` threads that the part passed is unsatisfied by the flags that are left, that flags only
go, and that each flag a receiver cleared was there. `Search` is a function defined by
recursion over the list; the lemmas show that it has a solution, which is unique.

*Soft timers.* `TimerControl` places the caller, the timer thread and what each call is
about. `Agrees` says that flags and list agree but for the timers in between: the one
being called, one unlinked by a start that will link it again, and one that a stop has yet
to mark. `Follows` says that the remembered next timer is still in the list, or about to be
again, and is not the one being called; `StoppedNotCalled` needs it. `TimerOrder` says
that every timer is due within a window round the current tick, `Near`: the list's order,
a statement about differences modulo the tick's range, is an order at all only inside such
a window, and each tick moves it. `SleepInvariant` carries what the timer thread has read
across the window between its look and its suspend: whatever is in the list since, an
interrupt handler has started.

*Pipe.* `EndsOK` counts who has the pipe open: `readers`, `writers` and `ref_count` are
the sizes of sets that the control points determine, which is what makes "the buffer is there
while `open` is not empty" inductive. `RingHolds` says which byte is in which cell, from
the read index on, whatever the mirrors are. Putting is shown cell by cell, in one piece or
split at the end of the buffer; each forced operation is shown to be that of a queue.

*Serial.* `OwnedBy` says that who goes on as the holder of the file system lock owns it, but
for a poll woken inside the wait. `NodeOK` follows the one node in the device's queue. `TxOK`
says that an enabled interrupt and a completion not yet consumed exclude each other
and that a writer waits for it. `FifoInv` gives put index, get index and the full flag as
functions of how many bytes are there; the bytes of one receive interrupt come one by one,
and a recursive function follows them.

*Asynchronous I/O.* `Requests`: what is queued or being transferred is in progress. `CallOK`
says what a call knows of its request: a client that waits for a running work is in the list
of `queue->sem` until the worker, done with the work, wakes it, and nothing of the work is
left when it goes on. With several clients this needs `Apart`: while one is about to queue a
request, nobody else submits or cancels it. It also needs the worker's loop over the waiters
step by step (`Acks`), since each of them may be waiting for the same work.
`Outranked` adds that while the worker is ready a client does at most `rt_schedule`, so that no client runs between the worker's look and its suspension.

*Loops.* Two loops run inside one section and are recursive functions, the search of
`rt_event_send` and the bytes of a receive interrupt. `NatSetInduction` (a set of numbers
that has 0 and every successor is `Nat`) is proved from the least element of a set of
numbers and used on the set of lengths for which the statement holds, so no induction
theorem with an operator for a parameter is needed.

Proving changed the models in these places. `DeleteWakesAll` as first stated was false for
four threads (below). `MemPool` now assumes of its constant `Blocks` that it is a sequence.
The tick of `SoftTimer` now ends time slices: without them, threads of one priority could not
interleave, and `TimerOutranks` would have looked unnecessary. The cases of
`Serial!WriteByte` exclude each other, and `rt_ringbuffer_getchar` tests for the empty buffer
in the order of the code.

### Only model-checked

- Liveness (`TimedTakeReturns`, `UrgentGetsThrough`, `Fires`, the two `CallsEnd` and
  `AioSettles`) is shown for the instances above and not proved: temporal reasoning with
  fairness and `ENABLED` is out of the proof system's reach.
- The conclusions proved under a hypothesis are not claimed without it: they are false.

## Where the code and its comments disagree

One disagreement has a run of its own (above). The others below were found while
modelling; the definitions translate the code as it stands, the runs' constants keep
off them, and each can be reproduced by the change of a cfg named here. `MCSoftTimer`
and `MCAio` assert the hypotheses of the theorems; where a change breaks one, that ASSUME
has to go as well.

| code | what happens | said at | reproduce |
|---|---|---|---|
| `thread.c:710` | `rt_thread_delay_until` compares the error number with `-RT_ETIMEOUT`, but `rt_thread_timeout` stores the positive one (`thread.c:970`; `rt_thread_sleep` has it right at 644): the time-out is left in `thread->error` | comment `thread.c:709` | visible in `Threads!DelayReturn` |
| `thread.c:517-541` | the time-out of a sleeping thread between the sections of `rt_thread_delete` makes it ready again: it is closed and in a ready list | doc `thread.c:491` | `threads.cfg`: `Victims = {a}`; `ListsOK` |
| `ipc.c:161` | a limited wait that ends between the test and the section of `rt_ipc_list_resume_all` makes it resume the list head; any object detached or deleted in use | comment `ipc.c:166`, assertion `thread.c:917` | `sem.cfg`, `mutex.cfg`: a thread at `"crashed"` |
| `ipc.c` (`rt_sem_detach`, `rt_sem_delete`) | no `rt_schedule` after waking the waiters: a more urgent one waits for the next tick or call | | `sem.cfg`: `DetachBy = {b}`; an invariant that no ready thread outranks one at `"run"` |
| `ipc.c:868` | releasing one of two mutexes resets the priority, whatever is inherited through the other | `ipc.c:546` | `mutex.cfg` with two mutexes: `Inherits` |
| `ipc.c:702` | `original_priority` recorded while the thread runs at an inherited priority is restored later | `ipc.c:867` | `mutex.cfg` with two mutexes: `PriorityRestored` |
| `ipc.c:868-915` | a waiter that timed out leaves the owner boosted; the release that lowers it wakes nobody and does not reschedule, so the owner runs on before a more urgent ready thread | | `mutex.cfg`: an invariant that no ready thread outranks one at `"run"` |
| `ipc.c:1958` | `rt_mq_detach` resumes the threads on `suspend_sender_thread` only, and receivers sleep on (`rt_mq_delete` is right, line 2056) | comment `ipc.c:1957` | `mq.cfg`: `Created = FALSE`; `DeleteWakesAll` |
| `ipc.c:1725`, `mempool.c:317` | a thread woken before a deletion goes round its loop and waits on the deleted object | comments `ipc.c:1449`, `mempool.c:142` | `mb.cfg`: an invariant that a gone mailbox has no waiters |
| `ipc.c:1449`, `ipc.c:2055` | the same during a deletion: a send that had begun (a message being copied, a sender that was waiting for room) wakes a waiter as if nothing happened, another thread takes the message, and the waiter looks again and waits on the deleted object. The runs' three threads are too few for it; the attempt to prove `DeleteWakesAll` showed it, and the property excepts a thread that was served | comments `ipc.c:1449`, `ipc.c:2055` | `mb.cfg`, `mq.cfg` with four threads beside the idle one: `DeleteWakesAll` with `Served(q)` leaving `asleep` alone |
| `timer.c:687` | a timer due at `RT_TICK_MAX` is taken for "no timer" | comment `timer.c:689` | `soft_timer.cfg`: `Ticks = {3}`, `Stride = 1`; `SleepsOnlyPast` |
| `timer.c:666` | a one-shot timer that its call-back restarts is marked inactive while in the list, and `rt_timer_stop` then refuses (448) | | `soft_timer.cfg`: `Periodic = {}`, `CallStarts <- XCallsX`; `ActiveIsLinked` |
| `timer.c:686`, `461` | a thread as urgent as the timer thread, let in by the end of a time slice, starts a timer between the timer thread's look and its suspend, or stops one that is about to be called | comment `timer.c:689`, doc `timer.c:434` | `MCSoftTimer` with the timer thread at the priority of `lo`: `SleepsOnlyPast`, `ActiveIsLinked`, `StoppedNotCalled` |
| `timer.c:378` | time-outs and lateness that do not fit half the range of the tick: a new timer is linked on the wrong side of a late one | comment `timer.c:551` | `soft_timer.cfg`: `Ticks = {2, 4}`, `MaxLate = 2`; `Sorted` |
| `timer.c:636` | the next node is remembered across a call-back; if the call-back stops that timer it is called all the same | doc `timer.c:434` | `soft_timer.cfg`: `CallStops <- XCallsY`; `StoppedNotCalled` |
| `timer.c:420` | `rt_timer_start` resumes the timer thread whatever it waits for, a semaphore that a call-back takes included (`_soft_timer_status`, which told the cases apart, is commented out at 41) | | call-backs do not block in the model |
| `mempool.c:357` | a thread whose wait in `rt_mp_alloc` times out leaves the list but not `suspend_thread_count`; the next `rt_mp_free` trusts the count (421) and resumes the list head | comment `mempool.c:423` | `mp.cfg`: a thread at `"crashed"` |
| `ringbuffer.c:141` | a forced put that overruns a buffer whose indices are on one side of the mirror toggles both mirrors: the full buffer reads as empty | doc `ringbuffer.c:96` | `RingIsQueue` without its last guard |
| `pipe.c:168` | two readers: one consumes the wake-up flag meant for the other, which sleeps although there are bytes; a close wakes one waiter of several | | `pipe.cfg`: two readers; `CallsEnd` |
| `pipe.c:152`, `212` on `ringbuffer.c:154`, `51` | the count is a `size_t`, the length an `rt_uint16_t`: with a multiple of 65536 bytes to go the ring buffer is asked for 0, and a blocking call waits although there are bytes or there is room; a write of 65537 puts one byte and stays | comment `pipe.c:236` | `pipe.cfg`: `CallsEnd` without `Length(left[t]) = 0` |
| `pipe.c:147` | when the last writer has closed, the bytes still in the buffer are not read | comment `pipe.c:139` | visible in `Pipe!ReadNothing` |
| `pipe.c:100` | two last closes of an unnamed pipe both see `ref_count` 0 after the mutex is released: the pipe is deleted twice | comment `pipe.c:102` | `pipe.cfg`: a thread at `"crashed"` |
| `completion.c:80` | a wait that times out just before `rt_completion_done` consumes the flag and returns the time-out | | visible in `Completion!CompletionWoken`; its caller ignores the result |
| `poll.c:63` on `dfs.c:121` | a byte that arrives while `poll` waits for the file system lock resumes it there: it goes on without the lock, and its `dfs_unlock` fails or is another thread's business | doc `dfs.c:113` | `FsLockHolds` without `pt.triggered` |
| `poll.c:94` | `triggered` is never reset: once woken, a `poll` that finds nothing ready runs round without sleeping until something is | | visible in `Serial!PollWait` |
| `workqueue.c:58`, `142` | the worker is resumed after the work was queued, in a section of its own: with two clients that work may have been done or cancelled by then, and the worker takes the list head for work. A client as urgent as the worker can also queue between the worker's look and its suspend, and the work is slept on | comment `workqueue.c:65` | the first: `aio.cfg`, the worker at `"crashed"`; the second: `MCAio` with the clients at the worker's priority, `WorkNoticed` |
| `posix_aio.c:74` | `aio_cancel` of a request that has ended with 0 or an error reports it as cancelled and overwrites the result; "the aiocbp shall not be modified" | doc `posix_aio.c:38` | `SettledStays` without `"CANCELED"` in its second line |
| `posix_aio.c:269` | a request submitted again before the worker has cleared `work_current` is refused by `rt_workqueue_dowork`; the result is ignored and stays `-EINPROGRESS` | | visible in `WorkQueue!Queue`; takes a client more urgent than the worker |

## Not modelled

- SMP scheduling, signals: not compiled into the product.
- Heap allocators, object containers, device tables, string and formatting
  services: sequential code over addresses or names, no state the models share.
- Hooks, thread lookup by name, statistics, CPU binding.
- The data queue and the block ring buffer: their only users are switched off
  (serial DMA, ulog). `rt_workqueue_destroy` and `rt_workqueue_cancel_all_work`.
- `pipe_fops_poll`, pipe and serial `ioctl`, the pipe's device interface; DMA and
  polling modes of the serial driver, its open and close; `poll` over several files,
  `select`, sockets.
- POSIX threads (`compat/posix`): condition variables, read-write locks, barriers.
- Other drivers, file systems, network stack, shell, applications, vendored libraries.
  What they do to the kernel is in the models as the interrupt-handler actions
  (`IsrRelease`, `IsrStart`, `IsrFree`, and the interrupt sends).
- `RT_TIMER_CTRL_SET_ONESHOT` and `SET_PERIODIC` (`timer.c:496`): whether a timer is
  periodic is a constant. `rt_completion_all` and `rt_reinit_completion`.
- Failing allocations. Where one is silent, in `_poll_add` (`poll.c:57`), `poll` waits
  with no node in the queue and only its time limit ends the wait.
- Two actors starting the same timer at once (`timer.c:345`): the node would be
  linked twice, and the list would have to be modelled link by link.
- Dereferencing freed memory: a freed thread is `"NONE"` and properties say that
  nothing links to it.

## Plan

1. The hard-timer list as such: `rt_timer_check`'s loop, thread timers in it, so that
   `k.armed` becomes a refinement instead of a flag; a link-level list for
   overlapping starts.
2. POSIX condition variables, read-write locks and barriers on the semaphore and
   mutex models, with an abstract specification of each.
3. `pipe_fops_poll`, and `poll` over several files.
4. `memheap.c`: splitting and merging against an abstract heap.
