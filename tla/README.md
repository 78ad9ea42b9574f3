# A verification project for ChinaOS

ChinaOS is a small preemptive real-time kernel for Cortex-M3 (NXP LPC1766). This
directory holds TLA+ models of its core, the TLC configurations that check them on
small instances, and TLAPS proofs of what matters most for every instance. File and line
numbers refer to `src/`; the sources are GBK encoded, their comments are quoted here in
Chinese with a translation.

## 1. The system and its parts

The program that is built is `project/hello` (`hello.uvproj`): the Cortex-M3 layer, the
LPC1766 drivers, the kernel, the libraries and an application of three threads.

| part | source (under `src/ChinaOS/`) | state | operations | what makes it correct |
|---|---|---|---|---|
| linked lists | `library/link/list.h` | `next`/`prev` of every node | add, del, move, replace, cut, splice | a walk meets exactly the entries put there |
| thread kernel | `kernel/kernel.c` | ready lists `OS_ActiveProc[33]`, bitmap `OS_ActivePrio`, `OS_This`, `OS_LiveList`, `OS_DeadList` | `labour`, `exit`, `kill`, `sleep`, `change_priority`, `signal`, `shift`, `idle` | every ready thread is on its list, the bitmap tells the truth, the most urgent thread runs, exited threads are reclaimed |
| context switch | `architecture/arm/cortex-m3/syscall.s` | PRIMASK, PendSV pending | `OS_thread_switch`, `atom_operate_lock/unlock`, PendSV | a switch happens at once, except while locked |
| ticker | `.../nxp/lpc1766/ticker/ticker.c` | ring of `TIMER`s, `OS_pTimer`, T0 registers | `OS_timer_add`, `OS_timer_del`, `systimer_exception` | a timer fires once, not early, and makes its thread ready |
| semaphore | `kernel/semaphore/semaphore.c` | `Counter`, `WaitHead` | new, free, create, fetch, wait, post | no token is taken twice, no wakeup is lost |
| mailbox | `kernel/mailbox/mailbox.c` | ring of mails, `Read`, `Write`, `WaitHead` | new, free, create, fetch, wait, post | a bounded FIFO |
| pipe | `kernel/pipe/pipe.c` | byte ring, free running `In`/`Out`, one reader | new, free, read, write | a bounded FIFO of elements |
| allocator | `library/malloc/malloc.c` | chunk headers, small boxes, trees of large chunks, a lock | `malloc`, `free`, `mallocor_setup` | blocks are disjoint, free chunks are coalesced and indexed |
| console | `library/console/*.c` | a 50 byte line | `command` (line editor), `service` (dispatch) | the line buffer is not overrun, a command sees its own option |
| bit operations | `library/bit/bit.c` | none | scan, count, reversal | they compute what their names say |
| lwIP port | `.../nxp/lpc1768/ethernet/sys_arch.c` | mailboxes and semaphores lent to lwIP | post, trypost, fetch, tryfetch | a blocking post comes through, the reader does not sleep on mail |
| CAN driver | `.../nxp/lpc1766/can/*.c` | a receive pipe and a transmit mailbox per channel | setup, send, recv, interrupt, filter | a send reports its own completion |
| UART, LED, RTC, millisecond timer, interrupt controller | `.../uart`, `.../can_repeater`, `.../rtc`, `.../timer`, `nvic` | device registers | setup, read, write | register level I/O |
| application | `src/project/hello/home` | none | `main`, `thread_1`, `thread_2` | uses the kernel within its limits |
| lwIP, FatFs | `ethernet/`, `file/` | | | vendored, not part of the build |

**How they interact.** Everything blocks and wakes through the kernel's ready lists: a
blocking call takes its own thread off the list and clears the bit (interrupts locked),
asks for PendSV by `OS_thread_switch`, and continues when `shift` picks it again. The
timer interrupt, `semaphore_post`, `mail_post` and `pipe_write` put a thread back. The
CAN interrupt posts to a pipe and a mailbox. `malloc` serialises its callers with a
semaphore, `labour` calls `malloc`, `idle` calls `free`.

**What is hard.** There is one processor, but an interrupt can come between any two
instructions that are not bracketed by `atom_operate_lock`/`unlock`, and PendSV then hands
the processor to another thread on the spot. Much of the kernel is not bracketed:
`labour` updates the thread chain, a ready list and the bitmap with interrupts on; `idle`
unlinks zombies with interrupts on; `sleep` ends with an unlocked `OS_timer_del`;
`mail_post` and `pipe_write` run unlocked. `list_del` leaves the removed entry's pointers
in place, so a second removal writes into whatever list they still point to. The hazards
are listed, with the lines where they bite, in `PROJECT.json`.

## 2. Modules

| module | what it is |
|---|---|
| `List` | the operations of `list.h` on a heap of nodes, and `IsList`, the pointer-only meaning of "the members M hang on head h" |
| `ListRings` | every legal sequence of `list.h` calls next to the sequences the calls promise |
| `Kernel`, `KernelInv`, `MCKernel` | kernel.c with its threads, the timer interrupt and PendSV; its inductive invariant; constants for TLC |
| `Ticker`, `AlarmClock` | ticker.c on a counter that wraps around; the clock it implements |
| `Blocking` | what the three objects share: how a thread waits and is made ready, on the kernel's lists |
| `Semaphore`, `Mailbox`, `Pipe` | the three objects, each extending `Blocking` |
| `Fifo` | the bounded queue that mailbox and pipe implement |
| `MCObjects` | an application that uses one of the three, under two sets of rules each |
| `Heap`, `Arena`, `MCHeap` | malloc.c; what an allocator promises; boards for TLC |
| `HeapLock`, `MCHeapLock` | the lock around malloc and free: composes `Semaphore`, `Blocking` and the calls of malloc.c |
| `Can` | the CAN driver with its interrupt and the controller, over the bounded queues that `Mailbox` and `Pipe` implement |
| `SysArch` | the mailboxes of the lwIP port: extends `Mailbox` |
| `MCLive` | an application that uses the allocator, a semaphore, a pipe or lwIP's mailbox, with fairness |
| `Console` | the line editor and `service()` |
| `BitOps` | bit.c and the tree index of malloc.c on 32-bit words |
| `MCLibrary` | `ListRings`, `BitOps` or `Console`, one of them in each behaviour |
| `ListProofs`, `LibraryProofs`, `KernelProofs`, `ObjectsProofs`, `CanProofs`, `ConsoleProofs`, `TickerProofs`, `HeapProofs` | lemmas and theorems |

### 2.1 List and ListRings

`L` maps a node to `[next, prev]`. Each operator returns the heap the C function leaves;
the order of the assignments is kept because nodes may coincide. `ListRings` calls the
operations in every order their comments allow and keeps, in `q`, the sequence each head
should carry. Three entries and two heads suffice for TLC: every operation touches at most
two neighbours of one entry and two heads, so all coincidences of pointers occur. The
proofs are for any number of both.

### 2.2 Kernel

| TLA+ | code |
|---|---|
| `list` | every `struct list_head`: `THREAD.Node`, `OS_ActiveProc[p]` (the node is the number p), `OS_DeadList` |
| `OS_ActivePrio` | the bitmap as the set of its one bits |
| `live` | the chain `OS_LiveList`, `pLive`, ... as a sequence |
| `timer[t]` | whether `THREAD.Timer` is armed; which armed timer expires first is left open |
| `pend` | PendSV pending: no thread executes before `Shift` |
| `pc[t]` | the place of a thread in the kernel function it is in; `"free"` for a block that is not allocated, `"new"` for one that `labour` is filling in |
| `boot`, `reap`, `child`, `level`, `tail`, `first`, `bits` | the place of `idle` in its program, the locals of `idle`, `thread_register`, `list_add` and `OS_ActivePrio \|=`, and the block and the parameter Priority of `labour` |

A locked section is one action. `labour` and the body of the reclaim loop
are one action for each access to shared memory, so that the interrupt can come in between:
after the store of the bitmap (`MergeBits`) `labour` still has to decide whether to switch, by
its parameter (`LabourReturns`), and by then the thread it made may have run. `sleep` is three: the locked
section, `OS_thread_switch`, and `OS_timer_del` after the wakeup. The interrupt `Tick` may
happen in every state where a timer is armed. An OS_This that is not a thread (a list head
taken for a thread, or NULL after a walk off the end of the chain) executes nothing: the
model stops there, and TLC's deadlock check would report it. `malloc` and `free` are
atomic here (`malloc` may fail for idle's two threads); `signal` callbacks are application
code; `sleep(0)`, `getid`, `rename` and `wakeup` change nothing that is modelled.

**Disciplines.** The kernel's unlocked code is only right when the application keeps out
of its way. `Careful` says which of four rules the application follows:

* `labour`: threads are created while no timer runs (in practice by `main` before anybody
  sleeps), one creation at a time, and not at the console's level 31;
* `exit`: a thread ends only while no other is preempted inside `labour` or inside the
  reclaim loop;
* `kill`: likewise, and only a thread that is not asleep is killed;
* `priority`: likewise, and only a sleeping thread's priority is changed.

With all four the safety properties hold on the instance TLC checks, and are proved for
every instance. Without one of them they do not. `kill_sleeper` is the run that shows it
for `kill`. `Careful` in `MCKernel.cfg` can be set to any other subset: without `labour`,
`ReadyQueues` fails (a wakeup of the timer is overwritten by labour's `list_add`); without
`exit`, `LiveChain` (a thread is registered behind one that has left) and `ZombieList` (a
zombie added while idle unlinks another is never freed); without `priority`, `RunsAThread`
(a stale bit makes `shift` take a list head for a thread).

### 2.3 Ticker

`timer` holds the `TIMER` records, `T0TC`, `T0MR0`, `counting` and `flag` the registers,
`rest[t]`, which no code reads, the milliseconds thread t still has to wait. `Tick` lets a
millisecond pass. `OS_timer_add` and the deletes of the timed waits are one action each,
being called under the lock; `sleep` calls `OS_timer_del` unlocked, and that goes one access at a time: the last timer is
deleted in three (the counter stopped, reset, `OS_pTimer` cleared: `DelStop`), the current one
hands over in three (the time left read, the next timer made `OS_pTimer`, the counter started
for it: `DelLeft`, `DelHandOver`, `DelStart`), and the unlinking takes three stores.
`systimer_exception` serves the whole batch of timers of one moment and hands the counter
to the next.

Moments are modulo `W`, 2^32 in the code; `MaxDelay + Patience < W` says that a thread that
was made ready deletes its timer before the counter comes round. The rules: `del`, nothing
happens inside sleep's unlocked delete (without it `RingSound` fails, the ring is seen half
unlinked); `match`, no add or delete finds the match of the current timer pending (without
it a delay just begun is ended by the interrupt of the last one, since `get_left_time`
reads a counter that was reset). The code keeps neither by itself; an application keeps
them when its delays do not end together. One case is left out altogether (`NoZero`): a
delete that hands the counter to a timer of the same millisecond calls `set_time(0)`, and
what a counter started at its match value does is up to the hardware.

`CountsDown` has one exception: between `DelHandOver` and `DelStart` the counter still counts
for the timer that is being deleted.

`ImplementsClock` is the refinement: with the ring, the counter and the registers left out,
the ticker is an `AlarmClock`, which rings in exactly the millisecond an alarm is due. It is
checked for three timers and proved for any number.

### 2.4 Blocking, Semaphore, Mailbox, Pipe

`Blocking` has the ready lists, the bitmap, `OS_This`, PendSV and, for each thread, where it
is and what its timer does. A wait is a locked section (`Wait`), `OS_thread_switch`
(`Switch`) and what follows when the thread runs again (`Resume`); between them anything
may happen. `MakeReady` is the `list_add` and the bit that posts, writes and the timer have
in common, `Scheduled` is `scheduler()`. `semaphore_post` is locked, and
returns without `scheduler()` when nobody is on `WaitHead`; `mail_post` and
`pipe_write` are not locked and go one access at a time when a thread makes them, in one step when
an interrupt handler does. An object that was freed is used no more.

The mailbox keeps `Mail[0..Size]`, of which one slot stays empty. The pipe keeps `In` and
`Out` running freely modulo `W`; `RingLength` is what pipe_new makes of the length asked
for. That is not what the comment above it says, "round up to the next power of 2" (pipe.c:94):
a length that is no power of two becomes twice its lowest one bit, which is always smaller.
`pipe_three` asks for three elements and gets two, so `PipeHolds` is violated; the other runs and
the proofs use the length the code computes.
Histories (`posted`, `taken`, `accepted`, `put`, `got`) are read by bounds and properties only.

`Careful` is here a variable that never changes, so that one run covers several
applications: `alone` (only the most urgent thread waits), `paced` (nothing is posted while
the thread it would wake is not asleep), `untimed` (no time limits), `calm` (no timer of
another thread expires), `single` (an unlocked post is not interleaved with another, nor with
a reader of the mailbox), `kept` (freed only while nobody is inside). Each object has a set
of rules `Polite` that the properties about wake-ups are conditional on. They are needed: a
post leaves the waiter it chose on `WaitHead` until that waiter runs, and `list_del` at the
end of a wait takes the thread off the ready list it was put on, so two posts in a row, or a
timeout next to a post, leave a node linked to itself or a bit over an empty list. That no mail or
element is lost, doubled or reordered depends on none of them but `single`: `mail_post`
publishes `Write` before it stores the mail, so that a reader in between takes what the slot
held before, and two unlocked posts or writes that compute the same place both return OK.

`QueuesAreFifo` holds the two refinements: with `queue` the mails or elements
between the indices, every step is a put, a take or nothing to a `Fifo`.

### 2.5 Heap, Arena, HeapLock

`heap` holds the chunk heads, the links of free chunks, the boxes and trees of `Mallocor`;
`held` what callers hold. `malloc` and `free` are one action each, split into operators that
follow the functions of malloc.c. Memory that is neither a head nor a link is not kept, and
a read of it is an error TLC reports. The loops of the code (`Loop`) walk down a tree or
along a ring; a digital tree on 32-bit sizes has a node for every bit, so `Levels` turns are
enough, and the proofs show that each loop has ended by then. Sizes are unsigned modulo
`Modulus`, at most 2^32. `Arena` says what is promised to callers; `KeepsPromise` is the
refinement.

`HeapAssumption` keeps the boards away from two places where the code's unsigned arithmetic
wraps around: a request within 32 bytes of `Modulus`, where `Size + MIN_CHUNK_SIZE` and the
alignments after it overflow and a chunk too small is handed out, and a bank that has no
room for its two marks, where `EndAddr - StartAddr` overflows after alignment. Either of them
breaks `UsedIsHeld` or `Tiled`. `BitOps` and `IndexOfEverySize` justify that `Heap` computes
the index of a tree by arithmetic instead of the code's shifts.

`HeapLock` is malloc's use of its semaphore: wait, work, post, the result of the wait
ignored. Two threads exclude each other (`live`, and the theorem `TwoThreadsExclude`). Three do not (`heap_lock_three`): a waiter
that a second post woke without a unit returns ERR_TIMEOUT and goes on without the lock.

### 2.6 Can, SysArch

`Can` is one channel: setup (either allocation may fail, and it may be called again after a
setup that failed and after a cleanup), send, receive, cleanup, the interrupt, and the
controller with one transmit and one receive buffer, which cleanup only takes the power from.
Messages are numbered. A thread may sleep inside `can_send`, on the mailbox, and inside
`can_recv`, on the pipe (`RecvWaits`, `RecvReturns`). Cleanup frees both first (`Cleanup`) and
unregisters the handler afterwards (`CleanupEnds`); threads asleep on them become `stale`, and
when one of them resumes it uses freed memory (`StaleReturns`, pipe.c:310), even if the device
was set up again meanwhile. `touched` tells who has used freed memory: `"gap"` for the handler
between the frees and the unregistering, `"other"` for anything else. What a program computes
after that is not known, so the other properties speak of behaviours in which it is empty.

Rules: `alone`, one thread sends at a time (there is one transmit buffer and one mail);
`asked`, a device whose latest setup got no memory is not used (can0_setup returns OK anyway);
`quiet`, cleanup while no thread is inside a call, and no call before it has ended. The
run has applications with all three rules, without the first, without the last, and with none.
`NotTouched` is what `asked` and `quiet` buy. They are the application's and do not keep the bus
quiet: the interrupt in the gap does happen in the run, and does use freed memory, since nothing
in can.c holds it off; `NotTouched` says that it is the only one. Without `quiet` a receiver
asleep comes back to a freed pipe. `late` says that some send has come to its time limit: from
then on the mail of its completion is taken by the next send, and `SentIsSent` promises nothing.

`SysArch` has lwIP's one reader, a thread that posts, and the accesses of `Mailbox` on its ready
lists, bitmap and PendSV: a post of lwIP is a `mail_post`, access by access, and again another
one while it is refused (`PostAgain`); a fetch is the wait of `Mailbox`. Both threads also sleep
on something else (`Away`, `Back`), from where a post may wake the reader, since it stays first on
`WaitHead`, and `Back` happens only once another thread has the processor, as it would for a
thread that waits for an event of the outside. The rules are `paced` (a post does not begin
while the reader it would wake is on its way already), `untimed`, `calm` and `kept`; that a
poster may be preempted between claiming its slot and storing the mail is left in. Left out are
several posters at once, which may claim one slot (§2.4), and posts from interrupt handlers.

`sys_mbox_post` tries again without giving up the processor. When the poster is less urgent than
the reader it ends (`LwipPosts`, in `live`): this is how it is for lwIP's thread (level 5 by default)
when the application's threads are below it. When it is more urgent it spins for ever, although the
comment says that it blocks until the message is really posted (sys_arch.c:343):
`lwip_urgent` is that run, and `LwipPostsEnd` is violated in it.

### 2.7 Console, BitOps

`Console` reads one key per action into a buffer that is never cleared and calls `service`
at the end of a line. A read behind the buffer gives `"outside"`. A line without an option
gets for its option what an earlier line left behind the name, and a line may end in a space
although a comment says it is removed; `CutRight` and `SingleSpaced` state what does hold.

In `BitOps` a word is the set of its one bits. A carry starts where both words have a one and
runs on through the bits where one of them has, and what leaves the word is lost, so that sums
and differences wrap around. `Value` is the number that a masked result of at most six bits
stands for. The run sees the words with at most `Near` ones or zeros; the theorems hold for
`Near = 32` too, and so for every word.

## 3. Runs

| run | module | properties | shows |
|---|---|---|---|
| `kernel` | `MCKernel` | `TypeOK`, `ReadyQueues`, `Bitmap`, `RunsAThread`, `MostUrgentRuns`, `ZombieList`, `LiveChain`, `IInv` | nothing is lost, wherever the timer interrupts; the inductive invariant of the proofs holds |
| `kernel_live` | `MCKernel` | `SleepReturnsToMostUrgent` | under fairness, sleep returns |
| `ticker` | `Ticker` | `RingSound`, `CountsDown`, `ImplementsClock`, `EveryDelayEnds` | ring and counter are an alarm clock through the wrap-around, and every delay ends |
| `objects` | `MCObjects` | `ObjectsTypeOK`, `PoliteRuns`, `PoliteWakeups`, `QueuesAreFifo` | semaphore, mailbox and pipe under two sets of rules each |
| `live` | `MCLive` | `MutualExclusion`, `WaitersAreServed`, `LwipPosts` | everybody who waits is served, a post of a less urgent thread comes through, and two threads never work on the heap together |
| `heap` | `MCHeap` | `Tiled`, `Coalesced`, `FreeFound`, `BestFit`, `UsedIsHeld`, `KeepsPromise` | malloc and free on three boards |
| `can` | `Can` | `SentIsSent`, `NoMoreThanSent`, `InOrder`, `NotTouched`, `SendEnds` | sends, receptions, cleanups and setups with the interrupt anywhere |
| `library` | `MCLibrary` | `Represents`, `EveryRingIsAList`, `BitsRight`, `TreeIndexRight`, `ConsoleTypeOK`, `SingleSpaced`, `CutRight` | list.h keeps its promises, and `IsList` is the right description; the bit tricks compute what the scheduler and the allocator take them for; the editor and the cut of a line are right over what earlier lines left |
| `kill_sleeper` | `MCKernel` | `ReadyQueues` (violated) | killing a sleeping thread corrupts the ready list it left |
| `heap_lock_three` | `MCHeapLock` | `MutualExclusion` (violated) | three threads: two of them work on the heap together |
| `pipe_three` | `MCObjects` | `PipeHolds` (violated) | a pipe asked for three elements holds two |
| `lwip_urgent` | `MCLive` | `LwipPostsEnd` (violated) | a poster more urgent than the reader spins for ever |

Where a module's `TypeOK` is not listed it is a conjunct of its first safety property
(`Represents`, `RingSound`, `Tiled`, `InOrder`, `LwipPosts`).

**Bounds.** `kernel`: three thread blocks, `Levels` {1, 8, 31}: main's level, one
application level (threads share it, and level 1), the console's; `kernel_live` leaves 8 out
and lets threads exit at any moment, so that the walk of `thread_unregister` off the end of
the chain happens (the machine stops there, and deadlock is not checked). Three threads
beside idle give a list with two members in front of or behind a third, a sleeper with a
live and a dead neighbour, and a zombie list of three. `ticker`: three timers make a first,
a middle and a last of the ring, two of them due together; W = 5 makes the moments wrap
around within two delays. `objects`: two threads above idle and interrupts, three posts,
so that a post meets a waiter that is asleep, woken and gone; a mailbox of one and a pipe of
two elements are full and empty in turn, with In and Out modulo 4. `live`: six posts. `heap`:
`OneBank` is split and merged in many ways, `OneTree` makes a tree with inner nodes, two
chunks of one size and a bank too small to register, `TwoBanks` keeps banks apart. `can`:
two threads, two sends and three arrivals over a pipe of two, so that a full pipe refuses a
message, a cleanup meets a sender or a receiver asleep, and a setup follows it before that one
resumes. `library`: the words with at most `Near` ones or zeros, and a line of six
bytes.
Symmetry (`Threads` in `kernel`, mails and data in `objects`) is used in runs without
liveness. `CHECK_DEADLOCK FALSE` stands where a bounded history or a freed object stops an
application.

**Fairness.** Weak fairness of PendSV, of the timer interrupt and of every step of a thread
that has the processor inside a kernel function: hardware takes pending interrupts, and
nothing stops a running thread. Nothing is assumed of application code between calls.
`Pipe` needs strong fairness of the reader's and the writers' steps: a thread in the middle
of `pipe_write` is preempted by others again and again, each time it runs it makes progress,
and an interrupt storm that lets it never complete an instruction is excluded. `SysArch`
needs it of lwIP's fetch and of the steps of a post, because PendSV takes the processor from
them again and again, and of `Back`, the end of a wait for something else. `lwip_urgent` has the same
fairness: its counterexample is a poster that takes every turn it can, and no
fairness of the reader helps, since the reader never has the processor. `MCLive` assumes the fairness of the object that is used.

## 4. Proofs

Assumed of the constants: `KernelAssumption` (levels in use lie in 0..31 and contain main's
and the console's; blocks, heads, `OS_DeadList` and NULL are different things),
`BlockingAssumption` and `SemaphoreAssumption`, `NodesAssumption` (threads, ready lists,
`WaitHead` and NULL are different nodes), `TickerAssumption` (finitely many timers, and
`MaxDelay + Patience < W`: a delay and the wait for its thread to run fit into one turn of
the counter), `CanAssumption`, `ConsoleAssumption`,
`HeapAssumption` (§2.5: unsigned numbers of at most 32 bits, banks that do not overlap and have
room for their marks, requests that do not wrap around),
`RingsAssumption` (heads are not entries, and there is one), `MailboxAssumption` (a mailbox
holds at least one mail) and `PipeAssumption` (the length `pipe_alloc` computes is not zero,
smaller than the range W of an index and divides it, as every power of two below 2^32 does).
`Threads` may be any set where the table does not say otherwise.

| theorem | for | states |
|---|---|---|
| `KernelTypeCorrect` | every `Careful` | `[]TypeOK` |
| `KernelInductive` | `Careful = Disciplines` | `[]IInv` |
| `KernelSafe` | `Careful = Disciplines` | `[](ReadyQueues /\ Bitmap /\ RunsAThread /\ ZombieList /\ LiveChain)` |
| `KernelUrgent` | `Careful = Disciplines` | `[]MostUrgentRuns` |
| `TwoThreadsExclude` | two threads of two priorities, `Amount = 1` | `LockSpec => []MutualExclusion` |
| `RingStaysSound` | `"del" \in Careful` | `[]RingSound` |
| `TimersCountDown` | `Careful = Disciplines` | `[]CountsDown` |
| `TimersAreAClock` | `Careful = Disciplines` | `ImplementsClock` |
| `RingsRepresent` | every set of heads and entries | `[]Represents` |
| `RingsAreLists` | every set of heads and entries | `[]EveryRingIsAList` |
| `ObjectsAreFifo` | every application of `MCObjects` | `QueuesAreFifo` |
| `PoliteApplicationsRun` | any number of threads, but one at least | `[]PoliteRuns` |
| `PoliteThreadsWake` | any number of threads, but one at least | `[]PoliteWakeups` |
| `CanSentIsSent` | `alone` and `asked` | `[]SentIsSent` |
| `CanNoMoreThanSent` | every application | `[]NoMoreThanSent` |
| `CanInOrder` | every application | `[]InOrder` |
| `CanNotTouched` | `asked` and `quiet` | `[]NotTouched` |
| `ConsoleFits` | every size of the buffer | `[]ConsoleTypeOK` |
| `ConsoleSpaced` | every size of the buffer | `[]SingleSpaced` |
| `ConsoleCuts` | every size of the buffer | `[]CutRight` |
| `HeapInvariant` | every board | `[]HeapInv` |
| `HeapTiled`, `HeapCoalesced` | every board | `[]Tiled`, `[]Coalesced` |
| `HeapFreeFound`, `HeapBestFit` | every board | `[]FreeFound`, `[]BestFit` |
| `HeapHeld` | every board | `[]UsedIsHeld` |
| `HeapKeepsPromise` | every board | `KeepsPromise` |
| `BitsOfEveryWord` | every `Near`, so every 32-bit word | `BitSpec => []BitsRight` |
| `TreeIndexOfEveryWord` | every `Near`, so every 32-bit word | `BitSpec => []TreeIndexRight` |
| `IndexOfEverySize` | every size below 2^32 | `BitOps` and `Heap` compute the same index |

`KernelTypeCorrect` needs two facts of its own: inside `labour` the local `child` is a
thread block, and idle heads the chain `live`, so the walk ends at a block.

**The inductive invariant of the kernel.** The properties of `Kernel` say how things are between two
updates, and an update that runs with interrupts on is many steps long. `IInv` adds how far
each of them has come and why nobody meets it half way:

* `ExclusiveInv`: a thread of the application inside `labour` cannot be preempted, since no
  timer runs. This is what the rule `labour` buys.
* `PrivateInv`: idle inside `labour` can be preempted at every store, but every live thread
  is more urgent than the one idle builds, so no thread and no interrupt writes to the ready
  list idle writes to, and the bit idle will merge is nobody else's.
* `StoreInv`: after some of the four stores of `list_add`, carrying out all four now would
  complete the list. This survives everything that leaves the two nodes alone (`StoreKept`).
* `MergeInv`: the bitmap `labour` loaded is the one it will find; for idle both are empty,
  since idle runs only when no bit is set.
* `ReapInv`: how far `list_del` and `free` have come with the zombie idle is unlinking.
* `UrgentInv`: unless a switch is pending or on its way, the running thread is the most
  urgent one the bitmap knows of. `MostUrgentRuns` follows from it, `Bitmap` and
  `PrivateInv`.
* `LevelInv`: until the bitmap is stored, the parameter Priority of `labour` is the priority of the
  block it fills in; afterwards the new thread may be gone. All but this is `CoreInv`.
* `LabourInv`, `RegisterInv`, `BootInv`, `IdleInv`: what is being built is nobody else's
  block, the end of the chain that was found is still its end, no level is shared with the
  console, idle neither sleeps nor exits.

The proof has one lemma per action (`TickSafe`, `SleepSafe`, `ReapSafe`, ...); that a list
operation keeps its list a list and leaves the other lists alone comes from `ListProofs`.
The definition of `IsList` by pointers alone (neighbours agree, and no subset of the
members is closed under `next`) is what makes this provable without induction over
sequences; that it holds of every list that calls of list.h build is `RingsAreLists`.

**The rings of list.h.** `Rings(L, q)` says that step i of a walk from a head leads to step
i + 1 and back, for every head, and that no entry occurs twice. The calls come down to four
things done to a ring: a row of entries linked in between two steps (`Graft`: `list_add`,
`list_add_tail`, both splices), an entry taken out (`Pluck`), exchanged (`Exchange`), and a
front part hung on another head (`Split`). Each is proved once, from what the heap looks like
node by node afterwards (`LinkShape`, `SpliceShape`, `CutShape`, ...), where the coincidences
of an empty or singular list are settled; `OneRing` and `TwoRings` keep the other rings. That
no entries form a ring of their own needs the last entry of a set of them. It comes from
`Least`, that a set of numbers has a least one, which is proved in `ListProofs` from the
well-foundedness of inclusion between finite sets, since the induction theorems of the
library cannot be used; the kernel's bit scan and the ticker's walk need it too.

**The ticker.** `RingSound` speaks of what a walk from `OS_pTimer` meets. That is no
inductive statement, so `RingInv` says of some set R of timers that it is one ring by
pointers alone: next and prev undo each other (`Knit`) and no smaller part of it is closed
under next (`Round`). Adding a timer is `InsertRing`, deleting one `CutRing`. Inside an
unlocked delete the records are half unlinked, and the ring is the one the remaining stores
will leave (`Later`); the rule `del` is what keeps everybody else from looking. `Cycle` then
says that the walk meets every timer of R once before it comes back, since a walk that
repeats itself earlier would be a smaller part closed under next.

`TimeInv` adds the moments: along the ring from `OS_pTimer` the distances to its moment
rise, a distance plus what the counter has left never exceeds a turn of it, and for a timer
that is set it is exactly `rest` (`OnTime`). A timer whose thread is awake but has not
deleted it yet still stands on the ring, which is why the order is stated for all of R and
the equation only for those that are set. `PositionTime` says that the loop of
`OS_timer_add` stops at the one place that keeps the order, `CutTime` that a delete hands
the right time on to the next timer, and `RungIs` that the interrupt serves exactly the
timers that are due: those from `OS_pTimer` on whose moment is the same. The rule `match` and `NoZero`
enter where the counter is read or restarted. Remainders modulo W are settled by `ModOnce`
and `GapFrom`. With that each step is one of the clock's: an add is `Set`, a wait that is
ended early `Cancel`, the interrupt `Ring`, a millisecond `Pass`, and the deletes after a
wake-up are stutters.

**The lock of the heap.** Two threads, h more urgent than l. The unit is in the semaphore or
with the thread inside (`OneUnit`); only h ever waits, because when l runs h is asleep or
waits itself, so l finds the unit there (`OnlyOneWaits`); and when l's post has made h ready, l gets no
further than the end of that post before h runs (`Turns`), so h finds the unit although it
does not look at what its wait returned. The hard part is what the lists look like
meanwhile: a post may enter h into its ready list a second time, where its next is itself
(`Firsts`), and then h never sleeps again; `Doubles` says that l is not inside when this
happens. A third thread takes the unit in between, which is what `heap_lock_three` shows.

**Mailbox and pipe.** `ObjectsInv` says of the mailbox that at most one thread is inside
`mail_post`, that from the test for room until the claim the slot it computed is the one
behind `Write` and free, and that the mails from `Read` on are the queue without the one that
is claimed and not stored yet. Of the pipe it says that `In - Out` in unsigned arithmetic is
at most the length, and that a writer's chunk fits into the room it found, or already stands
behind the used bytes until `In` advances. Both rest on the rule `single`; a reader may come
in anywhere, since it only makes room. Then the store of `mail_post` and the advance of `In`
are the `Put` of `Fifo`, reads are its `Take`, and everything else is a stutter. The
wrap-around is settled once by lemmas on remainders: places modulo the length do not notice
indices modulo W because the length divides W.

**Polite applications.** The difficulty is that a thread a post wakes is never taken off
`WaitHead` and, once it has resumed, is off its ready list while its bit stays set. `Line(f)`
says what becomes of this when posts come only while the thread they wake is asleep. f is the
thread that waited last, or `WaitHead` before anybody did, and stands first on `WaitHead`. Threads more
urgent than f waited before it and are lost: `WaitHead` no longer leads to them first and
nobody posts to them. Threads less urgent than f have never waited and are each alone on
their ready list. So only two threads take part, f and the most urgent one behind it, and f
is asleep (`Dozes`), woken (`Called`) or back from its wait (`Served`); in the last state its
ready list is empty although its bit is set, and it keeps the processor until it waits again.
A thread behind f that runs while f is called is at the end of its post. When a thread waits
it becomes the new f (`LineWait`). `SemLine` adds that there is a unit exactly while f is
called; `BoxLine` that mails are no more than a called f and a post on its way to wake it, and
that the thread a post found unlocked is still f when it is made ready. For the pipe only the
most urgent thread reads, and timers of others may interrupt it anywhere; `PipeLine` says that
it is asleep, called or up, and that a write finds it in `pReadThread` exactly when it is not up.
The proof uses the rules one by one: `paced` where a post finds f asleep, `untimed` and
`calm` where only PendSV and the switch of a wait are left of the kernel, `single` where a
post that looked wakes the thread it saw.

**The allocator.** The properties of `Heap` speak of walks: along a ring, down a tree. Walks
are not inductive, so `HeapInv` describes everything by neighbours and proves from it what a
walk meets. It has four parts.

* *Heads* (`Headed`, `CoalAt`). A chunk ends where another head stands, with no head in
  between, and that head repeats its size; a head has nobody in front of it only at the first
  word of a bank; the chunk behind a free one is used. That this tiles a bank needs no induction: a
  split puts one head between two neighbours (`Split`), a merge takes one away (`Joined`), and
  all other chunks keep theirs.
* *Rings* (`Rings`). next and prev undo each other inside a class (a box's number, or a size),
  and a part of a ring that is closed under next is the whole class. So a chunk is linked in
  (`RingIn`), taken out and moved by looking at two neighbours, and `RingIs` gets the walk of
  `FreeFound` back out of it.
* *Trees* (`Trie`). Every node has a depth, which the code does not store, and at depth d it
  agrees with the root's index in the bits above (`Prefix`); a son has the next bit of its side.
  Ring members that are no node have no parent, and every large size has exactly one node
  (`NodesRight`). A walk down the bits of n therefore stays above every node of size n
  (`OnWay`) and ends at the one (`Reached`) or at the seat for a new one. Taking a node out is
  the hard case: with a leaf from anywhere below it in its place the depths of the leaf and
  the bits above still agree, since both lie under the same prefix (`Replaced`).
* *Callers* (`Owned`). A chunk is marked used exactly when its payload is held, and is large
  enough for the request.

The loops end because the depth rises (`LoopEnds`). Best fit is about the walk of
`checkout_large_chunk_in_tree` (`Searching`): what has been left out is either too small or hangs in
the last right tree left out; down the left side of that tree, or of the next tree when there
was none, the smallest size is met (`ClosestLeast`), although the walk may go right where
there is no left. `MallocIs` and `FreeIs` then say in one line each what a call does to the heads
and to `held`; the properties and the refinement of `Arena` follow from those and from
`HeapInv`. Setup is the same statement for the banks registered so far (`Settled`).

**The bits.** `Plus` says at once which bits are carried into; `CarryNext` gets the step from
one bit to the next back out of it, and `FullAdder` the equation of a full adder: the sum's
bit and twice the carry out are the two bits and the carry in. From it follow the equations
for digits of three bits (`ThreeSum`) and of six (`SixIs`). What the count needs is that
nothing is carried from one digit into the next. The subtraction has no borrow because no
digit grows (`ThreeMinus`), the sum of two digits of three bits is at most 6 and the digits of
six stay below 64 (`CountTwo`, `CountThree`, `Roomy`), and three folds leave in the lowest six
bits the sum of them all (`Folded`), which is the number of ones, counted three at a time
(`CardIs`). The scan needs two carries only: the
opposite of a word keeps its lowest one and complements what is above (`NegIs`), and one less
takes it away and fills what is below (`LessOne`), so that the masks are intervals and the
count of one is its length. The reversals exchange halves five times, or three
(`SwappedIs`), and where a bit comes from is its mirror image (`EndForEnd`).

**The index of a tree.** The code subtracts 2^8, 2^12 and 2^14 in turn and reads the borrow. A
difference with a power of two is the complement's sum, so what has to be known is which bits
the carry passes: it leaves the word exactly when the word has no bit from that power on
(`Opposite`, `Borrowed`). Each question shifts the word or not and so halves the range its
highest bit may lie in (`Question`, `Shifted`); after three it lies at 14 or 15, and the last
shift tells which. `IndexOfEverySize` reads the bits of a number and finds the same index
as the arithmetic of `Heap`.

**The others.** `CanSentIsSent` rests on `late \/ SInv`: at most one thread sends, and
its message leaves one trace at a time, in the transmit buffer, then as the flag TI, then as
the mail, each following the one before it; a send that returns takes the last trace and so
has its own message out. A send that gives up leaves a trace behind, and `late` stays true.
`CanNoMoreThanSent` needs neither rule: `CInv` counts, and every send that returned OK and
every completion still pending is paid for by a message of its own that went out.
`CanInOrder` rests on `OInv`: what was read, then what stands in the pipe, then the frame in
the receive buffer, is an increasing sequence of arrivals. `CanNotTouched` rests on `Safe`:
nobody is stale, a thread inside a call is on a live pipe and mailbox, memory is freed only
from the first half of a cleanup on, which no call begins in, and outside of it the handler is
registered only while both are live.
`ConsoleFits` and `ConsoleSpaced` share `EInv`, which is both at once: that a space is only
stored behind another character needs the counter to stay inside the buffer, and that
`service` finds an end to the line needs the NUL in its last byte. `ConsoleCuts` adds what a
string read from the buffer is: the bytes up to the first NUL (`StringIs`). The NUL that
`service` stores ends the name, and the option runs from behind it to the end the line had, so
nothing left from earlier lines is read.

Left to TLC: liveness under fairness, which is out of the prover's reach; `ObjectsTypeOK`,
checked for the two threads of its run, since it includes applications that keep few rules, in
which a woken thread that is still first on `WaitHead` gets new neighbours and the lists run
into each other.

## 5. Plan

Done: `List`, `Kernel` and its proofs; `Ticker` against `AlarmClock`; the three objects
against `Fifo`; the allocator against `Arena`, with its lock; `Can`, `SysArch`, `Console`,
`BitOps`. The proofs of the ticker's ring and of its refinement, and of the heap's lock for two
threads, of the wake-ups of any number of polite threads, and of the allocator, from its bits
to the refinement of `Arena`, and of the bit operations for every word, are done too. Left:
what the lists of impolite applications can become, for `ObjectsTypeOK`.

## 6. Not modelled

* lwIP (`ethernet/`) and FatFs (`file/`) are third-party code kept in the repository, not
  part of the build of `project/hello`. They are nine tenths of its lines; the models cover
  the system's own logic and so only a small share of all lines.
* Register level drivers (UART, LED, RTC, millisecond timer, interrupt controller set-up,
  the acceptance filter of `can_filter.c`, the EMAC driver), `printk` formatting, what the
  commands of `commmand.c` print, and start-up code keep no state that a sequence of calls
  could bring into disorder.
* `lpc1768/` repeats `lpc1766/`; its `ticker.c` and `cortex-m3/ticker/ticker.c` refer to
  fields that `THREAD` no longer has.
* Code that nothing calls: the flag lock `MutexLock`/`MutexUnlock` of `misc.c`, `math.c`,
  `bit_scan_reverse` (its instruction is commented out), `get_first_one_index`,
  `combin_free_chunk`, `list_empty_careful`, `list_is_last` and the hlist macros.
* That exited threads are reclaimed in the end: the console polls at level 31 and never
  sleeps, so idle, which frees them, does not run again once the console does.
