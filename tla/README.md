# suseVM: models and proofs

suseVM is the course work of an operating systems class: a virtual memory that
is run by user processes (`src/working` and its earlier variants), and a pair of
Linux character devices that translate letters (`src/Aufgabe4_final` and its
earlier variants). This directory holds TLA+ models of the code, the TLC
configurations that check them on small instances, and theorems with proofs for
TLAPS. `PROJECT.json` lists for each definition the lines it stands for, each
run, the hazards of the code and the properties aimed at them.

## 1. The system

### 1.1 Virtual memory (`working/`)

Processes and what they share:

| Part | Where | State | Operations |
|---|---|---|---|
| shared memory | `vmem.h` | `adm` (size, mmanage_pid, req_pageno, next_alloc_idx, pf_count, sema), `pt.entries`, `pt.framepage`, `data` | none, everyone accesses it directly |
| client library | `vmaccess.c` | only the pointer to the shared memory | `vmem_read`, `vmem_write`, `vm_init`, `dump` |
| memory manager | `mmanage.c` | `signal_number`, the page file, the log | `vmem_init`, `signal_proccessing_loop`, `sighandler`, `page_fault` (`find_remove_frame`, `store_page`, `update_pt`, `fetch_page`), `dump_vmem_structure`, `cleanup` |
| application | `vmappl.c` | an array in the virtual memory | fill, display, quicksort |

A client that needs a page which is not loaded writes the page number to
`adm.req_pageno`, sends SIGUSR1 to the manager and waits in `sem_wait`. The
manager's handler chooses a frame (a free one, or one that FIFO, CLOCK or CLOCK2
gives up), writes a changed page back, updates the table, reads the page from
the page file and calls `sem_post`. SIGUSR2 asks the manager for a dump, SIGINT
to quit; both are taken care of in the main loop around `pause()`.

What is hard about it:

* One handler serves three signals. It is installed with an empty mask, so the
  handlers interrupt each other, and all of them and the main loop communicate
  through one global, `signal_number`.
* SIGUSR1 does not queue, the semaphore counts, and `req_pageno` is one cell for
  all clients.
* The page table is kept in two directions and an entry -1 exists: while frames
  are free, the code works on `entries[-1]`, which is the memory of
  `adm.pf_count`.
* Whether a page is written back depends on a bit that another process sets.

What makes it correct: a client sees an ordinary array; the replacement policy
is the one that was asked for; the two directions of the table agree; each fault
is answered once and only when the page is there; every access returns; each
signal has its effect.

### 1.2 Startup, shutdown and crashes (`working/`)

Manager and clients meet in a POSIX shared memory object. The manager creates
it or takes one that was left behind, initialises it field by field, and unlinks
it in `cleanup()`; a manager that is killed, or that exits because the page file
fails, does not. What is hard: `mmanage_pid` is published before the handlers
are installed; SIGUSR1 may come after `munmap`; an object may be left behind in
the middle of a page fault; a client may connect to any of these states. What
makes it correct: who comes after the manager is in its main loop and leaves
before it is safe, whatever was left behind.

### 1.3 Variants of the virtual memory

`Aufgabe3/` is an earlier state of `working/`: its handler only stores the
signal's number, the main loop serves the fault, the semaphore starts at 1, and
frames are numbered from 1. What is hard is the loop: a fault that is signalled
while the loop is busy is lost, and the surplus post hides the first loss.

`probe/` is another group's solution with LFU. One semaphore is the clients'
mutex and their wake-up at once, and the handlers do all the work, so that a
dump can run between the `fseek` and the `fread` of a page fault.

`Aufgabe3_w13_pub/` is the skeleton that was handed out, with empty bodies.

### 1.4 Translate devices (`Aufgabe4_final/`)

A kernel module with two devices. Each has a ring buffer (`buffer`, `items`,
`read_pos`, `write_pos`) and two locks that `open` tries to take, one for readers
and one for writers. `/dev/translate0` encodes letters when they are written,
`/dev/translate1` decodes them when they are read. What is hard: the reader and
the writer of a device run at the same time and share `items` without a lock;
`copy_from_user` and `copy_to_user` can fail in the middle of a transfer; a
device can be opened as soon as its `cdev_add` has returned; the error path of
`translate_init` undoes steps that were not done. What makes it correct: bytes
come out in the order they went in, each translated once; decoding inverts
encoding; at most one reader and one writer; the module leaves nothing behind.

`Aufgabe4/vorlauf/translate` is an earlier version that blocks on two counting
semaphores, one for characters and one for room, and counts its own users.
What is hard: every early return has to give back what it took.
`Aufgabe4/echt` is almost the final version. `Aufgabe4/scull` is the example
driver of the book *Linux Device Drivers*; `yolo` and `try` are experiments.

## 2. Modules

| Module | What it is |
|---|---|
| `Paging` | `vmem_read`/`vmem_write` and `page_fault` with everything they call; clients, shared memory, semaphore, SIGUSR1 and page file |
| `PagingProperties` | what `Paging` promises, its inductive invariant, and the two refinement mappings |
| `FlatMemory` | abstract: an array that processes read and write, one call at a time each; implemented by `Paging`, `Probe` and `LoopServed` |
| `SecondChance` | abstract: a queue of pages, each with a number of chances left |
| `VMAppl` | the demo application on top of `Paging`, with which it is composed |
| `MManageSignals` | the main loop and the nested handlers of the manager |
| `Lifecycle` | start, crash, restart and end of the manager, and processes that connect to it |
| `Probe`, `ProbeProperties` | the virtual memory of `probe/` |
| `LoopServed` | the virtual memory of `Aufgabe3/` |
| `TranslateCodec` | encoding and decoding of characters |
| `TranslateDevice`, `TranslateProperties` | one translate device: `open`, `close`, `write`, `read` |
| `TranslateModule` | `translate_init` with its error path, `translate_cleanup`, and processes that open the devices meanwhile |
| `BlockingTranslate`, `BlockingProperties` | a device of the blocking driver |
| `TranslateFifo` | abstract: a bounded queue of translated bytes; implemented by `TranslateDevice` and `BlockingTranslate` |
| `MCPaging`, `MCVMAppl`, `MCTranslate`, `MCBlockingTranslate` | definitions for TLC |
| `PagingProofs`, `VMApplProofs`, `ManagerProofs`, `ProbeProofs`, `LoopServedProofs`, `TranslateProofs`, `TranslateModuleProofs`, `BlockingProofs` | the theorems |

A type invariant that only repeats the declarations is not stated; `TypeOK` is
stated, and checked or proved, where it says that an index stays in range.

### 2.1 `Paging`

One action is one access to what the processes share, or a run of statements
between two of them. A call is `BeginAccess` (up to the store to `req_pageno`),
`CheckPresent`, `RaiseFault` (kill), `AwaitPage` (sem_wait), `Touch` (the used
bits and the CHANGED bit) and `Transfer` (the data). The manager's handler is
`EnterFault`, then `TakeFreeFrame` or any number of `PassFrame` and one
`TakeVictim`, then `StorePage`, `UpdatePt`, `FetchPage`, `PostSema`, `LeaveFault`.

* `flags` is the set of bits of an entry. `entries[-1].flags` is `pf_count`:
  `IsChanged(-1)` reads bit 2 of the counter, and `UpdatePt` clears the counter
  for a frame that was free. The order of the fields in `vmem.h` puts
  `pf_count` directly in front of the table; a compiler that pads the structure
  differently gives another neighbour, and the counter would then only count.
* `wild` records an access outside the arrays, and the model stops there.
* `Values` are the ints stored, the page file starts with any content (the code
  fills it with random numbers), and a frame that was never filled holds -1.
* `CountMod` is the width of `pf_count`; 4 is enough, since only bit 2 is read.
* The log file is left out.

`FlatView`, the array a client sees, takes a page's content from its frame if
the page is loaded and from the page file otherwise. `ReplacementQueue` lists the
frames from the hand on, with the chances their used bits stand for.

### 2.2 `MManageSignals`

`stack` holds the active handlers; `Deliver(s)` pushes one unless a handler of
the same signal is active. Each handler is `StoreNumber`, `TestNumber`,
`NoticeFault`, `PageFault`, `Return`; each of these can be interrupted. The main
loop moves only while the stack is empty: `ResetNumber`, `EnterPause`,
`LeavePause`, `IsUsr2`, `Dump`, `IsInt`, `Quit`, `BreakAndExit`. `pause()` returns
only for handlers that run after it was entered. The client sends (`SendUsr1`) and
waits (`SemWaitReturns`). `adm.sema` is `adm_sema`, the client `caller`, and the
specification `SignalsSpec`, so that `ManagerProofs` can extend this module and
`Lifecycle`, which have no variable in common.

### 2.3 `TranslateCodec` and `TranslateDevice`

A character is its code, and the table `translate_subst` a function from
positions to characters. `CaseSize` is the number of letters in each case, 26 in
the code, so that TLC can work with two. A shorter table than two cases would
make `encode_char` read behind its end; it is left out by assumption.

A call of `write` is `BeginWrite` and then, for each character, `CheckFull`,
`CopyFromUser` (or `FailCopyFrom`), `Encode`, `MoveWritePos`, `IncItems`; a read
is `BeginRead` and `CheckEmpty`, `Decode`, `CopyToUser` (or `FailCopyTo`),
`MoveReadPos`, `DecItems`. Each is one access to the device. `items++` is one
instruction on the machine the driver was made for (a virtual machine with one
processor); nothing in the code asks for one, and the constant `SMP` makes it a
load, which happens with `MoveWritePos`, and a store. `minor` is chosen at the
start, so that one run covers both devices. What `kmalloc` leaves in the buffer
is any of `Leftovers`. That `copy_from_user` fills with zero what it could not
copy is how the kernel behaves and not part of this repository. A process uses
its file by one call at a time. An `open` that returns -EBUSY changes nothing
and is no action. A file may be opened for reading, for writing, or for both
(`Modes`), which takes the writers' lock alone. `overlapped` remembers that two
reads have been under way at once, or that an `items++` and an `items--` have
overlapped; `items` may be anything after that, so the queue is promised until
then, while the locks, the codec and the range of the pointers are promised in
every state. `GoOn` is a bound: with FALSE no call begins once two have
overlapped.

`QueueView` lists the characters as the next reads will return them: decoded,
for translate1, and without those that the reader has already passed.

A NUL that is written to translate1 comes out as the character after `Z`, since
`strchr` finds the end of the table; `StoredCharDecodes` leaves NUL out. A read
of translate1 that fails in `copy_to_user` has already decoded the first
character in the buffer, and the next read decodes it once more:
`FailRead` of `TranslateFifo` says so.

### 2.4 `VMAppl`

The application runs on top of `Paging`, whose actions it shares: a step of the
application is conjoined with `BeginAccess`, and between two of its steps the
manager and the rest of the call proceed. An action runs from the return of one
call of `vmem_read` or `vmem_write` to the next call. C leaves open which side of
`vmem_read(i) < vmem_read(r)` comes first; here it is the left one. The recursion
of `quicksort` is `todo`, the list of the ranges that are still to be sorted. The
numbers that `init_data` draws are any `Values`. `Disks` fixes the content of the
page file at the start, which the application never sees because it writes first.

### 2.5 `Lifecycle`

The shared memory object has a name or not, and lives as long as it is mapped;
two objects are enough, one that has the name and one that a client still has
mapped. Each statement of `main` and of `cleanup` that others can observe is an
action (`InitPagefile` to `InstallInt`, `QuitLoop` to `CloseAndExit`), so that
the manager can be killed between any two. The page fault is `EnterFault`,
`StorePage`, `UpdatePt`, `FetchPage`, `PostSema`, and `PagefileFails` is the
`exit(EXIT_FAILURE)` in the middle of it. `req_page` is the copy of `req_pageno`
that the handler takes at its start; `UpdatePt` reads `req_pageno` again,
`FetchPage` uses the copy. They differ when a process dies in the middle of a
fault and the next one begins an access; a page that is fetched into no frame is
then a mishap, and the page that was mapped holds data of no run.

The page table is reduced to the set of present pages, and the content of a page
to the run of the manager whose page file it comes from: that is what the
properties ask. One client runs at a time, and clients come one after the other.
`orderly` remembers whether the current client came when the manager was in its
main loop and left before it; `accident` remembers the first mishap. Assumed: no
pid is given to two managers, one manager runs at a time, and the client's
`kill(0, SIGUSR1)` reaches its own process group only. The races of SIGINT with
a page fault are those of `MManageSignals`; here SIGINT finds the manager in
`pause()`.

### 2.6 `Probe`

Its actions are named as in `Paging`. What is different: `Lock` and `AwaitPage` take
the same semaphore; the page file is one stdio stream, so that `SeekOld` and
`WriteOld`, `SeekNew` and `ReadNew` are separate steps with `filepos` between them;
`Dump` and `Quit` are handlers of their own. `Dump` is an action only between a seek
and its transfer, since elsewhere the next transfer seeks again. A dump reads
about 300 ints from the start, and `DumpEnd` is the page it ends on. `pf_count` and
`g_count` go only into the log, and what the code writes to `entries[-1]` falls on
fields nobody uses: all three are left out. The page file starts with `OldValue`
in every page. `disturbed` remembers what the users of the program have to avoid;
`MaxCalls` bounds the calls, and one that begins beside another counts twice, so
that the runs of clients that take turns are longer. The model stops at `wild`.

### 2.7 `LoopServed`

Also with the names of `Paging`, and the main loop as in `MManageSignals` but
with one handler that only stores the number (`Deliver`). One page is one int.
The code leaves its arrays, and the model follows it there by the layout of the
structs in `vmem.h`: `framepage[NFRAMES]` is `data[0]`, `data[-1]` is
`framepage[NFRAMES - 1]`, `entries[-1]` is `pf_count` and the bitmap, and the
frame `NFRAMES` lies behind the struct. `fseek` to page -1 fails, and `fwrite`
then writes where the stream stands, as glibc does. `Values` are the ints that
are stored, any ints: `vmappl` writes indexes and random numbers that are page
numbers or not. An access that comes before its page is loaded may write through
frame -1 into `framepage`, and what it wrote is later taken for a page number.
If there is such an entry, or it is entry -1, the model goes on; if not, the
manager leaves the arrays (`LeaveArrays`), and the model ends in `astray`.
`lost` counts the faults that nobody will serve; `ahead` remembers that an
access went on before its page was there. That is likely, since the semaphore
starts at 1: the very first access goes on at once unless the manager is faster.
An access that is ahead may overlap the manager's update of the flags; that
their read-modify-writes could then mix is left out.

### 2.8 `TranslateModule`

An action is one step of `translate_init` (with its failure as a disjunct) or of
`translate_cleanup`, or one call of a process. The kernel is modelled from how the
driver uses it: an `open` finds a device once `cdev_add` has returned and takes a
reference to the module through `.owner`; `rmmod` needs a module without
references; an `init` that fails unloads the module even if it is referenced;
what `kmalloc` returns is garbage, what was never set up may be anything.
`mishaps` collects the memory errors; after one the kernel is no longer defined,
and the model loads nothing any more.

### 2.9 `BlockingTranslate`

The actions are those of `TranslateDevice`, with `DownFree`, `UpItems`,
`DownItems` and `UpFree` for the two semaphores; `WouldBlock` is a
`down_trylock` that fails and `Interrupted` a signal in `down_interruptible`.
The modes of a file and `overlapped` are those of the final driver: a file
opened for reading and writing takes the writers' lock alone (`translate.c:85`),
and reads beside a reader. `GoOn` is the bound of 2.3. Two of the use count
stand for each open file: the kernel's `.owner` and the driver's
`try_module_get`. Loading and removing are one step each; `TranslateModule` has
them in detail for the final driver. `dev->items` goes only into debug messages
and is left out. The module parameters are fixed: that `translate_bufsize` can
be written through sysfs while the module is loaded is not modelled.

### 2.10 Faulty variants

Definitions with a comment that begins with "(Faulty:" are not part of the
models. Each is a plausible mistake in the definition that follows it; with the
mistake in place the property it is listed with in `PROJECT.json` is violated.

## 3. Runs

| Run | Instance | What it shows |
|---|---|---|
| `paging_clock2` | 1 client, 3 pages, 2 frames, CLOCK2, two values, reads and writes | tables inverse, clean pages saved, no access outside the arrays, one answer per fault, the page stays until it is used, and both refinements |
| `paging_lost_wakeup` | 2 clients, FIFO | violated: a client waits for ever |
| `signals` | SIGUSR1 from a client, SIGUSR2 and SIGINT from users | who owns `signal_number`, how a fault is dropped, no second answer, service, quitting and dumping |
| `signals_lost_fault` | the same | violated: a caught SIGUSR1 is skipped |
| `vmappl` | 5 elements on 3 pages of 2 ints, 2 frames, CLOCK2, values 0 to 2 | for every input the array is sorted at the end, the loops stay in range, pending parts are apart, and the application exits |
| `lifecycle` | 2 pages, 1 frame, 2 runs of the manager, 2 clients | starting the manager first is enough; a restart forgets what was left behind; a clean exit leaves nothing; only a manager that is gone lets anyone wait |
| `probe` | 2 clients, 3 pages, 2 frames, LFU, FIFO and CLOCK, 4 calls | one token; no deadlock; a flat array for clients that take turns and are not disturbed by a dump |
| `loop_served` | 4 pages, 2 frames, CLOCK2, a stored int that is no page number, 5 calls and signals | posts and lost faults balance; until an access is too early, the indexes leave the arrays by one at most and the client sees a flat array, but for the saving of page -1 |
| `translate_fifo` | 2 processes, all three modes, 2 cells, calls of up to 3 characters, 2 letters per case, one processor | each lock has one file; until two reads overlap the device is a bounded queue that translates each byte once; pointers, counter, codec |
| `translate_rdwr` | the same | violated: two processes that can read |
| `translate_module` | 2 devices, 2 processes | an unloaded module leaves nothing behind; an openable device is set up; mishaps need an init that failed |
| `blocking_translate` | 2 processes, files for reading and for both, 2 cells, calls of up to 2 characters, the table of the code | no cell is lost; the use count is right; until two reads overlap the device is the same bounded queue, and calls return |

Bounds. Three pages and two frames are the smallest memory in which a victim has
to be chosen, the hand wraps around, and a page can be loaded, changed, evicted
and loaded again while another stays; with two values a lost write shows. CLOCK2
contains the steps of CLOCK, and CLOCK those of FIFO. Two clients are enough for
every order of two signals and two posts. The signals of `MManageSignals` are sent
any number of times; the stack cannot exceed three frames since each signal
blocks itself. `vmappl` has two ints in a page, so that the address arithmetic
takes part; five elements give parts of the quicksort on both sides of a pivot
that are longer than one, and do not fit in the two frames. In `lifecycle` a run
leaves something behind and another one meets it, with one client before and one
after; one frame means that each new page throws one out. `probe` and
`loop_served` bound the events: four calls that take turns fill two frames, evict
and reload; five events let two faults be lost and the hand go round. In
`loop_served` a fourth page makes the frames from 1 on meet the frame 0. A buffer
of two cells and calls of three characters fill and empty the buffer in the
middle of a call and wrap both pointers; two processes take every role in turn.
What a device does after two calls have overlapped is no question of the runs, so
no call begins then (`GoOn`); those that are under way go on. `blocking_translate`
leaves out the mode w: a file for reading and writing takes the same lock and may
do all that a writer's may. In `loop_served` the one
int that is stored is no page number, the worst case; that other ints do no harm
either is what the theorems about `LoopServed` say.

Deadlock is not checked where the system may stop: the manager exits after
SIGINT or is gone, clients can be stuck in `sem_wait` (that is the finding of
`paging_lost_wakeup`), the application ends, the bounded models use up their
events, and a call of the blocking driver may wait for ever.

Fairness. `Paging`: every process that can run is scheduled (weak fairness of
the manager, and of each client inside a call; a client need not start a call).
`VMAppl`: the same for the manager, the call and the application. `MManageSignals`:
a signal that is not blocked is delivered (weak), and the handlers and the main
loop are not starved by users who send signals without end (strong fairness,
since each new signal suspends the code it interrupts). `Lifecycle`: manager and
client are scheduled (weak); nobody need start, kill or quit anything, and the
page file need not fail. `Probe`: the handler and each client inside a call (weak).
`BlockingTranslate`: a process in a call runs when it can, and `up` wakes the one
that waits (weak). The other modules state safety only.

### 3.1 What the runs found

Three disagreements of the code with its own comments, each shown by a run:

* SIGUSR1 does not queue: of two clients that fault together one is never woken
  (`paging_lost_wakeup`).
* The handler tests the global `signal_number` and not its argument. A SIGUSR2 or
  SIGINT in between makes it skip the page fault (`signals_lost_fault`).
* `translate_open` looks only at FMODE_WRITE, so that a file opened for reading and
  writing is a second reader (`translate_rdwr`). The blocking driver has the same
  test.

And what the properties that hold had to make room for:

* `pf_count` is cleared by `update_unload(-1)` (`working/mmanage.c:334`) as long
  as frames are free. The logs in `working/logs` show it.
* A process that comes too early kills the manager, or itself, and one that is
  still waiting when the manager goes waits for ever: `StartedPriorIsEnough` and
  `LivingManagerAnswers` say exactly when not.
* `req_pageno` is one cell for all clients. One that begins a call while another
  waits makes the manager load the wrong page, or map one page and fetch
  another, and the client that waits goes on without its page: with the two
  clients of `paging_lost_wakeup.cfg` TLC finds `ServedPageIsPresent` violated
  in 12 states. The code was used with one client, and the property is checked
  and proved for one.
* `items++` and `items--` are under no lock. On several processors they can
  overlap, one is lost, and `items` is no longer the number of items: in
  `translate_fifo.cfg` with `SMP = TRUE` TLC finds `ItemsAreCounted` violated in
  20 states. No run checks that; `ItemsIsDistance`, proved for both values of
  `SMP`, says that nothing else makes `items` wrong but two reads at once.
* In the blocking driver two reads at once work on one `read_pos`, and one may
  pass the other by for ever: `ImplementsFifo` and `CallsReturn` hold until then
  (`overlapped`).
* In `probe/` a dump between `fseek` and the transfer reads or writes another
  page, and a client that only begins a call changes the page another one asked
  for.
* In `Aufgabe3/` the surplus post of `sem_init` hides the first lost fault, and
  a client hangs only when two are lost; saving page -1 overwrites a page of the
  file.
* In `Aufgabe3/` an access that overtakes the manager can leave any int in
  `framepage`, and the manager then works on an entry far outside the table
  (`IndexesStayNear`).
* The error path of `translate_init` calls `cdev_del` for cdevs that were never
  set up, and frees devices that are open already.
* A signal of the manager that does not come alone, or not while it sleeps, may
  do nothing: `SleepingManagerObeys` is about the others.
* A NUL, and a table that has a letter twice, do not survive the codec.

Where a property only says in this way when a hazard cannot occur, through its
antecedent or a history variable (`disturbed`, `orderly`, `ahead`, `lost`,
`overlapped`), it delimits the hazard and does not exclude it. The `note` of the
hazard in `PROJECT.json` says so.

## 4. Proofs

Assumptions: the constants are natural numbers greater than 0 (the bounds of the
runs may be 0), and processes are finitely many where they are counted. In
`Paging` `CountMod` is at least 4, and for most theorems there is one client
(`Clients = {c}`, in `VMAppl` `Cardinality(Clients) = 1`), which is how the
program is used; section 3.1 says what fails with two. The theorems about the
two drivers hold for files of all three modes and, for the final one, for one
processor and for several; those about `items` and the queue speak of the time
until `overlapped`. `TheBlockingDeviceIsAFifo` has one condition more,
`FullTable`: a table with both alphabets like `TRANSLATE_DEF_SUBST`, which the
final driver cannot be without. The table's contents are arbitrary.

| Module | Theorem | States |
|---|---|---|
| `PagingProofs` | `TypeCorrect` | `TypeOK`, any set of clients |
| | `NoPostIsLeftOver` | `NoSurplusAnswer`, any finite set of clients |
| | `PagingInvariant` | the inductive invariant `PagingInv` |
| | `TablesStayInverse`, `CleanPagesStaySaved`, `MemoryIsSafe`, `ServedPageStaysPresent`, `FaultHasOneAnswer` | the properties of these names |
| | `VirtualMemoryIsFlat` | `ImplementsFlatMemory`: `Paging` implements `FlatMemory` |
| | `ReplacementIsSecondChance` | `ImplementsSecondChance`: `Paging` implements `SecondChance` |
| `VMApplProofs` | `TheSortSorts`, `TheLoopsStayInRange`, `ThePartsAreApart` | `SortedWhenDisplayed`, `LoopsStayInRange`, `PendingPartsAreApart` |
| `ManagerProofs` | `PriorStartSuffices`, `RestartsForget`, `CleanExitsLeaveNothing` | `StartedPriorIsEnough`, `RestartForgets`, `CleanExitLeavesNothing` |
| | `OnlyHitHandlersSkip`, `FaultNumberIsOwned`, `NoFaultIsAnsweredTwice` | `SkippedOnlyWhenHit`, `FaultNumberHasOwner`, `NoSurplusAnswer` of `MManageSignals` |
| `ProbeProofs` | `TokenIsUnique` | `OneToken`, any finite set of clients |
| | `MemoryIsExclusive` | while a client is at the memory no other is, and no handler works |
| | `TurnsAreSafe`, `TurnsSeeAnArray` | `OrderlyUseIsSafe`, `FlatUntilDisturbed` |
| `LoopServedProofs` | `FaultsAddUp`, `LoopTypeCorrect`, `IndexesStayBeside` | `FaultsAreAccountedFor`, `TypeOK`, `IndexesStayNear` |
| | `ArrayIsFlatButForVoid` | `FlatButForVoid` |
| `TranslateProofs` | `CodecRoundTrip` | decoding undoes encoding, for every table with each letter once |
| | `DeviceInvariant` | the inductive invariant of a translate device: `FilesInv`, and `DeviceInv` until `overlapped` |
| | `DeviceTypeCorrect`, `LocksKeepOneFileEach`, `ItemsStaysDistance`, `StoredCharsDecode` | `TypeOK`, `EachLockHasOneFile`, `ItemsIsDistance`, `StoredCharDecodes` of a device |
| | `TheDeviceIsAFifo` | `ImplementsFifo`: a device of the final driver implements `TranslateFifo` |
| `TranslateModuleProofs` | `NothingStaysBehind`, `OpenableStaysSetUp`, `MishapsStayWithFailedInit`, `OpenFileIsSafe` | `NothingLeftBehind`, `OpenableIsSetUp`, `MishapsNeedFailedInit`, `OpenFileKeepsModule` |
| `BlockingProofs` | `RoomStaysAccountedFor`, `UseCountStaysRight` | `RoomIsAccountedFor`, `UseCountFollowsFiles` |
| | `TheBlockingDeviceIsAFifo` | `ImplementsFifo` of the blocking driver |

The inductive invariant of `Paging`. `TypeOK` is not inductive, because
`req_pageno`, `req_page` and `new_frame` start as -1 and are used as indices:
`LocalsInRange` says when they are in range. The other parts of `PagingInv` are
these. `Handshake` gives, for each place of the client, what the manager, the
signal and the semaphore are doing; from it follows that the manager stands
still while the client touches its page. `FillOrder` says that frames are handed
out in order. `VictimIsSaved` carries the result of `store_page` to `update_pt`.
`WriteIsMarked` says that the CHANGED bit is set before the data changes.
`CountAtFill` is the surprising one: when the last free frame is filled,
`frames_are_occupied()` already holds and `store_page` looks at the flags of
page -1. It must not find the CHANGED bit there, and it does not, because
`update_unload(-1)` has cleared `pf_count` at every fault so far, so that the
counter is 1. The bug of section 3.1 is what keeps the program from writing
memory that is not its own.

`VirtualMemoryIsFlat` shows that each action is one of the abstract steps or leaves
`FlatView` unchanged: write-back and eviction by `CleanPagesMatchPagefile` and
`VictimIsSaved`, the transfer by `ServedPageIsPresent` and `TablesInverse`.

`ReplacementIsSecondChance` is about which page leaves. The queue of
`SecondChance` is read off the frames: from the hand once around (`PageAhead`),
each page with the chances its used bits still give it. `HandInv` adds to
`PagingInv` where the hand is (`HandPosition`): at frame 0 until the last free
frame is filled, so that the frames are a queue in the order of filling, and one
past the chosen frame afterwards, whose page has no chance left. It also needs
`UsedBitsInOrder`: with CLOCK2 a page that had the second used bit and not the
first would gain two chances by one access, which is no step of the queue. The
code sets them in order and takes the second bit first, so that this never
happens. `PassFrame` is then the queue's pass over its head, `update_pt` its
load or its replacement, an access its use, and every other step leaves the
queue alone.

`VMApplProofs` proves the sort on top of that. A page of the array may be in a
frame or in the page file, and a call may be under way, so `SortInv` speaks of
neither but of `Soon`, the memory (`FlatView`) once the `vmem_write` under way
has returned, and of `Heard`, what the last `vmem_read` has returned or will
return: with them each call is a plain read or write, and what the manager does
in between changes nothing (`VMemIsUnheard`). `Goal` is the memory after the
swap in progress, which has the numbers that `init_data` wrote
(`NothingIsLost`). The pending parts do not overlap (`PartsStandApart`), and two
elements in the wrong order are always in the same part (`InOrder`). In the
middle of a swap one number is twice in the array; `Near` says that this happens
inside the current part, with numbers from there, so it disturbs no other. In a
partition, what the two indices have passed is on its side of the pivot
(`Passed`), the left index stands at an element that is not less (`LeftStands`),
and the last swap puts the pivot where it belongs (`PivotIsPlaced`). The loop
from the left has no test of the bound in the code; the pivot at the right end
stops it, which is what `TheLoopsStayInRange` rests on.

The invariant of a translate device has two layers, for any number of processes
and files of any mode. `FilesInv` holds in every state: `LockInv` relates the
locks to the open files, so that one file can write and one can only read,
`LoopInv` says what the loops know of their locals, and `CellInv` follows a
character from the copy to the end of its encoding. `DeviceInv` holds until
`overlapped`, which only two things set: a read that begins beside another (what
`translate_rdwr` makes possible), and, on several processors, a load of `items`
while the other side is between its load and its store. Until then there is one
reader. `CallInv` says that what a loop tested (`items` is not the buffer's
size, or not 0) still holds some steps later, since only the other side has
counted in the meantime, and in the harmless direction. `DistanceInv` says how
far the pointers are apart, without the modulo, which keeps it linear.

`TheDeviceIsAFifo` rests on where the queue lies. `Cell(i)` is the place of the
i-th character, the one the reader has passed and not yet counted included; the
cells are different, and the next one, `Cell(items + 1)`, is the writer's
(`EndsOfQueue`). So what the writer stores there is in nobody's queue until it
is counted, and what the reader decodes is the first, which the mapping takes as
decoded from then on. `StoredInv` and `GotInv` carry a character from the copy
to the counting: behind the queue lies the translation of what the writer counts
next, and the last character the reader has copied is the first of the queue.
With them `IncItems` is the `Put` of the queue, `DecItems` its `Get`, a failed
copy its `FailRead` or `FailWrite`, and everything between leaves the queue
alone.

`LifeInv` says what a manager has initialised at each place of its `main`
(`StartInv`), how far client and manager are with a page fault (`FaultInv`) and
which data the pages hold (`PageInv`), all as long as `orderly` holds; since
`orderly` cannot come back before the next `Start`, and a start finds it true only
without a client, nothing about what was left behind is needed. That is the
argument of `RestartForgets`: each thing is initialised before it is first used.

The second part of `ManagerProofs` is about the handlers of `MManageSignals`,
for any set of signals that share `sighandler`, not only the two of the code and
of the run. The handlers are a stack in which only the last one moves, so a step
pushes, pops or changes that one (`DeliverPushes`, `ReturnPops`,
`ContinueMoves`). `HandlerInv` adds two facts to what is stated: a handler at
its test that nobody has interrupted is the running one and finds its own number
there (`UnhitTests`), and whoever goes on to `page_fault` has caught SIGUSR1
(`FaultsHaveOwnHandler`). The second is not obvious in the code, where each
handler tests what any of them has stored: a SIGUSR2 handler that is interrupted
before its test could find SIGUSR1 there. It cannot, since the SIGUSR1 handler
it was interrupted by has always cleared the number, or skipped, by the time it
returns (`FaultNumberHasOwner`). So each fault is counted once (`AnswersStep`):
a pending signal becomes a handler, and a handler a post, if the users do not
send SIGUSR1 themselves.

`ProbeProofs` first follows the token. A step either moves it between the
semaphore, a client and the manager or leaves it; `HolderStays` and the lemmas
beside it say what each kind of step does to the set of the holders.
`TurnsAreSafe` and `TurnsSeeAnArray` need more: `Orderly`, which holds until the
turns are disturbed. The two directions of the table agree (`TablesAgree`) and
frames are filled in order (`FillOrder`); a fault that is under way has a client
that waits for it (`FaultHasCaller`), its page is not there before `update_pt`
and is there afterwards (`PageComes`), so that a client whose wait ends finds it
(`AccessFindsPage`); the handler knows its frame, its old page and where the
shared stream stands (`HandlerKnows`). A page that is not DIRTY equals its copy
in the page file, also the one that leaves (`CleanIsSaved`), except for the page
whose data is written and whose bit is not yet set (`BeingWritten`).

`LoopTypeCorrect` is about what holds whatever ints are stored. It becomes
inductive with two facts: `RequestInv`, that a page number is noted down
wherever one is used, and `FileInv`, that the page file stands behind its spare
page only between a `store_page` and the `fetch_page` that follows. The ints
that the manager looks up are another matter: `IndexesStayBeside` needs
`ArrayInv` (below), by which `framepage` holds page numbers and -1 until an
access runs ahead of its page; after that it may hold anything, and the model
can go astray.

`ArrayIsFlatButForVoid` shows what those indices do to the contents. `ArrayInv`
holds until an access runs ahead of its page, and needs nothing afterwards:
`OneFault` says that one fault at a time is on its way and that it is the
client's; `FramesApart` that the pages in memory are on frames of their own,
that nothing is on frame 0 before all others are in use and that till then
`data[0]`, which is `framepage[NFRAMES]`, reads as -1; and `VictimIsSaved` that
a page is saved before its frame is taken. The number of the page on frame
`NFRAMES` is written over by the first data on frame 0, which does no harm,
since no hand of the clocks or of FIFO reaches frame `NFRAMES` again and that
page stays. What is left as an exception is the save of page -1, which is
written wherever the page file stands.

`LedgerInv` is the balance of `FaultsAreAccountedFor` with the types of its parts;
it is inductive as it stands. The work is in `Deliver`, where a number is
overwritten or comes too late, and in the loop, where it becomes a served fault.

`ModuleInv` has for each device how far it is set up or undone at each step of
the loader (`DeviceInv`), relates each lock to the files that are open (`LockInv`)
and says that a file that is open keeps the module from going (`FileInv`).

`BlockingProofs` counts processes by the places they are at: `OneComes`,
`OneGoes` and `NoneComes` say what a step does to the size of such a set, and
each action moves one cell, or none. For the queue, `CoreInv` adds the types
(`DeviceTypes`), one writer and one reader with their locks (`PortInv`), the
copies of the pointers and the conditions of the loops (`CallInv`) and the
distance of the pointers (`DistanceInv`), all until `overlapped`. The length of
the queue is no variable here: it is what the semaphore of the items shows plus
the characters in the hands of the reader, and `LengthFacts` takes from
`RoomIsAccountedFor` that it is below the size while a writer holds a cell, that
a writer is sent away only when it is full and a reader only when it is empty.
The rest is as for the final driver, with the two `up`s as `Put` and `Get`;
loading and removing the module is `Reload`. `CodecIsShared` shows that the two
codecs, written differently, are the same function: the first place where the
table has a letter is the least (`LeastOne`).

Only model-checked: liveness, which the prover does not support, `Exits` of
`VMAppl` among it. Every invariant and every safety property the passing runs
check is a theorem. `PagingInv`, `HandInv`, `ArrayInv`, `DeviceInv`,
`NoSurplusAnswer` of `Paging`, `TypeOK` of `LoopServed` and
`OpenFileKeepsModule` are proved and belong to no run.

## 5. Not modelled

* The display functions, debugging output and the wording of the log.
* `Aufgabe4/echt`, which differs from the final driver in comments and debugging
  output; `Aufgabe4/scull` (third party), `yolo` and `try` (experiments that are no
  driver), and the skeleton `Aufgabe3_w13_pub`, whose bodies are empty.
* Startup and shutdown of `Aufgabe3/` and `probe/` step by step: they are those of
  `working/` up to the order of statements, and `Lifecycle` has them.
* Two managers at once, a pid that is used again, and several clients in
  `Lifecycle`.
* A translation table that is shorter than two alphabets, and module parameters
  that are changed while the blocking driver is loaded.
* In `LoopServed`: liveness, since a client hangs as soon as two faults are lost,
  and the overlapping updates of a page's flags after an early access.

## 6. What could come next

1. The two devices in a row, as `test.sh` uses them: text that goes through
   translate0 and translate1 is unchanged.
2. The sort of `VMAppl` on the memory of `Aufgabe3/`, to see which runs of the
   program the save of page -1 can spoil.
