# SafaOS in TLA+

SafaOS is a small operating system for x86-64: a kernel in Rust (`src/kernel`),
a C library, a shell and a few programs in Zig (`src/libc`, `src/Shell`,
`src/bin`, `src/TestBot`). These modules model the parts of the kernel whose
correctness depends on order: of interrupts and system calls, of allocations
and failures, of operations on shared structures. TLC checks each of them on a
small instance; TLAPS proves their safety properties for every value of the
constants.

`PROJECT.json` maps every definition to the source lines it models, lists the
runs, the mutants that show each property can fail, the hazards of the code and
the theorems.

## How the kernel executes

Everything below rests on this reading of the code.

* **One CPU.** Processes are kept in a linked list; the timer interrupt
  (`context_switch_stub`) calls `swtch`, which *tries* the scheduler's lock and
  resumes the same context when it is taken.
* **System calls** come through an interrupt gate (`int 0x80`) and run with
  interrupts off. A system call is therefore atomic except where it calls
  `thread_yeild` itself (`wait`, `sysread`, `syswrite`).
* **Eve** (pid 0, `kmain`) runs in ring 0 with interrupts on. What is atomic in
  a system call can be preempted between any two locks when Eve does it, and
  she can be preempted *holding* a lock.
* **The keyboard interrupt** runs on top of whatever it interrupts: it edits the
  line of the terminal and, on Ctrl+Shift+C, spawns a shell in the name of the
  interrupted process, a zombie included.
* **Exit** makes a process a zombie, frees its page tables, enables interrupts
  and halts. The zombie stays in the list, and on the CPU when its turn comes,
  until a `wait` unlists it.
* The repository builds the kernel with the dev profile: arithmetic overflow
  panics, and the panic handler turns interrupts off and halts for good.

## Inventory

| part | state | operations | interacts with | what is hard | what makes it correct |
|---|---|---|---|---|---|
| scheduler (`threading/`, `arch/x86_64/threading`) | process list with a cursor, statuses, `next_pid`, exit codes | switch, yield, spawn, exit, wait, (kill) | timer, keyboard, every system call | zombies are scheduled; wait is two critical sections and a polling loop; interrupts spawn in anybody's name | the cursor is on a listed process, nobody is lost, wait returns the code of its target, pids are not reused |
| linked list (`utils/alloc.rs`) | head, tail, cursor, next, prev, len | push, remove, next_wrap, iterators | the scheduler | removal of the node under the cursor, of head or tail | pointers never dangle and are those of a list in order of age |
| resource tables (`threading/resources.rs`) | a Vec with holes, `next_ri` | add, remove, clone, clean | open, close, diriter, spawn, pspawn, exit | a search hint that must stay below every hole; a cloned table with a fresh hint | lowest free index; an index denotes what was opened until it is closed |
| frames, page tables, break (`memory/`, `processes.rs`, `elf.rs`) | bitmap, trees, `data_pages`, `data_break` | allocate, deallocate (a flip), map_to, free, sbrk | spawn, exit, heap | failure half way; a double free hands a frame out again; Eve preempted between two allocations | no frame in two places, everything referred to is marked used |
| RamFS tree (`drivers/vfs`) | inodes, entries, hard links, current directories | create, createdir, path walk, chdir | spawn (CLONE_CWD) | ids taken from a length before two pushes; `..` through hard links; a directory kept as text | a tree; `..` is the parent; a path leads to what was created by it |
| RamFS files | bytes, two positions per descriptor | open, close, clone, read, write | resource tables | the first write empties the file under all others | a lone writer owns the file; an undisturbed reader never skips |
| terminal (`terminal/`, `devices/tty.rs`) | screen, line buffer, RECIVE_INPUT, lock | key, backspace, clear, read, write, print | keyboard interrupt, sysread, Eve | readers that poll and switch input off for each other; the lock of a preempted Eve | input is read once, whole and in order; the user sees the line |
| keyboard (`drivers/keyboard`, `drivers/keymapper.rs`) | bytes of an unfinished code, pressed keys | a byte from the controller | terminal | prefixes, lost bytes, repeats added each and removed once, a full vector, combinations of modifiers | what is down is known; the character is the one that was meant |
| screen (`utils/ansi.rs`, `terminal/framebuffer.rs`, `drivers/framebuffer.rs`) | four screens of cells, a window, the cursor, the rest of the text | write, backspace, page keys, clear | terminal, panic handler | counts of characters used as bytes, a cursor nobody checks, scrolling by single lines, a buffer that ends | the line stands where the cursor is and is visible; writing ends |
| kernel locks | SCHEDULER, VFS, devices, terminal, heap | lock, try_lock | all | lock order, interrupts off while spinning | not modelled, see the plan |
| kernel heap (`buddy_allocator.rs`, `page_allocator.rs`) | block headers in the heap, its end; a bump pointer and a counter; the kernel's page entries | alloc, dealloc, expand | all | headers inside the heap, coalescing until nothing changes, rounding that differs between the two directions, entries left behind, two locks over one pool of frames | regions in use never overlap, blocks tile the heap, no frame has two owners, calls return |
| program loading (`elf.rs`, `copy_to_userspace`) | page tables, argv area | load segments, write argv | spawn | copies that cross a page; a file that changes between stat and read | pages: AddressSpace; bytes: planned |
| device and process file systems | none | open, read, write, list | locks | listing `proc:/` takes a lock it holds | with the locks |
| boot archive (`ustar.rs`) | none | parse, create files | RamFS | | not modelled |
| machine set-up, syscall argument checks | tables of the firmware | | | | not modelled |
| C library (`stdlib.zig`, `stdio.zig`) | chunk list, streams | malloc, free, buffered I/O | sbrk, read, write | coalescing, breaks given back | malloc planned |
| shell, programs, test bot, build tools | | | | sequential user programs | not modelled |

## Modules

Each component module has its constants and named assumptions, its variables
under the names the code uses, `Init`, one action per operation, `Next`, `Spec`
(with `File` or `Key` in front in `RamFile` and `Keyboard`, which share a module of
theorems with another component) and its properties. A definition that begins with the comment "Mutant:" is a
plausible bug that some property is checked to notice; it is not part of any
specification. Variables commented "history" record the past for a property and
influence nothing.

**Scheduler.** `processes` is a function from the listed pids to records:
`status` is `ProcessStatus` (what `switch` looks at), `state` is `ProcessState`
(what `wait` looks at), `at` is where the process resumes. The list is in the
order of pids, since `add_process` appends and pids grow, so the search of
`switch` is a minimum over `Comes`. `TimerTick`, `ThreadYield`, `Spawn`,
`KeyboardSpawn`, `ThreadExit`, `WaitCall`; `wait` continues with `WaitFind`
(one look-up, which yields, returns 0 or takes the exit code) and `WaitRemove`
(the second lock). `InterruptsOn` says when the timer and the keyboard get
through: between `WaitFind` and `WaitRemove` for Eve only. `KeyboardSpawn` sets
`panicked` on a zombie, where it reaches `unreachable!()`, and on any process
when `pspawn` fails, since its result is unwrapped.

**LinkedList**, **OrderedRing.** The pointers of `utils/alloc.rs`; a node is
named by its value, freed nodes leave the domain of `next` and `prev`.
`OrderedRing` is what the scheduler expects of it: a set of pids with a cursor
that advances to the next higher one and falls back to the next lower one when
its own is removed. `LinkedList` implements it, which is what entitles
`Scheduler` to use `Listed` and `Comes` instead of pointers.

**Resources**, **FdTable.** The Vec and `next_ri` of each `ResourceManager`
under open, close, the directory iterators, spawn with and without
`CLONE_RESOURCES`, `pspawn` (which leaves the file of the program open in the
caller) and exit. `FdTable` is the promise: per-process partial functions,
allocation at the lowest free index.

**AddressSpace.** The bitmap as the set `used`; a page table tree as a function
from nodes `<<level, number>>` to frames. Areas of pages are mapped as in
`alloc_map`: all frames first (`AllocPage`, kept in `held`), then for each page
the missing tables (`AllocTable`) and the entry (`MapPage`); an area is a single
page in `load_exec` and `page_extend_data`. Every allocation is a step of its
own, since each takes the allocator's lock and Eve may be preempted between
two. `Fail` is the `?` on `FrameAllocationFailed` at each of these places:
nothing is given back. `Exit` frees what `PageTable::free` visits and flips the
bits; `Switch` may put a zombie on the CPU.

**RamFS.** Inodes with the three kinds of `RamInodeData`, including the chain of
hard links that `..` becomes. Paths are sequences of tokens (separators, the
drive, dots, names); `ReslovePath`, `ParentText`/`NameIn` and `FullPath` are the
three ways the code takes a path apart. A call that returns an error changes
nothing and is no step.

**RamFile.** The bytes of the files and the descriptors on them. A byte is the
descriptor that wrote it, or `Zero` where `Vec::resize` filled a gap.

**Terminal.** The text on the screen, `stdin_buffer`, `RECIVE_INPUT`, the
processes in the loop of `sysread` and the lock that Eve can be preempted with.
A poll that meets Eve's lock stops the machine (`hung`): `try_write` fails and
the next line of `devices/tty.rs` takes the same lock blocking, with interrupts
off. So does Ctrl+Shift+C when the shell cannot be started: `pspawn(..).unwrap()`
panics. What the panic handler then prints is left out.

**KernelPages**, **BuddyAllocator**, **PageAllocator**, **KernelHeap**,
**Allocator.** `KernelPages` is the kernel's half of the page tables as the two
allocators see it: `used`, and `entry` from pages *and tables* to frames.
Mapping a page goes as in the code: `TakeFrame` (the frame of the page, kept in
`held`), `MapTable` for each table `Entry::map` finds missing on the way, taken
from the same pool, then `MapEntry`; `MapFails` at any of these places loses
the frame held and keeps the tables made. `Unmap` flips the bit and leaves the
entry. At boot only the tables of the initial heap are there, those of
LARGE_HEAP are not.
`BuddyAllocator` keeps the headers as a function `block` from addresses to
`[free, size]`; `call` is the call that holds the lock and the loop it is in,
and each turn of a loop is a step (`Divide`, `Coalesce`, `ExpandMap`). `Got` is
the block returned: the *right* buddy for a head without neighbour, the divided
block itself otherwise, as in `find_free_block`. Requests are of any size: a
head without neighbour that is in use or too small is handed out all the same
(`FindAlone`), after which the headers are overwritten and the model starts no
further call of this allocator (`overcommitted`). `ExpandPanics` is the write of
a header into a page that is not mapped, and the overflow of the new end of the
heap. `PageAllocator` is the bump allocator; its addresses are page numbers.
`KernelHeap` composes the two. Each has its own spin lock. Eve, who runs with
interrupts on, can be preempted inside a call; a system call or the key handler
(`masked`) may then run a call of the other allocator to its end, or wants the
lock Eve has, or the frame allocator's, and spins for ever (`Spin`, `doomed`).
The page tables have no lock: when Eve is preempted inside `Entry::map` and that
caller comes to the same missing table, one of the two is lost (`TableLost`,
`doomed`; the other steps of `MapTable` are one).
`Allocator` is what both promise, and both are shown to implement it; the heap
needs the exception it calls `Overcommit`.

**Keyboard.** A user who holds keys, a controller that sends the bytes of their
codes, repeats the last key and loses a byte now and then, and the driver:
`HandleByte` is `handle_ps2_set_1` with what the interrupt handler does with
its result. Pressed keys are kept by code, since nothing reads their flags; a
character is kept as the mapping of the key that was chosen. The user, the
controller and the loss are external; a byte is lost when the next one arrives
before the interrupt was served, which interrupts that stay off make possible.

**Screen.** A text is a sequence of bytes of the kinds the parser tells apart
(one of them the second byte of a wide character). `TakePiece` and `Sequence`
are `AnsiiParser::next`, then `PutChar` draws one character at a time. Vertical
positions are rows of pixels, so that a window that stops between two lines
(the last screen, when the height is no multiple of a character) is there.
The cursor is a `usize`: a negative one stands for the huge number it wraps to,
and using it in a pixel address overflows. `fault` records why the kernel
panicked. `Terminal` keeps the text as such; `Screen` is where it is drawn.

The `MC*` modules give TLC the instances; the `*Proofs` modules hold the
theorems.

## Runs

| run | instance | distinct states | shows |
|---|---|---|---|
| `scheduler` | 3 pids, two exit codes, fairness | 5 254 | the table stays consistent and `wait` correct under every interleaving; everyone listed runs again; a wait for an exited process returns |
| `linked_list` | 7 pushes | 897 | pointers and iteration, and that the list implements the ring |
| `resources` | parent and child, tables of 4 | 68 643 | the managers implement lowest-index tables |
| `address_space` | Eve and 2 processes, 12 frames, 2 levels of 4 entries | 291 136 | frames are never shared; a break is always backed |
| `ramfs` | 2 processes, 6 inodes, 9 paths | 53 670 | the tree, `..`, current directories, and that what is created is found |
| `ramfile` | 1 file, 2 descriptors, up to 3 bytes | 479 342 | lone writers and undisturbed readers |
| `terminal` | 2 readers, 4 keys, 1 line of Eve, fairness | 320 710 | order of input, what the user sees, readers are served |
| `kernel_heap` | 8 units of heap, pages of 4, tables of 4 entries, 10 frames, requests of 1, 7 and 63, 3 blocks in use, 2 large pages, fairness | 678 865 | both allocators implement `Allocator`, the headers tile the heap, frames have one owner, calls return short of what a preempted Eve can cause |
| `keyboard` | 6 keys, 3 places for pressed ones, 1 repeat, 1 byte lost | 3 129 228 | what is down is known, the character is the one meant, the byte buffer is not overrun |
| `screen` | 2 columns, 6 lines of 2 rows, a screen of 3 rows, 16 texts, 3 writes, fairness | 543 167 | the line stands before the cursor and is visible, the cursor is safe, writing ends |
| `zombie_interrupted` | as `scheduler` | violated | Ctrl+Shift+C while a zombie is on the CPU reaches `unreachable!()` |
| `exit_leaks` | as `address_space` | violated | `free` skips entries 256.. at every level, not only in the root |

The two runs that end in a violation check what a comment or an assertion of the
code says; the finding in `PROJECT.json` quotes it. In `RamFS`, `RamFile`,
`Terminal`, `Keyboard` and `Screen` the type invariant is a conjunct of one of
the invariants that are run; where the theorems below prove types
(`LinkedList`, `Resources`), no run repeats them.

### Bounds, and why they are enough

* *Scheduler.* Three pids give Eve and a process that both wait for the third,
  the smallest table in which two waiters race for one zombie, and in which the
  search of `switch` can skip somebody. Two exit codes tell a code from a
  constant. The safety properties are also proved for any number.
* *LinkedList.* With seven pushes every shape of the neighbourhood of a removed
  node (head, tail, only, under or beside the cursor) occurs at every length.
* *Resources.* Tables of four hold several holes above the hint, and closes
  below it move it back. Two processes suffice: tables only meet at spawn.
* *AddressSpace.* 12 frames: two processes with full heaps need 16, so every
  allocation also fails somewhere, with one and with two frames held. The
  layout makes the heap start on a page the image already has, as `load_exec`
  does by mapping one page too many, and go on under a second table. Slots are
  interchangeable (`SYMMETRY`). Amount 3 is no multiple of the page size.
* *RamFS.* Six inodes are two nested directories and a file, or one directory
  and three files. The paths contain `..`, `.`, doubled and trailing slashes,
  absolute paths and the backslash that only some calls treat as a separator.
* *RamFile.* Lengths 0, 1, 2 against a size of 3 reach every order of the two
  positions and the size, also gaps.
* *Terminal.* Four characters are two lines; buffers of 1 and 3 are shorter and
  longer than a line. `MaxScreen` only cuts off scrolling.
* *KernelHeap.* Requests of 1 and 7 take blocks of 2 and of 8 units; 7 takes all
  of the initial heap, so that a second request meets a head that is in use, and
  63 is more than the heap has and, added to it, more than an address holds.
  Three blocks in use leave holes of different sizes and force the heap to be
  expanded. The initial heap ends with its tables of the lowest two levels: its
  next page and the first one of LARGE_HEAP need one new table of level 2 and a
  table of level 1 each, and which allocator makes the shared one depends on the
  order. Five frames are free at boot: enough for a page and a large buffer at
  a time, or two overlapping buffers if the code handed them out, and they
  run out in both allocators, for a page and for each table, in the middle of a
  large buffer too. Large buffers are one whole page, or two of which the second
  is begun; two of the first kind fill the range, as one of the second does.
* *Keyboard.* Three modifiers and a key with a mapping for each pair of them;
  with three places in the vector four keys held overflow it. An array of two
  bytes stands for the one of eight: one lost byte is then almost enough. The
  properties say what holds short of a loss and of a full vector.
* *Screen.* A screen of three rows and characters of two make the last window
  start inside a line. Three writes of up to three characters, in lines of two,
  fill the six lines of the buffer, and one text fills it alone, so that the
  last window is also erased and written again. The texts hold sequences that are whole, cut
  off, malformed and doubled, a number above 255, and wide characters at both
  ends.

Deadlock checking is off where the model stops only because a bound is reached
or the user stops typing (`linked_list`, `ramfs`, `ramfile`, `terminal`, `keyboard`, `screen`), or after
a panic (`kernel_heap`, `screen`, `keyboard`).

### Fairness

*Scheduler.* Strong fairness of `TimerTick`: the local APIC timer is periodic
and its interrupt stays pending while interrupts are off, so a tick that is
possible again and again is taken. Strong fairness of each process' `WaitFind`
and `WaitRemove`: for a system call they cannot be interrupted, and for Eve a
quantum is much longer than the instructions between two of them. Nothing is
assumed of user code: a process may compute for ever, and nobody has to exit,
spawn or wait.

*Terminal.* Weak fairness of each reader's poll and of Eve's `print`: this is
what `EveryoneRuns` of the scheduler provides. Nobody has to type. Both
properties end in "or the machine stops", because the code can.

*KernelHeap.* Strong fairness of the steps of each allocator's call. The loops
wait for nothing; a caller with interrupts off runs to its end, and Eve, if
preempted, is scheduled again and again as long as the machine does not hang
(`EveryoneRuns`), though other calls keep interrupting her: hence strong. That
Eve's lock is *not* always given back is an outcome, `Spin`: `CallsReturn` ends
in "or the kernel panics or is doomed". Nobody has to allocate.

*Screen.* Weak fairness of the steps of a write, which runs with nothing to wait
for. Nobody has to write or type.

## Theorems

Proved with TLAPS from the assumptions named in the modules (sizes are natural
numbers, a screen is higher than a line, Eve is a process, `Nil` is no node, the
initial heap is a power of two and a multiple of the page size and its pages and
tables have frames of their own, the range of the heap is as long as the memory,
paths are made of the tokens and no name is a separator, a dot or the drive, keys send the codes of scan code set
1), for every value of the constants. Each inductive invariant was run through
TLC on the instance of the table above first, but for `EveMayPrint` and
`SegmentInv`, which the proofs asked for. The theorems of a component are in the module named after it;
`RamFSProofs` has those of `RamFS` and `RamFile`, `ConsoleProofs` those of
`Terminal` and `Keyboard`.

**SchedulerProofs.** The inductive invariant is the conjunction of `TypeOK`,
`CurrentListed` and `NoneLost`, which `scheduler` checks, with `ZombieKeepsCode`,
`WaiterHoldsCode` and `PidsFresh`. None is inductive alone. That removal leaves the
cursor on a process needs `PidsFresh` and `ZombieKeepsCode` (only zombies are
removed, Eve never is one, so the head stays and the process on the CPU, which
is in `wait`, is not the target); that a waiter holds a code needs
`ZombieKeepsCode`; that needs `PidsFresh` for new entries. From it follow
`CurrentSafe`, `NoProcessLost`, `CodesKept` and the action properties
`NoPidReuse`, `ReapCollects` and `WaitCorrect`.

**LinkedListProofs.** `TypeOK /\ Linked` is inductive: with neighbours stated as
*nearest* lower and higher node, each operation has a local argument and no
induction over the list is needed. `ListIsLinked`, `LenIsCount`, `CursorKept`,
and `ListImplementsRing`: `Spec => RingSpec`. `IterIsComplete`: the node
`clone_iter` reaches after *k* steps is the one with *k* older nodes. That every
rank below `len` is taken, and that the walk is at its rank, are shown from the
least number for which it would fail.

**ResourcesProofs.** `HolesFound` (no hole below the hint, the hint within the
Vec) and, from it, `ManagersImplementTables`: `Spec => TableSpec`. Without the
first the slot found from the hint would not be the lowest.

**AddressSpaceProofs.** `FramesBacked`, `FramesIsolated`: `Backed` and
`Isolated` are inductive together with types and the fact that a process in no
call holds no frame. A fresh frame is referred to by nobody because everything
referred to is marked used; a flip at exit clears bits and never sets one
because the frames of the tree are all marked; and it takes nothing from others
because no frame is in two places. The proof covers every failure path.
`HeapBelowBreak`: `HeapMapped` needs that an `sbrk` works on the tree of its own
live process and holds at most the page above what is mapped (`SbrkOwn`), that a
slot being filled has one filler (`SpawnFills`) and that the counters of a slot
are zero until its process runs (`FreshCounters`): Eve preempted in a spawn must
not give pages to, or take a slot from, somebody else's.

**KernelHeapProofs.** The inductive invariant `IInv` has these parts.
`BuddyInv`: `Tiled`; all sizes are powers of two, so that a half is whole;
every block in use is marked so, holds what was asked for and is less than twice
as large as that needs; and the call in progress stands on a block that is free
and large enough, or on a lone head that is not (`Misfit`). Nothing is assumed of
the requests: that a lone head misfits only when its one user has more than half
of the heap, or more is asked for than there is, is what the bound on block
sizes gives, and what `Overcommit` says. `LargeInv`: the buffers in use lie one
behind the other below `last_end` and `allocations` counts them. `FrameInv`:
`FramesOwned` also for the pages the call in progress has mapped or has still to
unmap; of the entries `unmap` leaves behind nothing is said, since nobody owns
their pages. `WalkInv`: a page that has an entry has its tables, which no step
takes away, so a failure half way never leaves a page without them.
`SegmentInv`: the heap's pages are mapped without a gap. With frames of their own
they are then fewer than the frames (a pigeonhole argument, `HeapBelow`), so the
heap never reaches LARGE_HEAP and no page is in both ranges. From it follow
`TypeCorrect`, `RowTilesHeap`, `FramesStayOwned`, and the refinements
`HeapRefines` and `LargeRefines` (each: `Spec` implements `Allocator`).
`NothingLeftToJoin`: `Coalesced` needs `CoalescedInv`. While a block is divided
the only neighbours that could be joined are the halves just made
(`SmallestInv`), because the block chosen is the smallest that fits; a pass that
joins nothing has started at the head (`PassInv`); and the pass `allocmut` makes
before it retries never joins anything (`RestInv`), so the retry is idle.

**RamFSProofs, the tree.** `TreeTheorem` (`Tree`), `DotDotTheorem`
(`DotDotIsParent`), `CwdTheorem` (`CwdIsBase`) and `CreatedTheorem`
(`CreatedIsFound`), for any paths and any number of processes and inodes.
`TreeInv` adds that a hard link holds an inode made before it (`Shape`): the
chain of links that `..` becomes then ends, `Final` is well defined, and
creating something changes it for no older inode. `PathInv` adds that the root
is a directory, that every current directory starts with the drive, ends in a
slash and, when it is plain, leads to a directory (`Cwds`), and that a path
something was created by starts with the drive and leads to it (`Found`). Two arguments carry these over a step.
A walk that succeeded goes the same way after anything is created, since entries
are only added and never replaced; and the components of a path are those of the
text before its last slash, followed by the name, so that
`reslove_path_uncreated` and `reslove_path` take a plain path apart alike. What
`split` and the loop do is a recursive function of the number of tokens or turns;
its defining equation and each fact about it are proved from the least number at
which it would fail.

**RamFSProofs, the bytes.** `WriterOwnsFile`: `SoleWriterOwnsFile` is inductive
once a sole writer's position is known to be the length of what it wrote, which
makes its next write an append. `ReaderInFile`: `ReaderKeepsPlace` is inductive as
it stands. `PanicNeedsTruncation`: the read that subtracts below zero happens only
to a descriptor of which somebody has cut off or overwritten bytes it had read.

**ConsoleProofs, the terminal.** `InputKept` (`InputInOrder`) and `LineShown`
(`LineSeen`). Both say that the unread input is the end of a longer text; the
invariant names the rest of the screen (`LineOnScreen`), so that each key and read
is an operation on the end of both texts. Only letters and newlines are in the
line (`LineTyped`), which is why erasing it never takes the cursor away.

**ConsoleProofs, the keyboard.** `PrefixesTheorem` (`PrefixesBounded`),
`KeysTheorem` (`KeysTracked`) and `CharTheorem` (`CharMeant`), for any capacity of
`current_keys`, any array of at least two bytes and any number of repetitions and
losses. `BoundInv`: the decoder holds as many prefixes as bytes were lost, and one
more only while the byte after the last one is on the wire. The other two hold
between two codes, so `CleanInv` says what holds in the middle of one: the decoder
and the wire together hold one code, the make code of the key pressed last or the
break code of one that is up (`OneCode`); a held key has an entry unless its make
code is on its way (`DownEntered`); a key never repeated has one entry at most, and
none after its break code (`UpRemoved`); CapsLock follows its codes one behind
(`CapsToggled`); and the key handed on has the flags of the entries at that moment
(`KeyHanded`). `CodesAssumption` is what the controller guarantees and the tables
of the code provide: codes of one byte or a prefix and one byte, break codes with
the top bit set, no key decoded as another, the modifiers among those decoded.
PrintScreen and Pause, whose codes are longer, are therefore not among the keys.
`CharMeant` then compares `map_key` with what is meant for each shape of the
entries of `DEFAULT_MAPPING`.

**ScreenProofs.** `CursorHeld` (`CursorSafe`), `LineInWindow` (`LineVisible`) and
`LineInPlace` (`LineDrawn`), for any height, character size, number of columns
and texts. The invariant adds where the cursor is relative to the lines
(`OnScreen`), that the window does not begin below it (`WindowAbove`) and that it
is at most one line below the window, and inside it once something stands in
front of it (`CursorNear`). The last is what makes scrolling by a single line
enough. The numbers of a sequence are a recursive function of the text; its
defining equation is proved from the least index at which it could fail. The
proof corrected the model twice: with a screen of one line `clear` can panic
without paging, which `ScreenAssumption` now excludes (the code has many
lines), and erasing a window that begins inside a line leaves the next line
below it, which `LineVisible` had denied and no run was long enough to reach.

Left to TLC: the liveness properties (`EveryoneRuns`, `WaitReturns`,
`EchoResumes`, `LineTaken`, `CallsReturn`, `WriteEnds`), which need fairness and
`ENABLED`. Every other property of the passing runs is a theorem.

## Differences seen while modelling that no run is about

* `switch` overwrites the status Zombie that `terminate` has set, so zombies are
  scheduled until they are collected (`threading/mod.rs:144`).
* The comment on `Process::terminate` says children move to the parent; only the
  tree kill, which no system call reaches, does that.
* Two processes that wait for the same pid: the second gets 0.
* Ctrl+Shift+C unwraps the result of `pspawn` in the interrupt handler: a shell
  that cannot be started, for want of frames for instance, panics the kernel
  (`terminal/mod.rs:147`).
* `pspawn` never closes the descriptor it opens in the caller
  (`threading/expose.rs:129`; `FdTable` allows it).
* Output, or the clearing of the screen, while a line is being typed leaves the
  drawn cursor behind; each key then erases one character of the output
  (`terminal/mod.rs:155`; `mixed` in `Terminal`).
* `sbrk` with a negative amount panics (the amount is cast before it is
  subtracted).
* The walk of a path takes `\` for a separator and refuses an empty component
  inside a path; creating takes only `/` and accepts one. A file created by such
  a path is not found by it (hence `Plain` in `RamFS`), and a current directory
  that ends in a backslash leads nowhere.
* Listing `proc:/` takes the scheduler's lock while holding it.
* `thread_exit` frees the page tables `cr3` points to and the ring-0 stack it
  runs on, and halts on them; the scheduler loads that `cr3` again whenever the
  zombie has its turn (`processes.rs:323`). `paging.rs:138`: "unsafe because
  self becomes invaild after use".
* A read through a descriptor whose file was emptied meanwhile (by the first
  write of any descriptor, the same one included) subtracts below zero and
  panics (`ramfs.rs:205`; `ReadPanics` in `RamFile`).
* `copy_to_userspace` ignores the offset in the first page when at most a page
  is left to copy, and writes past the frame (`memory/mod.rs:102`).
* `free` of the C library compares the break with the end of the chunk without
  its header, so that nothing is ever given back (`stdlib.zig:114`); `sbrk` of
  a negative amount would panic.
* A read of the terminal whose buffer ends inside a wide character leaves half
  of it in the line, where it is taken for valid text (`tty.rs:37`).

Kernel heap:

* Expanding by less than a page from a page aligned end maps nothing, and
  `add_free` writes its header into a page that is not there (`ExpandPanics`),
  although it requires that "self.heap_end .. self.heap_end + size shall be
  mapped" (`buddy_allocator.rs:102`). The first expansion by a small block does
  that: the initial heap ends at a page. A request so large that the new end
  overflows panics as well.
* `find_free_block` hands out a head without neighbour without looking at its
  size or at `free` (`buddy_allocator.rs:196`): a first request of more than the
  heap gets a block that is too small, and while one block takes all of the heap
  a second request gets the same memory. Nothing bounds what
  `vec![0; stat.size]` or `data.resize` ask for. `Overcommit` is this case and
  `HeapAllocates` shows it to be the only one.
* When `map_to` finds no frame for a table, the frame taken for the page is lost
  (`buddy_allocator.rs:126`, `page_allocator.rs:57`).
* With Eve preempted inside an allocator or the frame allocator, a system call or
  the key handler that allocates spins with interrupts off for good (`Spin`).
  With Eve preempted in `Entry::map`, between its test of an entry and the
  clearing of the new table, a caller that needs the same table loses what it
  enters there (`paging.rs:194`, `TableLost`).
* The search that `allocmut` repeats after coalescing never finds more: at rest
  there is nothing to coalesce (`Coalesced`).
* `deallocmut` of the page allocator leaves the last page of an odd size mapped
  and its frame allocated for good; an allocation that fails half way leaves
  what it mapped, and the next one maps over it. No owner loses a frame by
  this (`FramesOwned`), but the pool shrinks.
* `unmap` leaves the entry in place and does not flush it.

Keyboard:

* A modifier held long enough to repeat stays pressed after its release; when
  256 keys are in the vector the last entry is overwritten.
* Any byte but 0xE0 completes a code, so Print Screen, the only key with two
  prefixes, is never recognised; the right Shift and Ctrl keys have no code.
* Shift makes upper case of Q only; the other letters have an entry for CapsLock
  and none for Shift.
* The keys exempt from the SHIFT and CTRL flags are each other's: Ctrl does not
  get SHIFT and Shift does not get CTRL, while each gets its own.

Screen:

* Two escape characters in a row make the parser return nothing for ever, with
  the terminal's lock held; characters are counted and used as bytes, so a wide
  character in a text panics or cuts it. `²`, which Alt+2 types, does so when a
  program prints it back.
* `ESC[;5H` is read as row 5, positions count from 0 and from the start of the
  buffer, not of the window; a number above 255 panics; nothing keeps the cursor
  on the screen.
* Clearing after PageDown, or after erasing back over the start of a line that
  was scrolled away, panics; so does writing past the fourth screen, since only
  Ctrl+Shift+C and the sequence `J` take the window back.
* The sequence `J` in the last window of the buffer, when that begins inside a
  line, moves the cursor up by whole lines only: the next line written is cut
  off or below the window (`framebuffer.rs:284`).
* PageDown at the end and PageUp at the start move the window without drawing it.
* A panic while drawing holds the lock of the interface, which the panic handler
  takes again (`main.rs:104`): nothing is printed.

## Not modelled, and why

Colours and the copy to video memory, GDT/IDT/APIC/ACPI set-up (runs once, before there is anything
concurrent), pointer and error-number conversion of the system call layer (no
state), logging, the user programs, the build. The kernel half of the page
tables is in `KernelPages` as far as the two allocators write it; one tree stands
for all processes, whose roots copy the entries `init_heap` made at boot. A range
that reaches under a second entry of the root, made after the copies, is not
modelled. Saved registers are
reduced to the point where a process resumes. The tree kill, which no system call
reaches, is left out; so are `getinfo` and `pcollect` (`proc:/` and `syspcollect`
reach them), which copy the process table out under its lock and change nothing.
Left out too are `Keyboard::is_pressed`, which nothing calls, the boot archive (a
pass over memory that calls what `RamFS` models), the file systems without state,
and the bytes of program loading.

## Plan

In this order; each new module gets its properties, mutants and map first and
then, where it pays, its theorem.

1. **KernelLocks**: SCHEDULER, VFS, device, terminal and heap locks, who takes
   which under which with interrupts on or off; deadlock freedom short of the
   known cases (`tty.rs:23`, `procfs.rs:59`, the pairs `Terminal` and `KernelHeap` have
   as `hung` and `doomed`, the panic handler while drawing).
2. **Malloc** of the C library over the `sbrk` of `AddressSpace`.
3. **Loading**: `copy_to_userspace` against a byte-wise reference, the argv
   layout, the race of `pspawn` between `fstat` and `read`.
4. **Kill** (`terminate`, `can_terminate`, reassignment of children) as further
   actions of `Scheduler`.
5. `Keyboard`, `Terminal` and `Screen` composed: what a stuck modifier does to
   Ctrl+Shift+C, and what is typed while the window is elsewhere.
