# A TLA+ model of the kernel, its daemons and programs

Origel is a fork of the Redox operating system: a microkernel written in Rust
(`src/kernel`, `src/arch/x86_64`), drivers and scheme daemons that run as user
programs (`src/drivers`, `src/schemes`), and the programs of a small Unix
(`src/programs`). This directory holds TLA+ modules that model its concurrent
and stateful parts, TLC configurations that check them on small instances, and
proofs checked by TLAPS. `PROJECT.json` maps every definition to the lines it
models and lists components, runs, mutants, findings, hazards and theorems.

## How the system runs

* `kmain_ap` halts every CPU but CPU 0, so one CPU runs every context.
* System calls and interrupt handlers run with interrupts disabled, and no
  interrupt handler calls `context::switch()`: the kernel does not preempt. The
  code between two calls of `switch()` is one atomic step of a context.
* A context gives up the CPU when it blocks (`WaitCondition::wait`, `futex`,
  `nanosleep`, `waitpid`, a request to a user scheme), yields, or exits.
* A signal is delivered by `switch()`: `signal_handler` is pushed on the stack
  of the target, which then exits. The frames below it are abandoned, so what a
  killed context was in the middle of is never undone.
* Files belong to schemes. A scheme of the kernel answers within the call; one
  of a daemon gets a packet, and the caller is suspended until the daemon has
  written its answer. A daemon serves one packet at a time, keeps what it
  cannot answer yet in a list of its own, and learns by events what to read.
* Ids of contexts are not reused, and schemes are never removed from the list.

The modules follow from this. `Context` has the scheduler itself, and the
modules that are about waking (`WaitQueue`, `Futex`, `Process`, `Pipe`) extend
it: a step is a step of the context that `switch()` selected. The other kernel
modules let any context take the next step between two suspensions; that the
scheduler gets there is the subject of the first kind. For a daemon or driver
one packet, event or callback is an action; the other daemons, the devices and
the network act between any two of them. Where a daemon waits inside a packet
(`ahcid` polls its disk, `redoxfs` writes blocks) the action is cut there. A
sequential program is modelled by what it does to its state for each input, and
checked against a definition of what the input means.

## The modules

### The kernel

| Module | Source | State and actions |
| --- | --- | --- |
| `Context` | `kernel/context`, `syscall/time.rs`, `kmain` | `status`, `wake` and `pending` of contexts, which one runs, the clock. A system call is given by `pc`, what a context does when it next runs. `switch` is the scan of `switch.rs`: it unblocks those it passes over that have a signal or whose time has come, and stops at the first that may run, ids above the running one first. kmain always runs, so it finds someone. `wake` is written by `nanosleep` and never reset, as in the code |
| `WaitCondition`, `WaitQueue` | `kernel/sync` | `wait` blocks and lists the context, `notify` unblocks all; `send` (from a context or an interrupt handler), `receive` and `receive_into` |
| `Fifo` | (abstract) | what a queue promises: values go in at one end and prefixes come out at the other |
| `Futex` | `syscall/futex.rs` | `FUTEXES` as a sequence, a turn of the loops with `swap_remove_back` as a function of the list, the position and who was taken, and the loops as its iteration, `FUTEX_WAIT`, `FUTEX_WAKE`, `FUTEX_REQUEUE`, threads that set the value and then wake |
| `Process` | `syscall/process.rs`, `context/list.rs`, `sync/wait_map.rs` | clone, vfork, exec, exit, waitpid, the lock of the list of contexts. `userFiles`, chosen initially, says whether files may make these calls switch |
| `Files` | `syscall/fs.rs`, `syscall/process.rs`, `context/event.rs` | tables shared through an `Arc`, with the calls that suspend in the middle: open, dup, close, fevent and the loops of clone, exec and exit over a table |
| `Grants` | `context/memory.rs`, `syscall/driver.rs`, `scheme/user.rs` | the sorted vector of grants and the pages of each thread's page table; `place` is the loop of physmap and capture_inner |
| `Paging` | `arch/x86_64/src/paging`, `context/memory.rs`, clone | tables of `Levels` levels that are reached through their own last entry, frames with contents, the translation buffer; `with`, temporary pages, the mapper, brk, and what clone copies or shares, with the flushes where the code has them |
| `FrameAllocator` | `arch/.../area_frame_allocator.rs` | `next_free_frame`, `current_area` and the recursion of `allocate_frames`, one step per call |
| `UserScheme` | `scheme/user.rs`, `scheme/root.rs` | a daemon and its clients: capture, packet, answer, release, and fmap, which maps the other way round. The daemon answers in any order and may exit; signals take clients out of a call |
| `Schemes` | `scheme/mod.rs`, `root.rs`, `syscall/privilege.rs` | the list of schemes with its id counter, which wraps at `MAX`, namespaces, root files, user, group and namespace ids. A failed assertion sets `panic` |
| `KernelFiles` | `scheme/env.rs`, `initfs.rs`, `sys/`, `live.rs` | cells of data shared by handles, with the place of each handle, and what clone does to environments |
| `Pipe` | `scheme/pipe.rs` | read and write ends with `Arc` and `Weak` counts: a suspended reader holds an end that may have been closed meanwhile, and a killed one holds it for ever. `shared` makes the contexts threads or processes |
| `Irq` | `arch/.../interrupt/irq.rs`, `scheme/irq.rs`, drivers | two 8259A controllers in fully nested mode (external), the handlers, the counts of `irq:`, drivers with their event queues |

### Drivers and daemons

| Module | Source | State and actions |
| --- | --- | --- |
| `Nic` | `drivers/e1000d`, `drivers/rtl8168d` | the rings shared with the card, the interrupt and scheme callbacks, requests that wait. The card works between any two steps |
| `Ahci` | `drivers/ahcid` | a request cut into commands, one buffer, command slots, start, poll and stop of the port; faults of the disk |
| `Display` | `drivers/vesad` | text and graphic screens, which one is shown, what the frame buffer shows of each row, keys, readers put off |
| `Ps2d` | `drivers/ps2d` | the dialogue that sets up the controller, then bytes of keyboard and mouse into events |
| `RedoxFS` | `schemes/redoxfs` (library, `file:` daemon, FUSE server, utility) | blocks, nodes, extents, directories, handles. A request leaves block writes, carried out one by one, and the machine may stop after any |
| `CachedDisk`, `Disk` | `redoxfs/scheme/cache/mod.rs` | the write-through cache over a disk that may fail; `Disk` is what a disk promises |
| `LinkedHashMap`, `OrderedMap` | `redoxfs/scheme/cache/linked_hash_map.rs`, `lru_cache.rs` | the map at the level of raw pointers, boxes, guard and free list, iterators from both ends; `OrderedMap` is what it promises |
| `NetStack` | `schemes/ethernetd`, `ipd`, `udpd`, `crates/event` | three daemons on one host with their event loops, ARP, loopback and Ethernet, sockets, postponed reads; and the bytes of a packet: the headers and checksums of the `netutils` library as the daemons build and parse them, with the padding of a short frame |
| `Tcpd` | `schemes/tcpd` | the daemons of two hosts: states of a connection, sequence numbers modulo `M`, queues of each handle, and a network that loses, repeats and fails |
| `Terminal` | `schemes/ptyd`, `programs/orbutils` terminal | the daemon as operators on its state; composed with the terminal, a shell and a child of it, each request sent, served and answered in steps of its own |
| `Orbital` | `schemes/orbital` | windows, focus, drag, the rectangles to be redrawn, and what each cell of the screen shows; two threads under a mutex |

### Programs

| Module | Source | State and actions |
| --- | --- | --- |
| `Irc` | `programs/netutils` irc | the thread that reads what is typed, the main thread, the channels they share, and the server (external) |
| `Dhcp` | `programs/netutils` dhcpd | hosts that ask for an address, options of a datagram, files of `/etc/net` |
| `IonSyntax`, `Ion` | `programs/ion` | how a line becomes commands, jobs and words; blocks, functions, variables, the stack of directories, processes of a pipeline |
| `Coreutils` | `programs/coreutils` | the argument parser and fifteen tools: cut, wc, head, tail, cat, echo, sort -n, dd, tee, rm, mv, cp, test, sleep, date |
| `Tar` | `programs/tar` | writing and reading of archives in blocks, long names, sparse members, archives cut short |
| `Calc` | `programs/extrautils` calc, `programs/orbutils` calculator | tokens, the grammar, the buttons |
| `Smith` | `programs/smith` | text, record of actions, selection, modes, the lines in view |

`Fifo`, `Disk` and `OrderedMap` are abstract specifications; `WaitQueue`,
`CachedDisk` and `LinkedHashMap` are shown to implement them through refinement
mappings (`FifoSpec`, `DiskSpec`, `LruExact`). `SyncProofs` (`WaitQueue` and `Futex`) and
`MemoryProofs` (`Grants` and `FrameAllocator`) hold only proofs; the other proofs
are at the end of the module they are about.


## The runs

A run passes unless it is marked as a violation. Most runs check several parts
of the system, one at a time: an MC module extends one module and instantiates
the others, the initial state chooses the `part`, and the variables of the
other parts never change. The parts of such a run do not interact; where parts
do interact (a daemon and its clients, the layers of the network, a terminal
and ptyd, a driver and its device) they are composed inside one module.

| Run | Module | Distinct states | Shows |
| --- | --- | --- | --- |
| `wait_queue` | `WaitQueue` | 421,790 | with signals, timeouts and an interrupt handler that sends: no wake-up is lost (`NoLostWakeup`), the queue implements `Fifo` (`FifoSpec`), and a receiver for which values come returns (`ReceiverReturns`) |
| `futex` | `Futex` | 199,472 | `FutexExact`: nobody sleeps on a word that has changed without a wake still to come, the scans take the entries they should and as many as asked, and entries are of contexts that wait; `WokenReturns` |
| `calls` | `MCPipe` | 480,017 | `PipeExact`: no reader sleeps beside a byte or after the last writer, end of file is final, bytes come out once and in order; `EofReached`. `CallExact`: each call of a daemon's scheme gets its own answer once, and its buffer is mapped and owned exactly as long; `CallReturns` |
| `kernel` | `MCKernel` | 1,277,060 | `NoFrameTwice`, `NoFrameLost`. `ProcessExact`: only exited contexts are reaped, once; zombies have a parent that can reap them; a vfork parent that has not slept before is halted as long as the child uses its memory, and no longer; waitpid is woken. `FilesExact`: a number of a file is owned by one slot or one suspended call, and none is forgotten |
| `schemes` | `MCSchemes` | 1,041,585 | `Disjoint`: grants do not overlap. `GrantsExact`: mapped pages are those of the grants, and no assertion fails if all threads were cloned with a grant. `SpacesExact`: an address space maps what its regions say, with the right contents, and the translation buffer agrees. `SchemesExact`: namespaces share what mkns was asked to copy, ids wrap safely, and nobody gets back an id or a namespace it has given up. `KernelFilesExact`: what is written is read, environments are shared or apart as clone says |
| `storage` | `MCStorage` | 208,256 | `EntriesSurvive`, `DataKept`: no entry disappears, no block has two uses, files keep their bytes, wherever the machine stops. `DiskSpec`: the cache is a disk. `LruExact`: the pointers are an ordered map, each box in one place |
| `network` | `MCNetwork` | 836,759 | `TcpExact`: the ends agree on what was sent, one connection per SYN, nobody sleeps beside data; `Handshake`: a connection that is waited for is made. `StackExact`: a datagram reaches the sockets it is for, once and in order, and nobody else, and readers are served; every message of a small set arrives byte for byte through the headers, checksums and padding of a frame. `IrcExact`: users are those of the channel, messages are shown once. `OneOffer`: the files of `/etc/net` are of one offer, and a dhcpd that fails spoils at most one of them |
| `drivers` | `MCDrivers` | 300,460 | `InServiceExact`: what drivers' acknowledgements end, with a card on one controller and `ps2d`'s keyboard and mouse on both. `NicExact`: frames pass once and in order, none is stuck. `DiskExact`: an answer says what reached the disk. `ConsoleExact`: the screen shows the active screen, readers are answered, the set-up of the PS/2 controller succeeds and the pointer follows the mouse. `DevicesAnswered`: interrupts are acknowledged, disk requests return |
| `desktop` | `MCDesktop` | 291,005 | `TerminalExact`: nothing typed or written is lost, repeated or reordered; `TerminalEnds`: the terminal ends with its last process, and the shell when the terminal quits. `OrbitalExact`: every stale cell is scheduled to be drawn, no read sleeps beside an event |
| `userland` | `MCUserland` | 1,414,650 | `IonExact`, `CoreutilsExact`, `TarExact`, `CalcExact`, `EditorExact`: each program against a definition of what its input means that is written without the program's flags and counters |
| `grants_threads` | `Grants` | | violation of `NoPanic`, see Findings |
| `frames_range` | `MCKernel` | | violation of `AreaUsedUp`, see Findings |

Some properties have an exception for what the code is known not to do (a client
killed in an fmap, a context with an old wake time, a stale interrupt count, a
block list that was reordered). The exceptions are part of the properties, the
states in which they apply are marked when the code makes them, and
Observations says what they are for.

**Bounds.** Two or three contexts besides kmain reach every interleaving of two
parties with a bystander, or of two waiters and a waker; one signal abandons any
suspended call; clocks of 1 or 2 give a sleep that is over before the next
block.

* `kernel`: four areas around the kernel reach each branch of `allocate_frames`
  for counts up to 3. Three contexts are a parent, a child and a grandchild or
  sibling. Two callers (interchangeable, so a symmetry set), two slots and three
  numbers fill a table, reuse a slot and share a table.
* `schemes`: grants use page-straddling sizes and addresses at both ends of a
  page, and three of them leave a gap to be reused. Three levels of tables have
  a first, a middle and a last, 70 frames are never used up, and five calls are
  enough to clone, switch, touch, edit and switch back. `MAX = 5` schemes make the id
  counter wrap inside the second namespace. Two handles of one variable and two
  contexts, with six calls, let each truncate or clone under the other.
* `storage`: blocks of two bytes have a first and a last; nodes with two extents
  overflow into a next node; eleven starting disks, made by requests of the
  model, are fragmented, full, deep, without a free extent, with an old node left
  by a crash, or with a handle whose file was removed; two requests, each
  of which may stop after any write, then meet every one of them. The cache has
  three blocks and room for two.
* `network`: `M = 8` sequence numbers start at 7 and so wrap; two handles on each
  host are a listener and a connection; either one odd event (a lost segment, a
  repeated SYN, a failing write) or two threads on the server. Two datagrams
  and two files give order and a wrong recipient. The messages that are carried
  byte by byte (TCP segments and UDP datagrams, some of which parse as a segment)
  have an even and an odd length, sums that carry, frames with and without
  padding, and lengths up to the longest that a write takes; for these the field
  of a length counts modulo `U16 = 64` and not 2^16, and the limit of a write is
  as far from it as 65507 is. Two IRC channels, one other
  user and three typed lines move and leave the current channel. Six
  strings of options follow each other, are cut short, come twice or are no
  address.
* `drivers`: two interrupts per line let one arrive at every step of the service of
  the other; rings of three descriptors wrap under five frames; requests are up
  to two commands with one fault; the mouse moves by distances at both ends of
  the range of its nine bits.
* `desktop`: six scenarios of keys cover editing of a line, control keys, raw
  mode, a child and a quit; two windows on 4 by 3 cells overlap, touch and
  reach over the edge.
* `userland`: all lines of up to five characters over the alphabets that matter
  to a scanner; scripts of two blocks and two functions that call each other;
  archives with members at, below and above a block; expressions of three terms
  and four presses; five events of the editor. date is checked on the first
  50,000 days.

**Deadlock** is checked in `wait_queue` and `futex`, where the scheduler is the
whole model and kmain always runs. Elsewhere it is switched off because the
bounds stop the system (numbers used up, contexts gone, scripts at their end).

**Fairness.** The scheduler is deterministic and kmain gives the CPU to whoever
can run, so steps of the kernel are weakly fair: kmain, the timer interrupt,
the delivery of a signal, and the return of a context that is suspended in a
call (`receive`, `futex`, `read`). Programs need not make any further call. A
daemon keeps reading and answering, as the loops in `src/schemes` do; this is
the fairness of `UserScheme`, of `Tcpd` for the packets of `ip:6`, and of
`Terminal` for ptyd, the terminal's loop and a shell that has been answered or
whose input has ended. In `Irq` interrupts are enabled while programs run, and
drivers are contexts that run. In `Ahci` the driver polls in a loop, and the
disk does or refuses what it was told.

## The proofs

Each theorem holds for every value of the constants that meets the assumptions
below: any number of contexts, threads, clients, frames or lines, and no bound
on what they do.

| Theorem | Says |
| --- | --- |
| `SyncProofs!IInvHolds` | the inductive invariant |
| `SyncProofs!TypeCorrect`, `WakeupsKept`, `SleepsComplete`, `CpuRunsRunnable` | `TypeOK`; `NoLostWakeup`; no sleep is cut short; `switch` selects only runnable contexts |
| `SyncProofs!ImplementsFifo` | a wait queue implements `Fifo` (`FifoSpec`) |
| `SyncProofs!FutexCorrect` | `FutexExact` |
| `Pipe!PipeCorrect` | `PipeExact` |
| `Process!ProcessesCorrect` | `ProcessExact` |
| `UserScheme!CallsAnsweredOnce` | `CallExact` |
| `MemoryProofs!GrantsDisjoint`, `GrantsMapped` | grants never overlap (`Disjoint`); the pages mapped are those of the grants (`GrantsExact`) |
| `MemoryProofs!AllocatorInvariant`, `FramesReturnedOnce`, `FramesInFreeMemory`, `FramesNotLost` | the inductive invariant; `NoFrameTwice`; only free memory outside the kernel; `NoFrameLost` |
| `CachedDisk!CacheImplementsDisk` | the cached disk implements `Disk` (`DiskSpec`) |
| `Irq!ServiceEndsOnce` | `InServiceExact` |

`Context` holds the lemmas that the wait queue, pipes and processes share: the
least element of a set of ids exists, whom `switch` selects and whom it
unblocks, and what a step of the scheduler may do to a context that does not
run. They assume of the constants that ids and bounds are natural numbers and
that kmain's id is none of the others.

*Wait queue.* The invariant `IInv` adds to the properties what they rest on:
the running context is runnable; a listed context is suspended in `wait`; a
suspended receiver that is still blocked is listed, and then the queue is
empty. The last part is what makes `NoLostWakeup` inductive: it holds because
`send` pushes and notifies without a switch between. The refinement cites the
invariant and splits each step into an abstract send, an abstract receive of a
prefix, or a stutter.

*Futex.* The invariant `FutexIInv` is types, `RunsRunnable`, `FutexContract`,
`EntriesWait` and `WaitersQueued`: a sleeper that waits with a value has an
entry for its address. The last is needed because a wake of all waiters clears
the word's debt, and may do so only if it has found everyone. What the loops do
is shown apart from the steps. A wake loop is the iteration of `turn`; by
induction over the turns (`LoopTurns`) the list and those taken are together the
entries there were (`Traced`), positions that were passed hold none of the
address, and each turn passes a position or removes an entry. `LoopEnds`
concludes that the loop is over after as many turns as the list has entries,
`WakeCounts` and `RequeueCounts` that it takes the smaller of the number asked
for and the number there was. The induction is stated for sets of numbers
(`SetInduction`), since the library's theorems with an operator as parameter are
of no use to the provers.

*Pipe.* `PipeExact` is inductive with types, with a sleeping reader being in
the list of the next notify (`Listed`), and with the ids of each file table
being ends that exist and that no other table has (`EndsExist`). The last two
carry the argument for end of file: `weak_count` is 0 only when no table has a
write end, so nobody is left to write. Assumed besides: finitely many contexts.

*Processes.* `ReapsExited`, `ZombieHasReaper` and `VforkReleases` are parts of
the invariant; `VforkHalts` and `WaitpidWakes` follow from it. What it adds: the
running context is runnable or spins on the lock of the list (`Runs`); ids that
were not given out are unused, and a parent is older than its children
(`Fresh`), so that handing children on never makes a cycle; who is listed in a
waitpid map waits for a status that has not come (`Waits`); and who keeps whom
halted (`Halts`). The last is needed because `exec` takes the vfork flag into a
local: a parent is held by the flag or by that local, by one child only unless
it has slept before or exits, so that the wake-up of one child never releases a
parent that another one holds. Each step is shown to be of one of five kinds (a
call goes on or returns, clone, exit, waitpid, the scheduler), and each kind to
keep the invariant. Assumed: `FIRST` is a context and 0 is not.

*Calls of daemons.* Packets in the queue, with the daemon and answered have
different ids (`Numbered`), a client waits for the packet it sent (`Waiting`),
buffers are mapped for waiting clients and for queued and taken packets, none but
late ones once the daemon has exited (`Buffers`), and grants of an fmap are those
of its client (`Fmaps`). Assumed: `None` is no packet.
Ids do not wrap in the model, as in a system that makes fewer than 2^64 calls.

*Grants.* `PlaceFree` shows that the gap the loop finds is free: every grant
before the position ends at or before the address, because the loop moves the
address to the end of each grant it passes, and every one behind it starts
after the new end. For `GrantsExact` the invariant adds that a table is named
after a thread that leads to it and that threads share theirs as soon as there
are two (`SharedTables`); an unmap then removes pages that are there, once. As
the property says, this is for processes whose threads were all cloned with a
grant; the run `grants_threads` shows the others.

*Frames.* Every frame handed out is below `next_free_frame`, inside an area and
outside the kernel, and `next_free_frame` never moves back. That none is lost
rests on `choose_next_area` taking the lowest area not yet passed. The proof
assumes what the code relies on: areas are disjoint and start and end on
frames, the kernel starts at frame 0, as kstart says, and a request is for at
least one frame.

*Cached disk.* `Disk` gives each block the set of values that a read of it may
return: one, unless a write to it has failed. The mapping takes for this what
the disk below has and what the cache holds of the block, if it does. The two
may differ after a failed write, which changes the disk and not the cache; that
is why the invariant (`IInv`) says only that the list has each block once and is
within its capacity, and the rest is in the mapping. Removal, insertion and
`get_mut` hold what they should and nothing else (`WithoutHolds`, `AppendHolds`,
`GetMutHolds`, `InsertHolds`); by induction over the blocks of a call so do the
loops of read and write (`InsertedHolds`, `RefreshedHolds`), even when later
blocks of a call evict earlier ones. A read and a write of `Cache` are then a
`Read`, a `Write` or a `Fail` of `Disk` (`ReadImplements`, `WriteImplements`).
Assumed: block numbers have no gaps.

*Interrupts.* At most one line of the slave is in service, because level 2 of the
master keeps a second one out, and only the keyboard may be above it (`Nested`); the count that a driver has read is not
acknowledged yet (`Unacknowledged`), and none is acknowledged that has not come
(`Counted`). A command then ends the line's own service, or the keyboard's in
place of level 2's, and once a command is missing level 2 never ends.

Only model-checked: everything else. Liveness under fairness (`ReceiverReturns`,
`WokenReturns`, `EofReached`, `CallReturns`, `Handshake`, `DevicesAnswered`,
`TerminalEnds`) is outside what the prover can do, and so is what a recursive
operator computes for every input (the trees of `RedoxFS`, the parsers and
programs, the checksums of `NetStack`); the loops of `Futex` and `CachedDisk`
could be proved about because they are recursive functions of the number of a
turn. The refinement of `OrderedMap`, `Files`, `Schemes`, `Paging`,
`KernelFiles`, and the daemons, drivers and programs are checked by TLC only.
The inductive invariants of `Irq`, `Pipe`, `Futex` and `Process` were
model-checked before they were proved; the one of `Process` completely for three
contexts with sleeps and signals to all.

## Findings

Each is a run in which TLC violates one property that states what a comment or
an assertion of the repository says.

| Run | The code |
| --- | --- |
| `grants_threads` | clone shares the vector of grants, and the page table entry behind it only if the vector is not empty at that time; threads cloned earlier unmap pages that are not mapped in their table, which the page table code asserts |
| `frames_range` | "all frames of current area are used, switch to next area" is said of an area that only has fewer frames left than the request; the same area is chosen again and the recursion does not end |


## Observations

What the models show the code to do, or what was met while reading it for a
model, where no comment or assertion promises anything else. Where a property
has an exception, it is for one of these.

**Kernel**

* `wake` is never reset, so a context that has slept once is unblocked at once
  by its old time: FUTEX_WAIT returns and leaves its entry in the list, which
  later counts as a woken waiter, or cuts another sleep short (`EntriesWait`).
  A vfork does not halt such a parent: it runs in the memory that the child
  still uses (the exception of `VforkHalts`; nobody sleeps in the run `kernel`,
  and the theorem covers those who do).
* exec keeps the read lock of the list of contexts while it waits for a user
  scheme; a clone or a reap of another context spins for ever.
* exit uses a parent id read before it closed files; with files of user schemes
  the parent may be gone (`ZombieHasReaper`). exec takes the vfork flag before
  it closes files, and a signal in between leaves the parent halted
  (`VforkReleases`). waitpid for a context that is no child never returns.
* exec closes the numbers of its copy of a shared table; threads that share it
  keep numbers that are closed (`OwnedOnce`). open and dup lose a number when
  the table is full. These are the history variables `copied` and `dropped`.
* fevent stores the event id in a copy of the slot, and nothing unregisters it.
* The answer to an fmap is mapped into a context that has exited meanwhile, and
  dropping that context fails an assertion (`NoMappedGrantDropped`). A daemon
  that exits leaves calls unanswered, and while one of their clients is there
  the scheme takes more: the `Weak` of `UserScheme` can be upgraded, a buffer is
  mapped into the exited daemon, and reaping it fails the same assertion (`late`).
  A killed reader of a pipe keeps its end.
* mkns with the name of a default scheme, or with one name twice, fails the
  assertion of make_ns; the run uses lists without them.
* `Mapper::unmap` frees the frame it unmaps, so that a temporary page frees the
  table it showed; deallocation does nothing, which is all that keeps this
  harmless. The unmap of a temporary page does not flush; it is safe because
  every `InactivePageTable::new` is followed by a `with`, which does. Tables of
  lower levels are never freed (a TODO of the code).
* A handle of `env:` whose place lies past the end, after another handle has
  truncated, writes at the end. Handles inherited by a clone without CLONE_VM
  still refer to the parent's variable.
* End-of-interrupt commands name no line. The keyboard interrupts while the
  mouse, or a card, is in service; if that line is acknowledged first, as `ps2d`
  does, which takes events in their order, the master ends the service of the
  keyboard. If the keyboard then interrupts again before it is acknowledged, one
  command is missing for good: level 2 stays in service, and mouse, cards and
  disk interrupt no more (`again` in `InServiceExact`).
* A card that interrupts during the first callback of its driver, which
  `trigger_all` starts, is cleared with an old count and never acknowledged
  (`stale` in `InServiceExact`, `Acknowledged`).

**Drivers**

* rtl8168d looks for a full descriptor from 0 on, so that frames are given out of
  order when the ring has wrapped. In e1000d the test of DD and that of the head
  each suffice.
* ahcid waits with `readf(A | B)` only while both bits are set, and never
  acknowledges its interrupt. A failed write may have written a prefix.
* The assertions of ps2d's set-up fail if a key comes between a command and its
  reply; both handlers read port 0x60 without a look at whose byte it is.
* Opening a screen of vesad with `/activate` does not redraw it.

**redoxfs**

* insert_blocks on a full free node writes a stale copy back, so that the new
  node is free too (`overflow`), and allocation never follows the next node (a
  TODO). It may put new blocks before or between those of a file (`reordered` in
  `BytesKept`).
* Removing an entry in the middle of an extent takes two writes; a crash or a
  full disk between them loses entries (`split` and `lost` in `EntriesSurvive`).
* remove_node erases a node last. A crash before leaves it in a free block, and
  when insert_blocks takes that block for a further node, a crash before the
  block is reset makes the old extents part of the chain (`stale`, `lost`).
* A handle names a block and outlives its file: it reads and writes the file, or
  changes the directory, that has the block next (`stray`).
* Blocks of removed and truncated files are not freed. A read past the last
  block after a truncate panics the daemon. seek always gives 0, because min and
  max are exchanged, and F_SETFL drops the access mode. O_CREAT with several
  missing parts makes the last one in the deepest directory there is.

**Network**

* tcpd and udpd count a port up on close too, so ports are never free again.
* tcpd has no retransmission: segments that cross are ignored by both ends, and
  a simultaneous close stays in FinWait1. A dup with a remote address does not
  count its SYN. Only one waiting writer is served per segment; closing a handle
  leaves its readers unanswered; what does not fit a reader's buffer is lost. A
  write of a waiting thread that fails is answered with the error, but an answer
  of tcpd itself that cannot be written to `ip:6` ends the daemon.
* tcpd takes writes of up to 65506 bytes, but a segment of more than 65495 has a
  length that wraps, and `ipd` refuses it with EINVAL (`too_long`). dup of a udp
  socket copies its queue, also for another remote address (`old`).
* `Ipd::write` tries to parse what it sends as a TCP segment whatever the protocol
  is, and puts a checksum into it: a UDP datagram that parses as a segment has the
  ninth and tenth byte of its data overwritten (the exception of `PacketExact`).
* irc: `/back` from channel 0 wraps by 2^64; `/next` and `/back` without a
  channel panic with the lock held; a list for a channel already left panics; a
  channel joined twice has two entries, of which one gets messages.
* dhcpd takes any datagram for the offer or the acknowledgement, so that two
  hosts that start together may take one address; it configures before the
  acknowledgement and does not retry. `setcfg` truncates the file first, so that
  one that fails leaves it empty or full of NULs (`spoiled`).

**Desktop**

* A read of the master cuts a packet longer than its buffer. A line begun before
  raw mode is sent after later raw bytes. Keys before a quit in the same batch
  are not sent, and a quit seen by the first handle_event is ignored.
* orbital sends no focus events on open and close; a window that opens during a
  drag is the one that moves; a click on the right or bottom edge counts as
  inside. A read that is put off is kept with its result, 0, in place of its
  number, so that event_loop answers it with ENOSYS at the next event of the
  display, and not with the event (`retry`).

**Programs**

* tar: a long path whose length is a multiple of 512 has no NUL, and the reader
  takes the member's header for it; `tar c` that fails at a long path leaves its
  name without a member; empty directories are not archived; modes of extracted
  files come from a decimal 644; a file whose size changes while it is copied
  misaligns the archive.
* coreutils: head and tail without -n print nothing, and -c fails, though their
  manual says otherwise; `cut` with "2-,5" drops 3 and 4, panics at 0 and selects
  nothing for "0-2"; `cat -s` alone drops newlines; `rm --dir` is not honoured
  and `rm -i` panics at the end of its input; `cp a a` empties the file and
  `mv a a`, a copy and an unlink, loses it; tee leaves the old tail of a longer
  file and drops what a short write leaves; dd stops at a short read.
* ion: a word right before `|`, `<` or `>` is dropped, and so is the character
  after `>`, and a command that has nothing else (`a>b`) ends the shell; `if`
  compares unexpanded strings; the `end` of an inner block ends the outer one's
  collecting; a directory stack of size 0 is empty; `&` is a pipe; a parent waits
  for the first job with the read end of the pipe open.
* smith: PageDown may put the cursor behind the last character; undo and redo do
  not move the view, which then may lie behind the text, and drawing it panics; so
  do copying and pasting without a clipboard; a failing save leaves the file cut.
* calc: what follows a closing parenthesis is ignored ("2(3)" is 2), -2^2 is 4,
  and `-(2)` is an error.

## Abstractions and what is not modelled

* Memory contents are kept only where a property tells them apart (frames of
  `Paging`, blocks of `RedoxFS`). ELF images, formats of messages (but for the
  headers of a packet), pixels, fonts and escape sequences are left out. Numbers
  of the calculators are fractions instead of f64.
* More than one CPU is not modelled, because the code halts the others; nor are
  speculative fills of the translation buffer.
* Boot, exceptions, ACPI, timers and the assembly run once or hold no state that
  changes. System call dispatch, validation, the kernel heap, `null:`, `zero:`
  and the wrappers of ports and DMA are tables and thin layers. `debug:` is a
  `WaitQueue` with one producer.
* chdir, chmod, unlink and other calls that only pass their arguments to a
  scheme, iopl and virttophys are left out of the kernel modules; the TLS region
  is treated by clone as the stack is, and is left out of `Paging`.
* `trigger` of the event registry is not composed with the queues it feeds;
  ptyd's events to slaves have no reader in the repository.
* Owners and times of redoxfs; `/msg` and lines
  cut across reads in irc; history, completion, globbing and `read` in ion; mv
  and cp of directories; links, owners and times in tar.
* goblin, docgen, libstd, the bootloader and the build are tools or copies of
  other projects; pcid, randd, contain and the other programs read, print or
  draw in sequence. `PROJECT.json` lists each part with the reason.
