# Boruix kernel: verification project

This directory holds TLA+ models of the Boruix kernel, the TLC configurations that
model-check them on small instances, and TLAPS proofs of the most important invariants for
every value of the constants. Every definition is translated from the Rust source under
`src/`; `PROJECT.json` maps definitions to source lines, and lists components, runs,
mutants, findings, hazards and theorems.

    tlc -workers 2 -config MCDrivers.cfg MCDrivers      # one run; its name is in PROJECT.json
    tlapm DriversProofs.tla                             # the proofs of one module

## 1. The system

The kernel runs on several processors, but only the bootstrap processor (BSP) executes
tasks: application processors start, load the boot page table and halt, serving interrupts.
A system call runs to its end on the BSP with interrupts off, except where it sleeps or, in
`sys_read` of the keyboard, enables them. So the concurrency that matters is

- the task on the CPU against the keyboard and timer interrupts (scheduler, keyboard);
- the BSP's thread and timer against the interrupt handlers of the other processors
  (TLB shootdown);
- drivers against devices that act on their own (network card, disk);
- a command of the shell against a network that loses, delays, repeats and reorders;
- a file system against power failures between two disk writes.

Everything else is sequential code whose difficulty is in long sequences of legal calls:
the frame allocator, the tree of memory areas, address spaces, descriptor tables, the
virtual file system, the terminal. The kernel is built with `cargo build --release`, so
integers wrap on overflow.

## 2. Modules

| Part of the source | Modules | State and steps |
|---|---|---|
| `kernel_task`: `task/scheduler.rs`, `task/runqueue.rs`, `task/switch.rs`, `task/preempt.rs`, `waitqueue.rs`; `kernel_syscall/syscall/process.rs` | `Scheduler` | run queue with stride passes, ready count, status and kernel position of each task, wait queue of the keyboard, preemption flag. One action per system call and per point at which interrupts may come; `KeyIrq`, `TimerIrq`, idle loop |
| `kernel_task/fd.rs` | `FdTable`, `MCStores` | tables, close-on-exec flags, hand-kept reference counts; open, close, dup, dup2, fork, exec, exit, kill |
| `mm/frame_allocator` | `Frames` (what it promises), `FrameAllocator`, `MCStores` | buddy lists by order and shard, page metadata, per-CPU cache, reserve, untouched regions; allocate, free, migrate, compact |
| `mm/memory_set/vma_tree.rs` | `Areas` (the set of areas), `VmaTree`, `MCStores` | the treap node by node, against the set it stands for |
| `mm/mapper.rs`, `rmap.rs`, `memory_set/address_space.rs` | `AddressSpace`, `MCAddressSpace` | four levels of tables with entry counts, reverse map, areas, heap and stack; from_elf, fork, drop, faults, sbrk, migration |
| `kernel_task/smp.rs` | `Shootdown` | deferred slot, sends of thread and timer, pending bits, sequence and acknowledgements; one atomic access per step |
| `kernel_driver_hub/driver_hub/keyboard.rs`, `sys_read` | `Keyboard` | ring, controller, interrupt, polling, decoder; one access per step |
| `kernel_fs/fs/fatfs.rs` | `FatFs`, `MCFatFs` | disk image by clusters and entries, nodes and handles in memory; each call is the sequence of its disk writes, which a power failure may cut |
| `kernel_fs/vfs`, tmpfs, devtmpfs, initramfs | `Vfs`, `MCVfs` | nodes, boxed handles, open files; lookup with links, mount, umount, delete, rename |
| `flanterm_rust`, `driver_hub/terminal.rs` | `FbConsole`, `Flanterm`, `Terminal`, `Display` (what it promises), `MCTerminal` | grid, queue, cursor, pixels by cell; one step per byte |
| `kernel_driver_hub` | `Pci`, `DriverHub`, `E1000`, `BlockDevices`, composed in `Drivers`, `MCDrivers` | boot stages, device list, rings of the card, disk calls attempt by attempt; `recv` is two steps, between which the card may act |
| `user/net.rs`, `shell/commands`; `driver_hub/cmos.rs` | `NetCodec`, `NetTools`, `Rtc`, `MCNetTools` | one command at a time, the card's receive ring, frames under way, servers |
| | `SequenceFacts`, `*Proofs` | lemmas and theorems (section 5) |

The MC modules define constants: memory maps, machines, archives, requests, sets of bytes;
`MCNetTools` also states what the conversions and the clock are compared with. `MCStores`
checks three components that share no state in one run: a variable says which of them a
behaviour is about, and the other two stay as they began. Paths in the table leave out the
`src/` inside each crate. Two refinements are checked: `FrameAllocator` implements `Frames`
(`ImplementsFrames`), and the terminal implements `Display` (`ShowsWhatWasDrawn`): a byte
changes nothing that is seen, a flush shows everything.

Abstractions shared by several modules: a page, packet or sector holds a few values;
names, addresses and keys come from small sets; text put together for output is left out.
Ghost variables (`leaked`, `stale`, `nested`, `accepted`, `wire`, `stored`, `taken`,
`typed`, `mem.lost` and `mem.left` in AddressSpace, `seen` in NetTools and the like) record history for the properties; guards read them only for the
bounds.

Some models mark a state after which the source's behaviour is undefined or meaningless
(`pmm.fault`, `mem.wild`, `ub` in Vfs, `Abandoned` disk calls, `torn` and `alias` in
FatFs) and explore no further; section 6 lists what leads there.

## 3. The runs

Each run is a distinct question; the constants are in its `.cfg`.

| Run | Properties | What it shows |
|---|---|---|
| `scheduler` | QueuesAgree, NoTaskLost, InputCovered, ExitsAreFinal, AllComeToRest | Run queue, wait queue and CPU agree; no living task is forgotten; input never lies behind sleeping readers only; an exit is final; everybody comes to rest, unless a task exits under a waiting parent |
| `stores` | TablesExact, FramesKept, ListsKept, ImplementsFrames, AreasKept, AreasAgree | Reference counts equal references (plus failed dups) and flags belong to open descriptors; each frame in exactly one place, lists, metadata and coalescing agree, allocation fails only when full; treap, order and merging kept under every ranking, each lookup gives what the set of areas says |
| `address_space` | FramesAccounted, PagesAccounted, HeapAndStackKept, DataFollowsPage | No frame serves two pages and none is lost but in the named ways; areas and reverse map know every page but those a failed growth left; what a task reads changes only by its own writes |
| `shootdown` | PendingBitServed, QuietMeansFlushed, EveryChangeFlushed | No pending bit orphaned; quiet means flushed; every change is flushed |
| `keyboard` | DecoderAgrees, InputIsRead | What is read is what was typed, with its modifiers; no key sticks; all input is read |
| `fatfs` | ChainsKept, TreeAgrees, ReadsBack, LeaksExplained | Chains whole and disjoint after any cut; memory agrees with disk; files read back; a call that succeeds loses only clusters a long name had hidden |
| `terminal` | ScreenKept, ParserKept, ShowsWhatWasDrawn, MarginsRespected | Queue and pixels in step; parser in bounds and colours tracked; refinement of `Display`; scroll region kept |
| `vfs` | FilesKept, LostOnlyByMount | Tree shape, one live box per node of its own file system, contents kept, no box lost otherwise |
| `drivers` | DevicesBound, TransmitsInOrder, ReceivedInOrder, TransfersExact, DriversProgress | Functions bound once; rings keep order and content; disk transfers exact; calls return and packets leave |
| `network` | StreamInOrder, AnswersMatch, ConversionsAgree, ClockAgrees, CommandsEnd | Stream printed in order and once; answers belong to questions; conversions against references; commands end, unless unrelated frames never cease |
| `scheduler_wake` | ParentWakes (violated) | A parent in waitpid does not run again when its child has exited |
| `address_space_tables` | TablesFreed (violated) | The page tables of a dropped space are not given back |

**Bounds, and why they are enough.**

- `scheduler`: three tasks (the first, a child, and a sibling or grandchild), four
  system calls, two scancodes, a ring of two usable places. This reaches a full ring, a
  wake-up between registration and switch, exit under a waiting parent, and a kill of the
  first task while it is queued, sleeping or waiting. A kill that has to wake two readers needs five calls; the
  proof of InputCovered covers it.
- `stores`, descriptors: descriptor 2 lies beyond the allocation limit, so dup2 grows a table that
  alloc_fd may no longer extend; one failed dup per handle. Handles are symmetric.
- `stores`, frames: seven frames in two regions with a hole, the second unaligned; orders
  0 and 1 are asked for, merging reaches order 2. No limit on calls: the space is finite.
- `stores`, areas: all trees over five addresses with two kinds of flags and all rankings.
- `address_space`: two tasks, 17 frames (fewer than both need), five calls.
- `shootdown`: two application processors, two changes, three ticks (the deadline is two).
- `keyboard`: five keys (letter, symbol, shift, control with prefix, caps lock), three
  events, a ring of two usable bytes, so that it overflows.
- `fatfs`: four clusters of three entries or bytes, four calls, one power failure.
- `terminal`: five kinds of writes, up to four of them, on screens of two to six cells, and
  text on turned, zoomed and refused framebuffers; `ValueLimit` stands for
  2^32, so that a parameter wraps after fewer digits.
- `vfs`: four calls after one of two archives, one open file, one new name. `Budget` is the
  code's own limit on the links one lookup follows.
- `drivers`: 3889 machines with up to a few PCI functions, lists that overflow, a ring of
  three descriptors and five packets (so it wraps and can wedge), two disk calls.
- `network`: two commands, two faults (a frame lost, repeated or delayed, a send that fails,
  a reading of the clock that fails, a server that gives up), sequence numbers modulo 16 with
  initial numbers near the wrap, every timeout one or two ticks. Unrelated frames are not
  faults and may arrive for ever, one in the ring at a time; `MaxNoisyFaults` is how many
  faults may have happened when such a frame arrives, here none: what goes wrong may follow
  the noise, and the two do not multiply.

Deadlock is checked in `scheduler` and `shootdown`. The others may stop: calls are bounded, users stop typing.

**Fairness.**

- `scheduler`: `WF(CpuStep)` only: the CPU keeps executing. Nothing obliges the keyboard
  or the timer to interrupt.
- `shootdown`: weak fairness of the timer, of each send and of each application
  processor, whose only loop is `hlt` with interrupts enabled; strong fairness of the
  request, since the thread is disabled while the timer's handler runs and continues
  whenever it returns. No fairness for timeouts.
- `keyboard`: a requested interrupt is served, a runnable reader runs, the shell reads
  again.
- `drivers`: the driver's polling loop runs; the card sends what it is given. Disks get
  none: `CallsReturn` must hold for a drive that hangs.
- `network`: the running command, the clock and delivery go on; the network may lose what
  it delivers, within the fault bound. Noise has no fairness and no bound.

Each property of a passing run has a mutant in `PROJECT.json`: a plausible bug in a
mapped definition for which TLC finds the property violated.

## 4. Reading the properties

Most properties are conjunctions named for one question (`QueuesAgree`, `ParserKept`, ...);
the conjuncts, each with its comment, precede them in the module. Conditions in a property
say where the source itself stops promising something, for example

- `NoTaskLost` excepts the parent of a task that spins in its exit (`StuckOn`);
- `QuietMeansFlushed` and `EveryChangeFlushed` hold while no wait timed out and no send
  interrupted another (`Calm`);
- `DecoderAgrees` holds while `upset` is empty: no byte dropped by a full ring, none thrown
  away by Ctrl+R, no interrupt inside a poll;
- `AllComeToRest` is about the runs in which no task spins in its exit; the others violate
  `ParentWakes`;
- `PagesAccounted` excepts the pages that a push or load left mapped when frames ran out or
  its area was refused (`mem.left`), and nothing that another failure leaves; `DataFollowsPage`
  holds until such a page's space is dropped and its entry in the reverse map remains;
- `FramesAccounted` excepts page tables (`TablesFreed`), frames that could not be mapped and
  are given up (`mem.lost`), and the frames of pages left as above;
- `LeaksExplained` lets a call that succeeds lose the clusters that were hidden before it, and
  shows that nothing is hidden without long names;
- `AnswersMatch` lets two queries of one second take each other's answer, and a ping the reply
  to an earlier one that was still under way;
- `ClockAgrees` takes the morning hour as the reading of a clock of 12 hours;
- `CommandsEnd` demands that every command ends unless unrelated frames never cease, and that
  the wait for a SYN-ACK, ping and netdump end even then;
- `TransfersExact` excepts sectors whose last wait timed out (`call.lost`);
- `DriversProgress` and `TransmitsInOrder` name a wedged transmit ring.

Section 6 says what happens in those cases.

## 5. What is proved

TLAPS checks every obligation. The theorems hold for every value of the constants that
satisfies the named ASSUMEs of the modules (numbers are naturals, rings have at least two
places, `Boot # User` and the like); they do not depend on the bounds of the runs. Each
inductive invariant was model-checked before it was proved.

| Module | Theorems | Property of the run |
|---|---|---|
| `SchedulerProofs` | QueuesAlwaysAgree, NoTaskIsLost | QueuesAgree, NoTaskLost |
| `SchedulerStepProofs` | ExitsAlwaysFinal, InputAlwaysCovered | ExitsAreFinal, InputCovered |
| `FdTableProofs` | TablesAlwaysExact | TablesExact |
| `ShootdownProofs` | BitAlwaysServed, QuietAlwaysFlushed | PendingBitServed, QuietMeansFlushed |
| `KeyboardProofs` | DecoderAlwaysAgrees | DecoderAgrees |
| `DriversProofs` | AlwaysTransmitsInOrder, AlwaysReceivedInOrder, DriversTransferExactly | TransmitsInOrder, ReceivedInOrder, TransfersExact |
| `TransferProofs` | TransfersAlwaysExact (of the block devices by themselves) | TransfersExact |

`SequenceFacts` holds lemmas about appending to, removing from and joining sequences
without repetitions, which stand for the run queue and the wait queue.

**Scheduler.** QueuesAgree is not inductive: that a woken task is not queued twice depends
on where every other context stands. `IInv` adds, for each task, what being queued,
registered, picked, blocking, exited or unborn means (`Place`), where a living task can be
found (`Kept`), that exactly one context is on the CPU (`Contexts`), and that the queues
repeat nobody. The proof has one lemma per action. `ExitsAreFinal` is an action property
proved step by step from `IInv`. `InputCovered` (while a reader sleeps, at least as many
readers are awake as scancodes lie in the ring) needs `InputInv`: without interrupts
nobody sleeps or is about to; a poll finds no sleepers, since it pushes without waking;
and a registered waiter has not exited, so that waking it makes it count.

**Descriptor tables.** The reference count of a handle is compared with the cardinality of
the set of table entries that refer to it. `StoreCount` says how that number changes with
one store, `RowCount` how it splits over a table; close, fork and exec follow from these.
`NothingBeyondEnd` is part of the invariant: the table of a task that does not exist yet is
empty, so that fork overwrites no reference.

**Shootdown.** `Cover`: while a processor is stale, a send for the boot table is under way,
or it is deferred, or the request has yet to store it. `Handshake`: while calm, at most one
send is under way, and every processor it waits for goes from marked through interrupt
requested, flushed, bit cleared and sequence loaded to acknowledged. A processor can only
be skipped for a bit that is set, which under `Handshake` no send ever finds.

**Keyboard.** `DecodesAhead`: running the decoder over the bytes in the ring, the byte in
the reader's hand and the bytes at the controller leads to the state of the keyboard
itself: its modifiers, and the text typed. A step of anybody only moves the border between
what was decoded and what was not. The byte last read from the port is idempotent for the
decoder at that point (`Feed(m, last) = m`), which is why a late interrupt that reads it
again does no harm. The run of the decoder is an existentially quantified sequence of
states, so that no induction over data is needed. Since `ReadsWhatIsTyped` follows only as
long as the reader's view of the ring is current, `Reading` is part of the invariant.

**Network card.** Packets are counted from one; packet k belongs to descriptor
(k - 1) % RingSize. Outstanding packets lie in the descriptors from Len(wire) to
Len(accepted) - 1 round the ring, each with its own bytes and padding, and all other
descriptors are done (`Transmits`); pieces stored and not taken lie likewise in the receive
ring, of which one descriptor is always kept back (`Receives`). Two counts that differ by
less than RingSize have different descriptors (`HomeFacts`, from `ModAdd`), so a step at
one end leaves the other alone. Between the two steps of `recv` the packet is taken and its
descriptor not yet given back, so that the tail is one further behind. The theorems are about
`Drivers!Spec`: boot, a second card that replaces the first, and the disks included.

**Disks.** `TransferInv` follows a call byte by byte without counting sectors: the next byte
of the request is byte `off` of sector `lba` (`OnCourse`), the bytes before it are done
(`Exact`), every byte of the disk is what it was or what the call writes there (`Allowed`),
and the buffer under way holds what the sector held with the bytes of the request in their
place (`Working`). Division by the sector size enters through two facts about `At(l, i)`: it
is unique and monotone. The drive may fail, hang or vanish between any two steps.
`DriversTransferExactly` carries the result over to the whole of `Drivers`, none of whose
other steps touches a disk.

**Only model-checked, and why.**

- Liveness (AllComeToRest, EveryChangeFlushed, InputIsRead, DriversProgress, CommandsEnd):
  fairness and ENABLED are out of the prover's reach.
- `FrameAllocator`, `VmaTree`, `Vfs`, `FatFs`, the terminal, `NetCodec`: their algorithms
  recurse or fold over data (merging buddies, descending a tree, walking chains and paths,
  parsing), and what a recursion computes for all inputs needs induction over data. This
  includes the refinements ImplementsFrames and ShowsWhatWasDrawn.
- `AddressSpace`: its calls fold over the pages of a range.
- `DriverHub`, `NetTools`: not attempted; DevicesBound, StreamInOrder and AnswersMatch are
  checked on the instances above.

## 6. Findings and observations about the code

Two comments of the source say what the code does not do; each has a run that TLC finds
violated.

- `scheduler_wake`: `exit_current_and_run_next` says "Wake up parent if waiting" and "Add to
  ready queue" (`scheduler.rs:119`, `:127`). It holds the status lock of the parent when it
  calls `enqueue_ready`, which takes it again: a child that exits under a parent blocked in
  waitpid spins for ever (`spin`), and `ParentWakes` fails.
- `address_space_tables`: `MemorySet::drop` says "Unmap all user areas; unmap_page now cleans
  up empty page tables." (`address_space.rs:444`). `get_next_table_by_index` counts a new
  table as an entry of itself, since its `table` shadows the parent's, so that no table ever
  becomes empty, and `TablesFreed` fails after an exec.

The rest was met while modelling; no document or test of the repository states it to be
otherwise, so these are conditions of the properties rather than findings.

**Scheduler and tasks.** Forked tasks are missing from `ALL_TASKS`, so `kill` finds only
the first task. Work stealing and `preempt_from_interrupt` are dead
code in this configuration.

**Memory.** `free_and_merge` follows the metadata of a buddy that may lie in a hole and has
none (`pmm.fault`). A push or a load that runs out of frames half-way leaves the pages it has
mapped outside every area (`mem.left`); the drop of the space does not find them, their frames
stay allocated and their entries in the reverse map lead migration into a space that is gone
(`mem.wild`). A frame that cannot be mapped because a page table is missing is given up
(`mem.lost`). Forks and faults that fail otherwise leave nothing behind. Shrinking the heap keeps its area; growing it again maps the pages
and then fails to insert an area over the old one, with the same result. The kernel heap's `grow_heap` has no lock, and after a
partial failure its pages stay mapped, so that later growth fails for good (not modelled).

**Shootdown.** After a timeout, or when the timer's send interrupts the thread's, a handler
may stand between its flush and its clearing of the bit while the next shootdown skips the
processor.

**Keyboard.** Polling and the interrupt are two producers on a ring for one: an interrupt
inside a poll overwrites or reorders a byte. The two shift keys share one flag: releasing
one while the other is held turns shift off.

**FAT32.** A rename cut by a power failure leaves two entries on one chain (`torn`).
Opening a name in another case makes a second node for one file (`alias`). A long name that
needs more slots than its cluster has left goes to a new cluster, hidden behind the end
mark: its directory is then taken for empty, and deleting it loses the clusters (`Hidden`). Deletion leaves the long-name entry live. A failed create leaves a node without a
handle. Names of more than 13 characters come back with their parts reversed after a
remount (not modelled). `find_free_dir_entry` is unused.

**Virtual file system.** `vfs_symlink(target, link_path)` is called by initramfs with its
arguments exchanged. Loops of links recurse for ever. `vfs_rename` has no check for a
sibling of that name. Files can get children, and removing such a file loses the boxes
below. `vfs_delete` uses the parent's file system and the unmount of tmpfs walks into other
file systems' nodes, so a handle may reach code of another type (`ub`). A mount over a node
forgets its box.

**Terminal.** CAN or SUB after `ESC [ ?` leaves `dec_private` set. A parameter of 429496729
followed by 6 to 9 wraps. `ESC 8` without `ESC 7` sets colours 0/0 and wrapping off. 38 and
48 in reverse video, and 1, 5, 22, 25 on a default colour in reverse video, track the wrong
side (`ColoursFollow` leaves these out). `ESC c` resets the saved colour numbers and not
the saved colours. UTF-8 characters do not make room in insert mode.

**Drivers.** All descriptors of the transmit ring can be handed over; the tail then meets
the head, the card sees an empty ring and the driver a full one (`Wedged`). `recv` ignores
end-of-packet although long packets are enabled, so a long packet arrives as pieces. The
count of drivers grows past MAX_DRIVERS, and the listing call reports entries it has not
copied. A second network card replaces the first while both entries remain. A failed
attachment leaks its frames and leaves bus mastering on. Configuration writes of 16 bits
write status bits back. `init_vfs` makes a volume for every block entry, PCI entries
without operations included. The disk uses 28-bit commands while IDENTIFY may report more
sectors (`Addressable`); the last wait of a write does not look at the error bits
(`call.lost`); a call that gives up leaves the drive busy (`Abandoned`).

**Network tools and clock.** getnet sends its request again under the sequence number after
the request: a lost request is not repaired, a received one is followed by a second copy.
Any frame stops the resends. The acknowledgement number of a SYN-ACK is not compared, so
one of an earlier run with the same port is accepted. A DNS identifier is the second xor
the pid and the name is not compared: two queries in one second can take each other's
answer (`AnswerIsForName` allows exactly that). Every ping of the shell has the same identifier
and begins with number 0, so that a late reply to an earlier ping counts for the present one.
`resolve_arp`, `dns_query_cfg` and the response loop of getnet look at the clock only when no
frame is there (`net.rs:158-173`, `:328-365`, `getnet.rs:144-149`): a steady stream of unrelated
frames keeps them for ever, while `wait_tcp`, ping and netdump end. `sys_time_seconds` returns -1 while the clock
updates, and a wait that starts then ends at its first look. In 12-hour mode the PM
bit is masked off before it is tested (`cmos.rs:75-77`): an hour of the afternoon is read as
one of the morning.

## 7. Not modelled

Listed with reasons in `PROJECT.json`: the entry paths and descriptor tables (layout of
registers), page fault reports, system call dispatch, the kernel heap (a library's buddy
heaps and the growth mentioned above), pipes and sockets (unreachable: their nodes have
file system number 0), procfs and sysfs, ACPI and start-up code, framebuffer hand-over,
serial port and log, the user library and the shell's other commands. Within modelled
parts: huge pages and the kernel half of page tables, FAT boot sector and device errors,
names longer than 13 characters, channels of more than eight bits, raw Set 2 scancodes,
statistics, and text put together for output.

Code outside `src/` is modelled from how `src/` uses it and marked external in the map: the
network card, the disk, the CMOS clock, the servers and the network.
