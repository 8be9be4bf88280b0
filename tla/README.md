# A TLA+ verification of inaneos

inaneos is a small x86_64 operating system in C: a monolithic, single-processor
kernel without preemption, a frame allocator, one address space for one user
program at a time, a PS/2 keyboard, a text screen, files in RAM or on a FAT32
partition of an IDE disk, and a few user programs (shell, editor, calculator).
This directory models the parts that keep state, checks them with TLC on small
instances, and proves with TLAPS, for every size, that the allocator, launches, the keyboard,
the FAT volume, its paths, the RAM files, screen and prompt, the editor, the command `moon` and the device
drivers keep their safety properties and implement their abstract specifications. Paths below are relative to `src/`; `PROJECT.json` maps each definition
to the lines it models.

## 1. The system

| part | state | operations | who calls it |
|---|---|---|---|
| frame allocator, `kernel/pmm.c` | bitmap, `free_frames`, `cursor` | `pmm_init`, `pmm_reserve`, `pmm_alloc_frame`, `pmm_free_frame` | boot, `vmm.c`, `elf.c`, `exec.c` |
| page tables, `arch/x86_64/vmm.c` | PML4 down to page tables, 2 MB identity pages | `vmm_map`, `vmm_phys`, `vmm_unmap_range` | `elf.c`, `exec.c` |
| program launch, `kernel/exec.c`, `kernel/elf.c` | module table | `exec_init_mods`, `enter_program`, `elf_load` | boot, `SYS_RUN`, `SYS_EXIT` |
| system calls, `kernel/syscall.c` | argument buffers | `syscall_dispatch`, with interrupts off | user programs |
| keyboard, `drivers/keyboard` | ring, `e0`, `shift`, `caps` | `keyboard_handler` (IRQ 1), `getchar` | interrupt, `SYS_GETC` |
| FAT32, `kernel/fat.c` | geometry, `alloc_hint`, `cwd_path`, `cwd_clus`; on disk: FAT copies, clusters | `fat_mount`, `fat_read`, `fat_write`, `fat_list`, `fat_chdir` | `fs.c` |
| disk, `drivers/ide/ide.c` | `present`, `total`, device registers | `ide_init`, `ide_read`, `ide_write`, by polling | `fat.c`, `part.c` |
| partitions, `kernel/part.c` | table of four entries | `part_scan`, `part_get` | boot, `fs.c`, `fat.c` |
| file calls, `kernel/fs.c` | table of nodes, `cwd`, mount flag | `fs_mkdir`, `fs_chdir`, `fs_fwrite`, `fs_fread`, `fs_mount_part`, `fs_unmount` | system calls |
| text screen, `drivers/vga/vga.c` | 80 x 25 cells, row, column, pending wrap, colours | `term_putc`, `term_clear`, `term_goto`, the colour calls | kernel, system calls |
| editor, `user/keo.c` | lines, cursor, window, mode, `dirty` | one handler per mode, `load`, `do_save` | keys |
| shell, `user/shell.c` | line, history | line editing, commands | keys |
| calculator, `user/expr.c`, `user/calc.c` | line, position in the text | `expr_eval`, `put_dec` | keys |
| network, `drivers/nic`, `drivers/net` | descriptor rings, `tx_index`, `rx_index` | `e1000_init`, `e1000_send`, `e1000_receive`, by polling | boot |
| PCI, `drivers/pci`, `drivers/nic/nic.c` | configuration space of the devices | `find_nic`, `find_device`, `enable_bus_mastering` | boot |

**Interaction.** Everything is a direct call on one processor. The exception is
IRQ 1, which may run wherever interrupts are on: in a user program and in
`getchar`, the one place of the kernel that enables them. So the kernel is
atomic with respect to itself, and what is hard lies elsewhere:

- *Interleaving.* The interrupt handler against the machine-level steps of
  `getchar`, with `hlt` between the test and the wake-up; the disk and the
  network card, which work at their own speed while a driver polls them.
- *Crash.* A save is a dozen separate disk writes; the power may fail between
  any two.
- *Partial failure.* Out of memory in the middle of a launch, a disk error in
  the middle of a save, a mount that fails half way.
- *Stale views.* The kernel reaches every frame through an identity mapping
  that the page tables of a program replace piece by piece.
- *Boundaries.* The circular searches (frames, clusters, ring), full tables, a
  full line on the screen, unaligned memory-map entries, names that are cut.
- *Sequences.* Edits across three modes, `cd` and `mkdir` over relative paths,
  mount and unmount, modifiers held across other keys.

`PROJECT.json` lists these hazards one by one, at their line, with the
properties that cover them, and with a note where the code falls short or no
property covers it.

**What makes each part correct.** Allocator: a frame has one owner, reserved
memory is never handed out, no free frame is missed. Launch: a running program
has its own image whatever failed before, and nothing leaks. Keyboard: a bounded
FIFO of the characters that were typed, and a reader that is served. FAT: a save
is atomic, the volume stays sound, the call returns. RAM files: a tree, and a
path means what it says. Mount: the two flags and the geometry belong together.
Screen: it shows the tail of what was written, and drawing stays in its row.
Editor: no edit is lost silently, what is saved is what is loaded. Prompt: the
screen shows the line that Enter will run. Calculator: the value of the
expression. FAT paths: a path leads where it says, and a file is found where it
was saved. Disk driver: a call returns, with the right sector or an error.
Network driver: two bounded queues. Bus: what is found is there.

## 2. The modules

```
Pmm  <-EXTENDS-  Exec
KeyQueue  <-refined by-  Keyboard
FileStore <-refined by-  Fat
FileTree  <-refined by-  RamFs
KeyQueue  <-refined twice by-  E1000
Vga  <-EXTENDS-  Shell         Keo
FatPath, Moon, Calc, Shell  <-EXTENDS-  Commands
Ide, E1000, Pci  <-EXTENDS-  Devices
MCxxx: small instances for TLC
Numerals  <-EXTENDS-  Moon, Calc
MemoryProofs                         theorems about Pmm and Exec
KeyboardProofs, FatProofs, RamFsProofs, KeoProofs
ScreenProofs  <-EXTENDS-  CommandsProofs   about Vga and Shell, and about Commands
DevicesProofs                        about Ide, E1000 and Pci
```

**Pmm** — `kernel/pmm.c` with the order in which boot calls it. `bitmap` is the set of frames
whose bit is 1. `pmm_init` is one step per memory-map entry, then one for the
kernel image; `reserve_module` is the reservation of one boot module, skipping
those `exec_init_mods` rejects. `held` is a history variable: the frames
handed out and not freed since, by whomever. The only caller of `pmm_free_frame` frees what page table
entries of the user window hold, and these are frames the allocator gave out or, in
a split large page, the frames of the window itself (`vmm.c:114-115`). So the
argument is a frame in `held` or any frame from `USER_MIN` (`UserMin`)
up: reserved, not memory, free already or past the cap. That
launches keep to this is not assumed: `BooksInductive` proves it of Exec.
A memory map's available entries do not overlap.

**Exec** — composes Pmm with the page tables and `enter_program`, down to single
allocations. A large page is `Region` frames; `split` says which are page
tables now; `pte` maps pages to frames; `mem` remembers what was last written to
each frame. The kernel writes to frame *f* through the identity page *f*. Once
the large page of *f* is split for a program, that page may map elsewhere
(`stray_access`) or nowhere (`page_fault`); both are actions of the model. The
history variable `high` says whether a frame of the user window, from
`USER_MIN` (4 MB) up, was ever handed out. `ImageIntact`, `TablesSafe` and the ownership part of
`NoFrameLeak` speak of the time before that; the run `exec_shadow` shows what happens after it.
Little memory only delays it: `vmm_unmap_range` frees the identity
entries of a split page, memory or not, and the next-fit cursor comes to those
frames some launches later. `leaked`
records the frames a failed launch forgets: one stack frame when the other
cannot be had, and a frame that could not be mapped. The model knows these and
`NoFrameLeak` says there are no others. `ExecAssumption` asks that segments
share no page, as the linker scripts of `user/` arrange; `elf_load` does not check it.

**Keyboard / KeyQueue** — the decoder, the ring, and `getchar` as the steps
test, hlt, load, store, return, between which the handler may run. `InterruptsOn`
is false inside other system calls (`sys_other`). The keyboard is external: keys go
down and up and queue scancodes, each with the character that was meant. KeyQueue
is the abstract bounded FIFO.

**Fat / FileStore** — `fat_write` with everything it calls; a step is one disk
write with the reads before it. `fat_set` writes the copies one by one. A disk
access may fail, and the power may fail between any two writes, after which
only the disk remains (`MaxFailures` bounds both together). FileStore is the
atomic file store. Three kinds of disk error are in a specification of their
own, `ErrorSpec`: a read error that `lookup` takes for "no such file", one
that `dir_slot` takes for the end of the directory, and a write of the entry
that is reported as failed after it took effect. Each refutes what the
documentation says (section 4); the passing run leaves them out.

**RamFs / FileTree** — the calls of `fs.c` on the RAM tree, and mounting. A path
is a sequence of components; `next_part` cuts a name of 32 characters or more, so one name
`LongName` stands for those, with `LongHead` and `LongRest` its two pieces. On a
mounted volume a call goes to `fat.c`, and only its possible results
matter here. FileTree is the tree of absolute paths.

**Keo** — a key is a step: the handler of the mode and then `draw`, of which
the model keeps `clamp`. The text of a command is typed in one step.

**Vga** — `term_putc` is `Land` (a pending wrap), `Put` (what the character
does) and `Scrolled`. `out` and `drawing` are history variables: the text since
the last clear, and the room left in the row `term_goto` went to.

**Shell** — `user_main` and `hist_push` of `user/shell.c` on the screen of Vga.
What the shell writes goes into `pending` and from there through `term_putc`,
so that every backspace, wrap and scroll takes place as in `vga.c`. A command
is one step that writes something, clears the screen or runs a program, after
which the shell is loaded anew and its history is empty. `home`, `fits` and
`entered` are history variables.

**FatPath** — the path side of `fat.c`: `abspath`, `walk`, `to83`, `fat_chdir`,
`fat_list`, and how `fat_read` and `fat_write` find their file, with the copy
of the path that the system calls make. A string is a sequence of slashes and
components; clusters are left to Fat. `overrun` records that `abspath` has
written behind its buffer: `cd .` adds a slash to the working directory each
time, up to `PATH_MAX`. What follows depends on the stack and is not followed.

**Moon** — the command `moon` from the characters typed to the partition:
`parse_idx` on longs that wrap, the int `SYS_MOUNT` makes of them, and the list
that `SYS_PARTLIST` puts together with the emit helpers, whose position of -1
means "full" to all of them but `emit_hex`.

**Calc** — the recursive descent of `user/expr.c` with its error flag, on
longs of `2 * Half` values; the divide exception is an outcome (`Trap`). The functions call each
other only after a character has been read, so `Parser` defines what they do with *n*
characters left from what they do with fewer. Beside it
stands the reference: `Phrases` builds all texts of the grammar up to a
length with their exact values, those of *n* characters from the shorter ones
(`Grammar`, with `Factors` for a number, a sign, a bracket and a gap, and `Joint` for two
phrases with an operator between them).

**Numerals** — the digits of a number, as `emit_dec` and `put_dec` write them, and
the number that digits stand for, whatever its size.

**Commands** — a session of file commands, of `moon`, of the calculator or of
the prompt itself. The user is in one program at a time and these share no
state that RamFs and Exec do not already model, so the sessions are alternatives.

**Ide** — `ide.c` poll by poll (`t` is the timeout that `wait_clear` and
`wait_set` count down) against an external disk that is busy as long as it likes,
reports errors, and ignores a command while it is busy or has data to
transfer, as the disk of the Makefile's qemu does. `kept` and `upset` are
history variables: what the calls so far allow a sector to hold, and that a
call has left the disk in the middle of a command.

**E1000** — `e1000_send` and `e1000_receive`, one step per access that the card
can see, and the card's own steps in between. Each ring implements KeyQueue,
the bounded FIFO of the keyboard. `kernel_main` sends one packet and polls
once; the model lets a caller do so any number of times, as the interface does.
Left out is that `e1000_receive` cuts a packet longer than the caller's buffer
(`e1000.c:209-211`): the only caller passes 2048 bytes (`kernel.c:116`), the size of the card's buffers.

**Pci** — configuration space, with status bits that are cleared by
writing 1 to them, the two searches, and bus mastering.

**Devices** — the disk, the card and the bus. The kernel is in one driver at a
time and they share no state, so these too are alternatives.

## 3. The passing runs

| run | instance | what it shows |
|---|---|---|
| `pmm` | 12 frames of 4 bytes, the window from frame 9, four memory maps, five modules, one of them in the window | `FreeCountExact`, `Accounting` (no frame lost, none handed out twice before it is freed, no reserved one below the window), `SafeBytes` (at the end of boot no byte of a frame that may be handed out is low memory, kernel, module or no memory; below the window never), `ZeroMeansFull` |
| `exec` | 20 frames, large pages of 2, window from 16, 4 programs, 8 memory maps | `ImageIntact`, `TablesSafe`, `NoFrameLeak` (with `Accounting` of Pmm, under the frees that launches make), `LaunchEnds` |
| `keyboard` | typing on six keys with 3 bytes in flight and a full ring; reading from a ring of 4 with two keys | `DecodesWhatWasMeant`, `ImplementsKeyQueue`, `ServedWhileTyping` |
| `fat` | 5 clusters and one past the end of the disk, 2 FAT copies, 2 files, one power loss or disk error | `ImplementsFileStore`, `ChainsSound`, `NoLeak`, `CopiesAgree`, `GivesUpOnlyWhenFull`, `CallsReturn` |
| `ram` | 3 nodes, paths of 2 components, two disks of four partitions, good, odd and unreadable | `ImplementsFileTree`, `CwdLeadsBack`, `AcceptedLeads`, `MountAgrees`, `RamKept` |
| `keo` | 3 lines of 2 characters, window of 2 rows, file limit 6 bytes | `SaveLoadSame`, `ExitLosesNothing`, `TextKept` |
| `vga` | 3 rows of 2 columns, 8 characters of text followed | `ShowsTail`, `DrawnInPlace` |
| `commands` | all paths of up to 3 components in directories two deep, `PATH_MAX` 8; indices of 3 digits with 5-bit ints and 7-bit longs; texts of 5 characters in base 3 with 3-bit longs; a screen of 2 by 4, lines of 2 characters, a history of 2, outputs with and without a carriage return | `PathsLead`, `SavedIsRead`, `MoonTrue`, `CalcRight`, `LineShown`, `HistoryRight` |
| `devices` | a timeout of 2 polls, 2 sectors; rings of 3; 8 functions on 2 buses | `DiskAnswers`, `DiskCallsReturn`, `ImplementsQueues`, `HeadAdvances`, `FoundIsThere` |

The type invariants of Fat, Exec, RamFs, Keo and Keyboard are conjuncts of
`ChainsSound`, `ImageIntact`, `MountAgrees`, `SaveLoadSame` and
`ImplementsKeyQueue`. `fat` takes between two and three minutes on two cores, the others about one or less. Each passing run is backed by mutants: for every property a
plausible bug in the code that makes TLC find it violated.

**Why the bounds are enough.** The sizes are the smallest at which every
boundary is met, and each is met from several sides. The memory maps of `pmm`
hold an entry below, across and above each limit and entries that share a frame; 12
frames let the cursor go round. In `exec` the memory sizes 9 to 14 range from
a machine that cannot start init to one where nothing fails, so every single
allocation of a launch fails in some behaviour. The FAT volume fills up, its
directory grows by a cluster, its hint wraps, and files are empty, of one and of two
clusters. Three nodes hold a directory in a directory, a name that occurs twice, and a
full table. A ring of 4 holds 3
characters: empty, partly full, full and wrapped all occur. The screen of 3 rows
scrolls by more than its height. The editor has a full line, a full buffer, a
file at the limit, and a window smaller than the text. The paths of `commands` hold every
combination of names, empty components, "." and "..", and the working directory
grows until `abspath` overruns its buffer; the digits of an index reach past
the int and past the long; texts of five characters hold every nesting of two
operators, and 3-bit longs overflow in most of them. Lines of the prompt stay in
the row, fill it and scroll. With a timeout of two polls a disk is in time, just
late and much too late at every wait; rings of three wrap, fill and wedge. What is bounded
artificially: bytes queued in the keyboard controller (`LineMax`), disk errors
and power losses (one in a behaviour; a second one would begin from a state the
first one can leave behind, and `ChainsSound` covers those), path length
(`Depth`), and the text `ShowsTail` follows (`MaxOut`).

`fat_max()` counts the entries of the FAT, so the code hands out clusters past
the end of a disk that is shorter than its FAT. `DataEnd` says where the disk
ends; the save that gets such a cluster fails (`GivesUpOnlyWhenFull` allows
for it), and one that `dir_slot` took stays allocated (`NoLeak` is about the
clusters of the disk). `NoLeak` and `CopiesAgree` are about calls that no disk
error and no power loss interrupted: the code has no repair, `free_chain`
ignores a failed `fat_set`, and a lost cluster after a crash is the price of
writing the data first. `AcceptedLeads` excludes names of 32 characters and
more: such a file is created under its first 31 characters and looked up in two
pieces, so it cannot be read back under its name.

`PathsLead` is about paths that do not climb above the working directory:
relative to `/a`, `abspath` makes `/a` of `..`, because it puts a slash behind
the working directory first and `..` takes only that away, so that `cd ..`
leaves no directory. `SavedIsRead` leaves out names that end in a dot.
`MoonTrue` is about indices below 2^31 and lists that fit. `CalcRight` is about
expressions all of whose parts are longs. `LineShown` is about lines that stay
short of the end of the row: at the end a backspace only settles the pending
wrap. `DiskAnswers` ends with the first call that gives up on a busy disk,
after which the next call is given the sector of the one before, and with an
error in writing, which `ide_write` does not look for. `HeadAdvances` ends
when all descriptors are outstanding: the ring then looks empty to the card,
and the driver never gets a descriptor back. `FoundIsThere` says nothing of the
BARs that `find_nic` reads, which are not those of the card (`nic.c:31`). Each of
these cases is a state of the model, and is listed among the hazards.

**Deadlock** is checked everywhere except in the two `exec` runs, where
the machine really stops (`panic`, and a launch with nothing left to try), in
`commands` (the calculator may end in the divide exception, an overrun is not
followed, and the prompt ends at its bound) and in `devices` (nothing is left to do
once the bus has been searched).

**Fairness.** `Keyboard!FairSpec`: a byte in the controller raises its interrupt
while interrupts are on, and the processor goes on executing `getchar` and the
return from a system call. Nothing is assumed of the user or of programs;
`ServedWhileTyping` has "interrupts keep coming" as its premise because
`sti; hlt` is not atomic with the test, and without another interrupt the reader
may sleep with a character in the ring. `Fat!FairSpec`: the kernel runs a call to
its end, with no premise on the disk beyond the bounded number of errors.
`ExecFairSpec`: the processor goes on with a launch and with boot.
`DevicesSpec`: the processor goes on with the driver call it is in, and the card
with its transmit ring. The disk need never answer, and nobody need send,
poll or receive.

## 4. The runs that find a disagreement

Each states what a comment or the documentation says, and TLC finds a
behaviour of the code without it.

| run | property | what happens |
|---|---|---|
| `fat_errors` | `SavesTheFile` | `lookup` takes a disk error for a missing name: a second entry of the name is made, and the old content is read. Each of the other two errors of `ErrorSpec` alone violates the property too: the directory is cut in the middle, or the chain of an entry on the disk is freed and reused |
| `exec_shadow` | `JumpsOrFails` | frames above `USER_MIN` are reached through addresses a program has remapped or cleared. The instance has memory there; with less, the same comes of frames that `vmm_unmap_range` has freed through their identity entries |
| `ram_geometry` | `MountedGeometry` | a mount that fails leaves the mounted volume with the geometry of the other |

A smaller one, not run: `load` drops the last line of a file of exactly `MAXL`
lines, because its final newline starts no line (`SaveLoadSame` excludes the full buffer).

## 5. The proofs

Every theorem below holds for every value of the constants that the named
`ASSUME` of its module allows; TLC evaluates these assumptions on each run's
instance. Each proof has the same outline: an inductive invariant, a lemma per
action that shows it is preserved, and the property as a consequence. What
follows is, for each part, the invariant, why it is needed, and the argument.

**The frame allocator (`MemoryProofs`).** Assumed is `PmmAssumption`: sizes are positive,
the kernel image is below the cap, the user window does not begin at 0, and a memory map is a sequence of
entries whose available parts are disjoint. Nothing bounds the number or size of frames, the
maps or the modules. The properties are not inductive by themselves: that the
counter never goes below 0 or drifts needs to know, in the middle of `pmm_init`,
that the next entry's frames are all still marked used, which follows from what the
bitmap is at that moment and from disjointness. So the
invariant is

    IInv == TypeOK /\ FreeCountExact /\ BootShape /\ Accounting /\ ZeroMeansFull

where `BootShape` gives the bitmap exactly, phase by phase: while the map is read, the free
frames are those of the available entries seen so far; while modules are
reserved, they are those of the whole map less the kernel and the modules so
far. The counting rests on two lemmas,
`ClearCount` and `SetCount`, over finite sets; `ZeroMeansFull` on the
surjectivity of the circular probe; `PmmSafeBytes` on the arithmetic of rounding
(`EntryFramesInside`, `TouchedCovers`) and on what is free: all that is not reserved at
the end of boot (`BootShape`), and below the window nothing reserved ever after
(`Accounting`), whatever frames of the window are freed.

Theorems: `PmmInductive`, `PmmTypeCorrect`, `PmmFreeCountExact`, `PmmAccounting`,
`PmmZeroMeansFull`, `PmmSafeBytes`.

**Program launch (`MemoryProofs`).** `ExecAssumption`: a large page
has two frames or more, memory and the user window begin at a large page,
segments lie in the window and share no page, every module is registered. The
allocator's invariant carries boot; from then on, as long as no frame of the user
window was handed out (`~high`), `EInv` says who owns what. `Owned`: a page of the program is
mapped to an owned frame of its own, which is neither a page table nor leaked,
and every other page to the frame of its number or, in a split large page, to nothing. So the
kernel's writes through the identity map reach the frame they mean. `Progress`: the owned frames are exactly the page tables, the
mapped frames, the leaked ones and those the launch holds in its local variables
(`Pending`), and these are disjoint; what has been mapped so far is `Done`
and has been copied. `Pending` and `Done` follow the program counter, so that each error
path shows what it gives back and what it forgets.

`EInv` says nothing once `high` holds. The books of the allocator are right even then, for which
there is a second invariant, `BInv == IInv /\ PagesGiven /\ LaunchGiven`: an entry of
the window holds a frame that was handed out, a frame of the window or nothing, and the local
variables of a launch hold nothing else either. Hence `vmm_unmap_range` frees only what `pmm_free_frame` of
module Pmm may be asked to free, every other step is one of Pmm or leaves it alone, and what is
proved of Pmm holds of its real caller.
Theorems: `ExecInductive`, `ImageAlwaysIntact`, `TablesAlwaysSafe`, `NoFrameLeaks`,
`BooksInductive`, `LaunchesKeepBooks`.

**The keyboard (`KeyboardProofs`).** `KeyboardAssumption`: a ring of two slots or more
and keys of the layout. The refinement needs, besides the types, `Reading`:
between the test of `getchar` and its move of `tail` the ring is not empty and the character loaded is that of
the slot, whatever the handler did in between. `ContentsOf`
is the queue from tail to head modulo the size; `push` appends to it and
the move of `tail` takes its head off. For the decoder, `Following` says that the
bytes still in the controller, read from the decoder's present mode, give the
characters that were meant and end in the mode of the keys held down now
(`Reads`): each end of the queue of bytes can then move by itself.
Theorems: `KeyboardTypeCorrect`, `KeyboardImplementsKeyQueue`,
`KeyboardDecodesWhatWasMeant`.

**The FAT volume (`FatProofs`).** `FatAssumption`: a volume of at least three
clusters on the disk, at least one copy of the FAT, two entries in a cluster.
The invariant is

    FInv == Types /\ Vol(fat[1], data) /\ Here /\ Accounted /\ Result

`Vol` is what one FAT copy and the clusters must be: the directory's chain and the
chains of its entries end, have the length of their entry, share nothing, and the entries come
before the free ones. It holds at every disk write; that is crash safety. `Here` is what the call knows at each step: the
new chain holds what has been written and nothing refers to it (`NewChain`), a cluster
found by the search is not linked to anything (`Spare`), the entry is where it was found (`Target`);
within `fat_set` it is one thing before the first copy is written and another after it.
`Accounted` names the clusters taken and not yet in the directory, so that no error
path forgets one; `Mirrored` says how far the copies have come. A write to
a cluster outside `Reach` changes no file, and the write of the entry changes exactly one
(`Commits`): this makes the refinement of the atomic store. A chain is the
result of a recursive function; the proofs work with the path it takes
(its clusters differ and each links to the next) and with what linking one
cluster more, or freeing the first, does to it.
Theorems: `FatInductive`, `ChainsAlwaysSound`, `NoClusterLeaks`, `CopiesAlwaysAgree`,
`FatGivesUpOnlyWhenFull`, `FatImplementsFileStore`. They are about `Spec`, with power losses and the
disk errors of `faults`; `MaxFailures` is any number.

**RAM files and mounting (`RamFsProofs`).** `RamFsAssumption`: names differ from
".", ".." and the empty name, and the pieces of a cut name are names. Invariant:

    RInv == MountAgrees /\ Shape /\ Siblings /\ Home

`Shape`: nodes are taken in order and never given back, so a node's parent is a
used directory before it. Hence the climb to the root ends, the
recursion of `PathOf` exists, and nodes differ in their paths, as siblings differ in their
names (`PathsDiffer`). `CwdAlwaysLeadsBack` and `AcceptedPathsLead` walk a path down
component by component; `RamImplementsFileTree` shows that finding a child in the
table and finding a path in the tree are the same and that a node taken adds one path.
Theorems: `RamInductive`, `MountsAlwaysAgree`, `RamIsKept`, `CwdAlwaysLeadsBack`,
`AcceptedPathsLead`, `RamImplementsFileTree`.

**Screen and prompt (`ScreenProofs`).** `VgaAssumption`: rows and columns are positive, the
tab stop divides the width (4 and 80), control characters are not printable.
`TypeOK` says that every store of `term_putc` is inside the screen and that a
wrap is pending exactly when the column is one past the last. `DrawnInPlace`
needs to know where the cursor is while a row is being drawn, which is `Aligned`;
`IInv == TypeOK /\ Aligned` is inductive. For `ShowsTail` the screen, its cursor and its pending wrap are related to the
layout of the whole text so far (`Follows`), and one more character does the same to
both, scrolling or not. The history of the prompt needs to know what the entered lines
have left in it and which line an arrow key has recalled (`HInv == HTypes /\ Kept /\ Recalled`).
For `LineShown`, `SInv` says of each moment at which some of the shell's
output is still pending that the screen shows the part already written, and that nothing is
to the right of the cursor or below it. The last part would fail after an output that ends in a
carriage return, which `cat` of such a file can write. So
`LineAlwaysShown` has the hypothesis `OutputsMend`: in what a command writes, a newline comes after
every carriage return.
Theorems: `VgaInductive`, `VgaTypeCorrect`, `VgaDrawnInPlace` (an action property), `ScreenShowsTail`,
`HistoryAlwaysRight`, `LineAlwaysShown`.

**The editor (`KeoProofs`).** `KeoAssumption`: room for one line and for one character
besides the terminating zero, and files that are texts within the limit. Invariant:

    KInv == Buffer(lines) /\ Placed /\ Controls /\ loaded \in Files /\ Clean

`Placed` puts cursor and window inside the text after every key. `Clean` is the heart of
`ExitLosesNothing`: outside of the exit, a buffer that is not dirty is what
`load` made of the file, so every handler either leaves the lines alone or sets
`dirty`. `SaveLoadSame` reads the saved text back byte by byte (`LinesOf`, `PutByte`)
and line by line. For `TextKept` every edit of the buffer is a splice, which
replaces a few lines by others; the joined text of a splice is the text before,
the text of the new lines, and the text after (`SplicedText`).
Theorems: `KeoInductive`, `SavesWhatItLoads`, `NothingIsLost`, `TextIsKept` (the last two
are action properties).

**The devices (`DevicesProofs`).** `IdeAssumption`, `E1000Assumption` (rings of two
or more), `PciAssumption`. Disk: unless a call has left it in the middle of a command, the disk is at rest
whenever the driver is, and otherwise at the command of the call under way
(`Working`, `Writing`); what the sectors hold is what the calls allow (`Kept`). Card:
the descriptors the card has not done with are a window of *n* from the head on, with
the tail behind it (`TxInv`, and `RxInv` likewise); the queue is what this window holds. Bus: the
order of the search has a first element in every set of functions, by taking minima of
bus, slot and function in turn, and the halves of the words read are those of the registers.
Theorems: `DiskAnswersAlways`, `FoundIsThereAlways`, `CardImplementsQueues` (a
refinement).

**The commands (`CommandsProofs`, over `ScreenProofs`).** `SessionsImplement` shows that a
behaviour of Commands is one of PathSpec, MoonSpec, CalcSpec and ShellSpec, so that the theorems
about one program hold of the composition, those of `ScreenProofs` too.
*File commands.* `FatPathAssumption`: the upper-case form keeps the empty extension, the
missing one and the dot apart, a name has one dot at most, and directories lie in
directories. The invariant is `PathInv`: the working directory is a string that `abspath` makes
(`Strings`: no second slash in front and no name without a slash before it), and the place
that its names spell is the cluster kept with it, as long as nothing is overrun. `walk` follows
such a string to its place if that exists (`WalkIs`). For a path that does not climb above
its origin the string is a `Tower`, made by joining names to the origin one after the
other: a name pushes and `..` takes off exactly the last one, whatever slashes the origin has gathered.
The counts of `Inside` say that `..` never reaches the bottom of the tower. For `SavedIsRead`, `to83` of
the name behind the last slash is the entry that `walk` looks for (`DiskNames`).
*moon.* `MoonAssumption`: at most four partitions with 32-bit numbers, an int that holds 3 and is no
wider than a long. An index below 2^31 is read without a wrap since every
prefix of it is smaller (`ParseIs`). A number's digits read back as the number (`NumeralReads`) and are at most ten
(`NumeralTen`), so a line has at most 28 characters, no line of a list that fits meets `Full`, and cutting the list at its
newlines and a line at its spaces gives back what was written (`ListIs`, `LineWords`).
*The calculator.* `CalcAssumption`: two or more digits, all different and none of them an operator, a
bracket or a gap. The invariant is `CalcInv`: what is shown is `expr_eval` of the line, so that
`CalcRight` is a statement about every text. First the recursion is removed:
`Parser` satisfies the equations of the five functions (`ParserIs`), and a state behind
the one given is returned each time. Then two inductions. By the number of characters left, the characters that a
function has read, if it has neither failed nor trapped, are a phrase of its kind
(`ParserSound`), so a text that is no expression is not given a value. By the length of the phrase, a function that starts at a phrase
reaches its end with the exact value, or fails at a division by zero, if no part of it is too large
(`ParserComplete`); a phrase that is a sum is taken from its last operator back, the loop of
`expr_rest` from its first one on, so the claim is about the rest of the loop behind a phrase
and not about one call. Digits are read without a wrap when their number is a long
(`NumberRead`); with `NumeralReads` and the wrap of a sign this gives `ReadsBack`, for
the smallest long too (`PlainReads`, `SignedReads`).
Theorems: `SessionsImplement` (a refinement), `PathsAlwaysLead`, `SavedAlwaysRead`, `MoonAlwaysTrue`, `CalcAlwaysRight`.

**Induction over data.** The induction theorems of the library take an operator and
cannot be instantiated by the installed provers. Where chains, paths, texts
or layouts need induction, it is over a set: a lemma derived from the
existence of a minimum (`WFMin`) says that a set of numbers with 0 and closed under
successor is all of them, and the set is that of the arguments for which the claim holds. Recursive
functions are first shown to satisfy their equation and then used only through it.

**Only model-checked.** Liveness (`LaunchEnds`, `ServedWhileTyping`,
`CallsReturn`, `DiskCallsReturn`, `HeadAdvances`), which is out of the prover's reach.
Every invariant, action property and refinement that a passing run checks is also
proved. The three properties of section 4 are false.

## 6. Not modelled

- The calls that only report (`SYS_INFO`, `SYS_MEMINFO`, `SYS_LSMOD`,
  `SYS_GETCWD`, `pci_scan`) or end the system (`SYS_REBOOT`, `SYS_POWEROFF`).
- Which text selects which command of the shell: a chain of string comparisons
  without state.
- Accesses that the compiler reorders: descriptors and registers of the network
  card are not volatile, and the model has them in the order of the source.
- `net/ethernet.c`, which nobody calls, and the copy of the evaluator in `calc.c`.
- The size of the boot stack, on which `kernel_main` puts the rings.
- Keys that send a fake shift (E0 2A), which the decoder does not handle.
- Descriptor tables, boot assembly, port I/O: constants or device registers.
  `idt.c` at the top level is an unused copy.
- The hardware cursor, which repeats row and column, and `draw` of the editor
  beyond `clamp`.

## 7. Plan

In this order, most important first; 1 to 7 are done.

1. Memory: Pmm, its proofs, Exec over it. Done.
2. Input and files: Keyboard, Fat, RamFs with their abstract specifications. Done.
3. Screen and editor: Vga with its proofs, Keo. Done.
4. Prompt and calculator: Shell over Vga, Calc against its grammar. Done.
5. Paths and calls: FatPath, Moon. Done.
6. Devices: Ide, E1000 as two queues, Pci. Done.
7. Proofs: every safety invariant, action property and refinement of Pmm, Exec,
   Keyboard, Fat, RamFs, FatPath, Moon, Calc, Vga, Shell, Keo, Ide, E1000 and Pci. Done.
8. Composition: the editor's `draw` over Vga, using `DrawnInPlace`; Fat over Ide
   instead of an access that fails at once.

## 8. Running it

In this directory, `tlc -config Pmm.cfg MCPmm` and so on (`PROJECT.json`
names the module and configuration of each run), and `tlapm MemoryProofs.tla` and
so on for the eight modules of proofs, of which `CommandsProofs` takes longest.
