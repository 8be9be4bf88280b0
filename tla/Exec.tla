-------------------------------- MODULE Exec --------------------------------
(***************************************************************************)
(* Starting programs: enter_program (kernel/exec.c), elf_load              *)
(* (kernel/elf.c), the page tables (arch/x86_64/vmm.c), the system calls   *)
(* SYS_RUN and SYS_EXIT (kernel/syscall.c) and the frames they take from   *)
(* and give back to the allocator of module Pmm.                           *)
(*                                                                         *)
(* All of memory is mapped one to one with large pages of Region frames,   *)
(* and the kernel reaches a frame through that mapping. A large page is    *)
(* split into a page table when a user page is mapped in it, and from then *)
(* on its entries, the identity ones included, belong to the program:      *)
(* vmm_unmap_range frees and clears them all.                              *)
(*                                                                         *)
(* One program runs at a time and a launch runs with interrupts off; a     *)
(* step makes at most one call of pmm_alloc_frame, or touches memory.      *)
(***************************************************************************)
EXTENDS Pmm

CONSTANTS
  Region,     \* frames per large page
  Programs    \* sequence of [segs, defect], one per boot module: segs is the
              \* sequence of [first, last] pages of its PT_LOAD headers, defect
              \* the check of elf_load it fails: 0 the ELF header, k the k-th
              \* segment, Len(segs) + 1 the entry point, NoDefect none

VARIABLES
  split,      \* region -> frame of its page table, 0: still a large page
  pte,        \* page -> frame it maps to, or NotPresent
  user,       \* pages mapped for user mode
  mem,        \* frame -> what was last written to it
  pc,         \* where enter_program is
  prog,       \* the program being started or running
  fallback,   \* nothing is left to try if this launch fails
  seg,        \* the program header elf_load is at
  page,       \* the virtual page being mapped
  frame,      \* the frame for it
  table,      \* the frame of the page table being built
  stack,      \* the frames s1 and s2 (0: none)
  high,       \* history: a frame of the user window has been handed out
  refused,    \* history: an allocation found no frame
  leaked      \* history: frames allocated and then forgotten

tables == <<split, pte, user>>
args == <<prog, fallback>>
locals == <<seg, page, frame, table, stack>>
history == <<high, refused, leaked>>
evars == <<tables, mem, pc, args, locals, history>>
allvars == <<vars, evars>>

NotPresent == -1
NoDefect == -1
Regions == 0 .. TotalFrames \div Region
Pages == 0 .. TotalFrames + Region - 1
RegionOf(p) == p \div Region
StackPage(i) == TotalFrames + i - 1       \* USTACK_BASE is the 1 GB cap
Segs(i) == Programs[i].segs
SegPages(i, k) == Segs(i)[k].first .. Segs(i)[k].last
ImagePages(i) == UNION {SegPages(i, k) : k \in DOMAIN Segs(i)}
StackPages == {StackPage(1), StackPage(2)}

\* Init is the first module. The linker gives two segments of a program no
\* page in common.
ASSUME ExecAssumption ==
  /\ Region \in Nat /\ Region >= 2
  /\ UserMin < TotalFrames
  /\ TotalFrames % Region = 0 /\ UserMin % Region = 0
  /\ Programs \in Seq([segs : Seq([first : Nat, last : Nat]), defect : Int]) /\ Programs # <<>>
  /\ Len(Programs) = Len(Modules) /\ Registered = DOMAIN Modules
  /\ \A i \in DOMAIN Programs :
       /\ Programs[i].defect \in {NoDefect} \cup 0 .. Len(Segs(i)) + 1
       /\ \A k \in DOMAIN Segs(i) :
            /\ Segs(i)[k].first <= Segs(i)[k].last
            /\ SegPages(i, k) \subseteq UserMin .. TotalFrames - 1
            /\ \A l \in DOMAIN Segs(i) : k # l => SegPages(i, k) \cap SegPages(i, l) = {}

\* What a frame holds: page p of program i is <<i, p>>.
Nothing == <<0, 0>>
PageTable == <<0, 1>>
Arguments == <<0, 2>>
Scribble == <<0, 3>>

ModuleImage(i) == Touched(Modules[i].start, Modules[i].end) \cap Frames
IsSplit(r) == split[r] # 0
TableFrames == {split[r] : r \in {s \in Regions : IsSplit(s)}}
-----------------------------------------------------------------------------
(***************************************************************************)
(* The kernel reaches a frame through its identity address. The access     *)
(* faults when that page is not present, and hits another frame when it    *)
(* has been mapped elsewhere.                                              *)
(***************************************************************************)
\* The frames the step at pc reads or writes through identity addresses.
Targets == {pte[p] : p \in SegPages(prog, seg)}
Needs ==
  CASE pc = "unmap"  -> TableFrames
    [] pc = "header" -> ModuleImage(prog)
    [] pc = "fill"   -> {table}
    [] pc = "map"    -> {split[RegionOf(page)]}
    [] pc = "copy"   -> ModuleImage(prog) \cup Targets
                          \cup {split[RegionOf(p)] : p \in SegPages(prog, seg)}
    [] OTHER         -> {}

\* The frames that the step, or the program it starts, writes to and that
\* are not meant to be page tables yet.
Writes ==
  CASE pc = "fill" -> {table}
    [] pc = "copy" -> Targets
    [] pc = "jump" -> {pte[p] : p \in user}
    [] OTHER       -> {}

Sane ==
  /\ \A f \in Needs \cap Frames : pte[f] = f
  /\ Writes \cap TableFrames = {}

At(label) == pc = label /\ Sane
Goto(label) == pc' = label

\* vmm_unmap_range clears the identity page of a table it still has to read.
CutsOff ==
  \E p \in UserMin .. StackPage(2) :
    /\ IsSplit(RegionOf(p))
    /\ split[RegionOf(p)] \in UserMin .. p - 1
    /\ IsSplit(RegionOf(split[RegionOf(p)]))

\* The exception stub calls panic, which halts the machine. A page cleared
\* during vmm_unmap_range may still be cached until it flushes.
page_fault ==
  /\ \/ \E f \in Needs \cap Frames : pte[f] = NotPresent
     \/ pc = "unmap" /\ CutsOff
  /\ Goto("panic")
  /\ UNCHANGED <<vars, tables, mem, args, locals, history>>

\* The access goes to another frame, or hits a page table; what that does is
\* not followed further.
OnTarget ==
  /\ \A f \in Needs \cap Frames : pte[f] \in {f, NotPresent}
  /\ Writes \cap TableFrames = {}
stray_access ==
  /\ ~OnTarget
  /\ Goto("corrupt")
  /\ UNCHANGED <<vars, tables, mem, args, locals, history>>

\* Mutant: tries init again however often it fails.
Fail_Forever == Goto("unmap") /\ prog' = 1 /\ fallback' = TRUE

\* enter_program returns -1: SYS_RUN falls back to init, and the kernel stops
\* if that fails too.
Fail ==
  IF fallback THEN Goto("lost") /\ UNCHANGED args
  ELSE Goto("unmap") /\ prog' = 1 /\ fallback' = TRUE

\* pmm_alloc_frame as a launch calls it; Allocated is its result, 0 for none.
Allocate ==
  /\ pmm_alloc_frame
  /\ high' = (high \/ ret' >= UserMin * FrameSize)
  /\ refused' = (refused \/ ret' = 0)
Allocated == ret' \div FrameSize
NoAllocation == UNCHANGED <<vars, high, refused>>
-----------------------------------------------------------------------------
(* The calls of enter_program.                                             *)

Enter(i, last) ==
  /\ Goto("unmap") /\ prog' = i /\ fallback' = last
  /\ NoAllocation /\ UNCHANGED <<tables, mem, locals, leaked>>

\* kernel_main starts init once the modules are registered, SYS_EXIT starts
\* it again, SYS_RUN starts a module.
start_init == pc = "boot" /\ boot = "ready" /\ Enter(1, TRUE)
sys_exit == pc = "user" /\ Enter(1, TRUE)
sys_run(i) == pc = "user" /\ Enter(i, FALSE)
-----------------------------------------------------------------------------
(* enter_program and elf_load.                                             *)

\* The present pages of the window that lie in split regions, and the frames
\* they map, which vmm_unmap_range(USER_MIN, USTACK_TOP) frees.
InWindow == {p \in UserMin .. StackPage(2) : IsSplit(RegionOf(p)) /\ pte[p] # NotPresent}

\* Mutant: leaves the frames of the stack allocated.
Released_NoStack == {pte[p] : p \in {q \in InWindow : q < TotalFrames}}

Released == {pte[p] : p \in InWindow}

\* Mutant: frees the frames but leaves the entries present.
Cleared_None == {}

\* The entries it sets to 0.
Cleared == InWindow

unmap_range ==
  /\ At("unmap")
  /\ bitmap' = bitmap \ Released
  /\ free_frames' = free_frames + Cardinality(Released \cap bitmap)
  /\ held' = held \ Released
  /\ pte' = [p \in Pages |-> IF p \in Cleared THEN NotPresent ELSE pte[p]]
  /\ user' = user \ Cleared
  /\ Goto("header")
  /\ ret' = NoCall
  /\ UNCHANGED <<cursor, boot, next, mmap, split, mem, args, locals, history>>

\* elf_load goes to its k-th program header, or to the entry check after the
\* last one.
Segment(k) ==
  /\ seg' = k
  /\ CASE Programs[prog].defect = k -> Fail /\ UNCHANGED page
       [] Programs[prog].defect # k /\ k \in DOMAIN Segs(prog) ->
            Goto("page") /\ page' = Segs(prog)[k].first /\ UNCHANGED args
       [] OTHER -> Goto("stack1") /\ UNCHANGED <<page, args>>

elf_header ==
  /\ At("header")
  /\ IF Programs[prog].defect = 0 THEN Fail /\ UNCHANGED <<seg, page>> ELSE Segment(1)
  /\ NoAllocation /\ UNCHANGED <<tables, mem, frame, table, stack, leaked>>

\* elf_load takes a frame for the next page of the segment.
elf_page ==
  /\ At("page")
  /\ Allocate
  /\ IF Allocated = 0 THEN Fail /\ UNCHANGED frame
     ELSE Goto("split") /\ frame' = Allocated /\ UNCHANGED args
  /\ UNCHANGED <<tables, mem, seg, page, table, stack, leaked>>

\* vmm_map calls split_large and does not look whether it worked.
split_large ==
  /\ At("split")
  /\ IF IsSplit(RegionOf(page))
       THEN NoAllocation /\ Goto("map") /\ UNCHANGED table
       ELSE /\ Allocate
            /\ IF Allocated = 0 THEN Goto("map_large") ELSE Goto("fill")
            /\ table' = Allocated
  /\ UNCHANGED <<tables, mem, args, seg, page, frame, stack, leaked>>

\* The new table gets the identity entries of the large page.
split_fill ==
  /\ At("fill")
  /\ mem' = [mem EXCEPT ![table] = PageTable]
  /\ split' = [split EXCEPT ![RegionOf(page)] = table]
  /\ Goto("map")
  /\ NoAllocation /\ UNCHANGED <<pte, user, args, locals, leaked>>

\* After a mapping: the next page, the copy, the second stack page, the jump.
MapNext ==
  IF page = StackPage(2) THEN Goto("jump") /\ UNCHANGED <<page, frame>>
  ELSE IF page = StackPage(1) THEN Goto("split") /\ page' = StackPage(2) /\ frame' = stack[2]
  ELSE IF page < Segs(prog)[seg].last THEN Goto("page") /\ page' = page + 1 /\ UNCHANGED frame
  ELSE Goto("copy") /\ UNCHANGED <<page, frame>>

map_page ==
  /\ At("map")
  /\ pte' = [pte EXCEPT ![page] = frame]
  /\ user' = user \cup {page}
  /\ MapNext
  /\ NoAllocation /\ UNCHANGED <<split, mem, args, seg, table, stack, leaked>>

\* The large page could not be split: walk takes the memory it maps for a
\* page table and vmm_map writes the entry there.
map_large ==
  /\ At("map_large")
  /\ mem' = [f \in Frames |-> IF f = RegionOf(page) * Region THEN Scribble ELSE mem[f]]
  /\ MapNext
  /\ leaked' = leaked \cup {frame}
  /\ NoAllocation /\ UNCHANGED <<tables, args, seg, table, stack>>

\* Mutant: misses the last page of the segment.
Copied_Short == Segs(prog)[seg].first .. Segs(prog)[seg].last - 1

Copied == SegPages(prog, seg)

\* The segment is copied, page by page, to where vmm_phys says it is mapped,
\* and the rest of its last page is cleared.
elf_copy ==
  /\ At("copy")
  /\ mem' = [f \in Frames |->
               LET ps == {p \in Copied : pte[p] = f}
               IN  IF ps = {} THEN mem[f] ELSE <<prog, CHOOSE p \in ps : TRUE>>]
  /\ Segment(seg + 1)
  /\ NoAllocation /\ UNCHANGED <<tables, frame, table, stack, leaked>>

stack1 ==
  /\ At("stack1")
  /\ Allocate
  /\ stack' = <<Allocated, 0>> /\ Goto("stack2")
  /\ UNCHANGED <<tables, mem, args, seg, page, frame, table, leaked>>

\* If one of the two is missing the other one is not given back.
stack2 ==
  /\ At("stack2")
  /\ Allocate
  /\ stack' = <<stack[1], Allocated>>
  /\ IF stack[1] = 0 \/ Allocated = 0
       THEN /\ Fail
            /\ leaked' = leaked \cup ({stack[1], Allocated} \ {0})
            /\ UNCHANGED <<page, frame>>
       ELSE /\ Goto("split") /\ page' = StackPage(1) /\ frame' = stack[1]
            /\ UNCHANGED <<args, leaked>>
  /\ UNCHANGED <<tables, mem, seg, table>>

\* The arguments go to the top of the stack, then the program runs; it faults
\* at once if its pages are not mapped for user mode.
jump_usermode ==
  /\ At("jump")
  /\ mem' = [f \in Frames |-> IF f = pte[StackPage(2)] THEN Arguments ELSE mem[f]]
  /\ IF ImagePages(prog) \cup StackPages \subseteq user
       THEN Goto("user") ELSE Goto("panic")
  /\ NoAllocation /\ UNCHANGED <<tables, args, locals, leaked>>

EnterStep ==
  \/ unmap_range \/ elf_header \/ elf_page \/ split_large \/ split_fill \/ map_page
  \/ map_large \/ elf_copy \/ stack1 \/ stack2 \/ jump_usermode
  \/ page_fault \/ stray_access

BootStep ==
  /\ pmm_init_entry \/ pmm_init_kernel \/ reserve_module \/ boot_done
  /\ UNCHANGED evars
-----------------------------------------------------------------------------
ExecInit ==
  /\ Init
  /\ split = [r \in Regions |-> 0]
  /\ pte = [p \in Pages |-> p]
  /\ user = {}
  /\ mem = [f \in Frames |-> Nothing]
  /\ pc = "boot" /\ prog = 1 /\ fallback = TRUE
  /\ seg = 1 /\ page = UserMin /\ frame = 0 /\ table = 0 /\ stack = <<0, 0>>
  /\ high = FALSE /\ refused = FALSE /\ leaked = {}

ExecNext ==
  \/ BootStep \/ start_init \/ sys_exit
  \/ \E i \in DOMAIN Programs : sys_run(i)
  \/ EnterStep

ExecSpec == ExecInit /\ [][ExecNext]_allvars

\* The kernel runs the launch to its end.
ExecFairSpec == ExecSpec /\ WF_allvars(EnterStep) /\ WF_allvars(BootStep \/ start_init)
-----------------------------------------------------------------------------
ExecTypeOK ==
  /\ TypeOK
  /\ split \in [Regions -> Frames]
  /\ pte \in [Pages -> Pages \cup {NotPresent}]
  /\ user \subseteq Pages
  /\ DOMAIN mem = Frames
  /\ pc \in {"boot", "unmap", "header", "page", "split", "fill", "map", "map_large", "copy",
             "stack1", "stack2", "jump", "user", "lost", "panic", "corrupt"}
  /\ prog \in DOMAIN Programs /\ fallback \in BOOLEAN
  /\ seg \in Nat /\ page \in Pages /\ frame \in Frames /\ table \in Frames
  /\ stack \in Frames \X Frames
  /\ high \in BOOLEAN /\ refused \in BOOLEAN /\ leaked \subseteq Frames

Image == {pte[p] : p \in ImagePages(prog)}
Stack == {pte[p] : p \in StackPages}

\* As long as no frame of the user window has been handed out, a program that
\* runs finds its own image and stack: each of its pages maps to a different
\* frame, one that it got from the allocator and that holds that page,
\* whatever ran, failed or ran out of memory before.
ImageIntact ==
  /\ ExecTypeOK
  /\ pc = "user" /\ ~high =>
    /\ \A p \in ImagePages(prog) : mem[pte[p]] = <<prog, p>>
    /\ Cardinality(Image \cup Stack) = Cardinality(ImagePages(prog)) + 2
    /\ Image \cup Stack \subseteq held
    /\ mem[pte[StackPage(2)]] = Arguments

\* Under the same condition a page table in use is never given back to the
\* allocator (vmm_unmap_range frees whatever a split page maps) and no user
\* page maps one.
TablesSafe ==
  ~high => /\ TableFrames \subseteq held
           /\ \A p \in user : pte[p] \notin TableFrames

\* Under the same condition a running system owns exactly the frames of the
\* program, of its stack and of the page tables, besides those that a failed
\* launch forgot: the one stack frame it got, and a frame it could not map.
\* Everything else the last program or a failed launch took was given back.
\* And whatever vmm_unmap_range frees, identity entries included, and whatever
\* has been handed out, the allocator's books are right (Accounting).
NoFrameLeak ==
  /\ Accounting
  /\ pc = "user" /\ ~high => held = TableFrames \cup Image \cup Stack \cup leaked

\* A launch ends in a running program; it stops the machine only after the
\* allocator was out of memory or had handed out a frame of the user window.
LaunchEnds ==
  (pc = "unmap") ~> \/ pc = "user"
                    \/ pc \in {"lost", "panic", "corrupt"} /\ (high \/ refused)
-----------------------------------------------------------------------------
\* "jumps, -1 on fail" (kernel/exec.h:11): enter_program starts the program
\* or returns -1; it never faults and never writes to another frame.
JumpsOrFails == pc \notin {"panic", "corrupt"}
=============================================================================
