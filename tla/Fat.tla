-------------------------------- MODULE Fat --------------------------------
(***************************************************************************)
(* Writing a file on the FAT32 volume: fat_write and what it calls         *)
(* (alloc_clus, fat_set, free_chain, lookup, dir_slot, fill_entry), all of *)
(* kernel/fat.c, over the disk of drivers/ide/ide.c.                       *)
(*                                                                         *)
(* The disk keeps the FAT copies and the clusters; alloc_hint and the      *)
(* locals of the call are lost with the power, which may fail between any  *)
(* two disk writes. Reads change nothing, so a step is the reads up to a   *)
(* disk write and that write. A cluster is one sector (a sequence of sector*)
(* writes that nothing refers to yet is one write), and the files are      *)
(* those of the root directory.                                            *)
(***************************************************************************)
EXTENDS Integers, Sequences, FiniteSets, SequencesExt

CONSTANTS
  FatMax,        \* fat_max(): entries of the FAT, clusters are 2 .. FatMax - 1
  DataEnd,    \* clusters from here on lie past the end of the disk
  NumFats,    \* copies of the FAT
  Slots,      \* directory entries per cluster
  Names,      \* file names
  Dir,        \* the name of a directory in the root directory
  Contents,   \* name -> contents it is saved with: sequences of cluster-sized blocks
  Missing,    \* model value: no such file
  MaxFailures \* bound: disk errors and power losses in a behaviour, together

VARIABLES
  fat,         \* the FAT copies: cluster -> 0 (free), next cluster, or EOC
  data,        \* the data area: cluster -> content
  alloc_hint,
  pc,          \* where the call is
  op,          \* its locals
  set,         \* the locals of the fat_set in progress and where it returns
  ret,         \* result of the last completed call
  faults,      \* disk errors so far
  losses       \* power losses so far

vars == <<fat, data, alloc_hint, pc, op, set, ret, faults, losses>>

ASSUME FatAssumption ==
  /\ FatMax \in Nat /\ DataEnd \in 5 .. FatMax
  /\ NumFats \in Nat \ {0} /\ Slots \in Nat \ {0, 1}
  /\ Dir \notin Names /\ Missing \notin Names \cup {Dir}
  /\ \A n \in Names \cup {Dir} : \A v \in Contents[n] : v # Missing /\ v \in Seq(ToSet(v))
  /\ MaxFailures \in Nat

Clusters == 2 .. FatMax - 1
EOC == FatMax
Root == 2
NoResult == 1

\* Directory entries (the first byte 0 of a free one ends every search) and
\* cluster contents.
FreeSlot == [name |-> Missing, dir |-> FALSE, clus |-> 0, size |-> 0]
DirCluster(s) == [kind |-> "dir", slots |-> s]
FileCluster(b) == [kind |-> "file", block |-> b]
ZeroCluster == DirCluster([i \in 1 .. Slots |-> FreeSlot])
-----------------------------------------------------------------------------
(***************************************************************************)
(* Reading the volume.                                                     *)
(***************************************************************************)
\* The clusters visited from c on in the FAT copy f: the walk ends at a value
\* that is no cluster number.
Ends(x) == IF x \in Clusters THEN x ELSE EOC
Links(f) == [x \in Clusters \cup {EOC} |-> IF x = EOC THEN EOC ELSE Ends(f[x])]
Visited(f, c) ==
  LET link == Links(f)
      at[i \in 1 .. FatMax] == IF i = 1 THEN Ends(c) ELSE link[at[i - 1]]
  IN  at
ChainIn(f, c) ==
  LET at == Visited(f, c)
      len == Cardinality({i \in 1 .. FatMax : at[i] # EOC})
  IN  [i \in 1 .. len |-> at[i]]

\* fat_next reads the first copy.
Chain(c) == ChainIn(fat[1], c)

\* The entries of the directory whose chain is ch, as <<cluster, slot>>, in
\* the order of lookup, walk and dir_slot.
Places[ch \in Seq(Clusters)] ==
  [i \in 1 .. Len(ch) * Slots |-> <<ch[((i - 1) \div Slots) + 1], ((i - 1) % Slots) + 1>>]
Entry(p) == IF p[1] < DataEnd /\ data[p[1]].kind = "dir" THEN data[p[1]].slots[p[2]] ELSE FreeSlot

\* The first place of ps with an entry named n, before any free slot; the
\* first free slot; <<>> if there is none.
FirstPlace[ps \in Seq(Seq(Nat))] == [n \in Names \cup {Dir, Missing} |->
  LET hits == {i \in 1 .. Len(ps) :
                 /\ Entry(ps[i]).name = n
                 /\ \A j \in 1 .. i - 1 : Entry(ps[j]).name \notin {n, Missing}}
  IN  IF hits = {} THEN <<>> ELSE ps[CHOOSE i \in hits : TRUE]]
Find(n) == FirstPlace[Places[Chain(Root)]][n]
FirstFree(ch) == FirstPlace[Places[ch]][Missing]

\* walk and fat_read: what a program gets when it reads n.
ReadChain[ch \in Seq(Clusters)] == [size \in Nat |->
  [i \in 1 .. (IF size < Len(ch) THEN size ELSE Len(ch)) |->
     IF ch[i] < DataEnd /\ data[ch[i]].kind = "file" THEN data[ch[i]].block ELSE Missing]]
ReadPlace[p \in Seq(Nat)] ==
  IF p = <<>> THEN Missing ELSE ReadChain[Chain(Entry(p).clus)][Entry(p).size]
fat_read(n) == ReadPlace[Find(n)]
-----------------------------------------------------------------------------
(***************************************************************************)
(* Steps of a call. A disk error fails the operation without effect; a     *)
(* write may also be reported as failed though it reached the disk (the    *)
(* flush of ide_write timed out).                                          *)
(***************************************************************************)
MayFail == faults + losses < MaxFailures
Fault == MayFail /\ faults' = faults + 1
NoFault == UNCHANGED faults

Disk == <<fat, data>>
Goto(label) == pc' = label

\* Start fat_set(c, v), which goes on at ok or at fail.
CallFatSet(c, v, ok, fail) ==
  /\ set' = [c |-> c, v |-> v, k |-> 1, ok |-> ok, fail |-> fail]
  /\ Goto("fat_set")

Return(r) ==
  /\ Goto("idle") /\ ret' = r
  /\ op' = <<>> /\ set' = <<>>

\* Mutant: stops after the first copy.
set_next_FirstOnly == Goto(set.ok) /\ UNCHANGED set

set_next ==
  IF set.k < NumFats THEN Goto("fat_set") /\ set' = [set EXCEPT !.k = @ + 1]
  ELSE Goto(set.ok) /\ UNCHANGED set

\* One copy: the sector is read, changed and written.
fat_set ==
  /\ pc = "fat_set"
  /\ \/ /\ NoFault
        /\ fat' = [fat EXCEPT ![set.k][set.c] = set.v]
        /\ set_next
     \/ /\ Fault
        /\ \/ UNCHANGED fat
           \/ fat' = [fat EXCEPT ![set.k][set.c] = set.v]
        /\ Goto(set.fail) /\ UNCHANGED set
  /\ UNCHANGED <<data, alloc_hint, op, ret, losses>>

\* Mutant: the search never reaches the last cluster.
Candidate_Short(i) == 2 + ((alloc_hint + i) % (FatMax - 3))

\* The i-th cluster alloc_clus looks at.
Candidate(i) == 2 + ((alloc_hint + i) % (FatMax - 2))

FreeCandidates == {i \in 0 .. FatMax - 1 : fat[1][Candidate(i)] = 0}

\* alloc_clus, for the data of the file ("took") or for the directory
\* ("dir_took"); a result of 0 makes fat_write give up.
alloc_clus(from, ok) ==
  /\ pc = from
  /\ \/ /\ NoFault /\ FreeCandidates # {}
        /\ LET i == CHOOSE i \in FreeCandidates : \A j \in FreeCandidates : i <= j
           IN  /\ op' = [op EXCEPT !.c = Candidate(i)]
               /\ CallFatSet(Candidate(i), EOC, ok, "abort")
     \/ /\ \/ NoFault /\ FreeCandidates = {}
           \/ Fault
        /\ Goto("abort") /\ UNCHANGED <<op, set>>
  /\ UNCHANGED <<Disk, alloc_hint, ret, losses>>

\* SYS_FWRITE calls fat_write: the path is resolved (the root directory
\* needs no disk access) and the locals start at 0.
fat_write(n, v) ==
  /\ pc = "idle"
  /\ op' = [name |-> n, content |-> v, written |-> 0, newclus |-> 0, tail |-> 0, c |-> 0,
            found |-> FALSE, oldclus |-> 0, place |-> <<>>, prev |-> 0, result |-> -1]
  /\ Goto("lookup")
  /\ UNCHANGED <<Disk, alloc_hint, set, ret, faults, losses>>

NextBlock(o) == IF o.written < Len(o.content) THEN "alloc" ELSE "slot"

\* lookup finds the entry, a directory of that name, or nothing.
lookup ==
  /\ pc = "lookup"
  /\ LET p == Find(op.name)
     IN  IF p # <<>> /\ Entry(p).dir THEN Return(-1)
         ELSE /\ op' = IF p = <<>> THEN op
                       ELSE [op EXCEPT !.found = TRUE, !.place = p, !.oldclus = Entry(p).clus]
              /\ Goto(NextBlock(op)) /\ UNCHANGED <<set, ret>>
  /\ UNCHANGED <<Disk, alloc_hint, faults, losses>>

\* A disk error in lookup: its result is the same as for a missing name.
lookup_misread ==
  /\ pc = "lookup" /\ Fault
  /\ Goto(NextBlock(op))
  /\ UNCHANGED <<Disk, alloc_hint, op, set, ret, losses>>

NewHint == op.c

\* alloc_clus has succeeded: the cluster starts the new chain or is linked
\* to its tail.
took ==
  /\ pc = "took"
  /\ alloc_hint' = NewHint
  /\ IF op.newclus = 0
       THEN /\ op' = [op EXCEPT !.newclus = op.c]
            /\ Goto("data") /\ UNCHANGED set
       ELSE CallFatSet(op.tail, op.c, "data", "abort") /\ UNCHANGED op
  /\ UNCHANGED <<Disk, ret, faults, losses>>

\* Mutant: the new content goes over the old chain's first cluster.
DataTarget_InPlace == IF op.found /\ op.oldclus >= 2 THEN op.oldclus ELSE op.c

DataTarget == op.c

\* tail = c, and the block is written; a cluster past the end of the disk
\* makes ide_write fail.
write_data ==
  /\ pc = "data"
  /\ LET o == [op EXCEPT !.tail = op.c, !.written = @ + 1]
         written == [data EXCEPT ![DataTarget] = FileCluster(op.content[o.written])]
     IN  \/ /\ DataTarget < DataEnd /\ NoFault
            /\ data' = written /\ op' = o /\ Goto(NextBlock(o))
         \/ /\ DataTarget >= DataEnd /\ NoFault
            /\ Goto("abort") /\ UNCHANGED <<data, op>>
         \/ /\ DataTarget < DataEnd /\ Fault
            /\ data' \in {data, written} /\ Goto("abort") /\ UNCHANGED op
  /\ UNCHANGED <<fat, alloc_hint, set, ret, losses>>

\* dir_slot needs another cluster behind prev.
Extend(prev) == Goto("dir_alloc") /\ op' = [op EXCEPT !.prev = prev]

\* The entry's sector is read again, or dir_slot looks for a free entry.
entry_slot ==
  /\ pc = "slot"
  /\ LET p == FirstFree(Chain(Root))
     IN  \/ NoFault /\ op.found /\ Goto("entry") /\ UNCHANGED op
         \/ NoFault /\ ~op.found /\ p # <<>> /\ Goto("entry") /\ op' = [op EXCEPT !.place = p]
         \/ NoFault /\ ~op.found /\ p = <<>> /\ Extend(Last(Chain(Root)))
         \/ Fault /\ Goto("abort") /\ UNCHANGED op
  /\ UNCHANGED <<Disk, alloc_hint, set, ret, losses>>

\* A disk error in the fat_next of dir_slot: the cluster whose link was to be
\* read, full like those before it, is taken for the last one.
dir_slot_misread ==
  /\ pc = "slot" /\ ~op.found /\ Fault
  /\ \E i \in 1 .. Len(Chain(Root)) :
       LET ch == SubSeq(Chain(Root), 1, i)
       IN  FirstFree(ch) = <<>> /\ Extend(Last(ch))
  /\ UNCHANGED <<Disk, alloc_hint, set, ret, losses>>

\* dir_slot extends the directory: the new cluster is zeroed, then linked.
dir_took ==
  /\ pc = "dir_took"
  /\ alloc_hint' = NewHint
  /\ Goto("dir_zero")
  /\ UNCHANGED <<Disk, op, set, ret, faults, losses>>

dir_zero ==
  /\ pc = "dir_zero"
  /\ \/ /\ op.c < DataEnd /\ NoFault
        /\ data' = [data EXCEPT ![op.c] = ZeroCluster]
        /\ CallFatSet(op.prev, op.c, "dir_linked", "abort")
     \/ /\ op.c >= DataEnd /\ NoFault
        /\ Goto("abort") /\ UNCHANGED <<data, set>>
     \/ /\ op.c < DataEnd /\ Fault
        /\ data' \in {data, [data EXCEPT ![op.c] = ZeroCluster]}
        /\ Goto("abort") /\ UNCHANGED set
  /\ UNCHANGED <<fat, alloc_hint, op, ret, losses>>

dir_linked ==
  /\ pc = "dir_linked"
  /\ \/ NoFault /\ Goto("entry") /\ op' = [op EXCEPT !.place = <<op.c, 1>>]
     \/ Fault /\ Goto("abort") /\ UNCHANGED op
  /\ UNCHANGED <<Disk, alloc_hint, set, ret, losses>>

fill_entry == [name |-> op.name, dir |-> FALSE, clus |-> op.newclus, size |-> Len(op.content)]

\* The write of the entry's sector replaces the file. (Here a failed write
\* is one that did not reach the disk; write_entry_late is the other one.)
EntryWritten == [data EXCEPT ![op.place[1]].slots[op.place[2]] = fill_entry]
write_entry ==
  /\ pc = "entry"
  /\ \/ /\ NoFault
        /\ data' = EntryWritten
        /\ op' = [op EXCEPT !.result = 0, !.c = IF op.found THEN op.oldclus ELSE 0]
        /\ Goto("free_chain")
     \/ Fault /\ Goto("abort") /\ UNCHANGED <<data, op>>
  /\ UNCHANGED <<fat, alloc_hint, set, ret, losses>>

\* The entry reaches the disk but the flush after it times out: ide_write
\* fails, and fat_write frees the chain the entry now refers to.
write_entry_late ==
  /\ pc = "entry" /\ Fault
  /\ data' = EntryWritten
  /\ Goto("abort")
  /\ UNCHANGED <<fat, alloc_hint, op, set, ret, losses>>

\* Mutants: the error path forgets the new chain, or frees the old one.
AbortChain_None == 0
AbortChain_Old == op.oldclus

AbortChain == op.newclus

\* Every error path frees the new chain and returns -1.
abort ==
  /\ pc = "abort"
  /\ op' = [op EXCEPT !.c = AbortChain]
  /\ Goto("free_chain")
  /\ UNCHANGED <<Disk, alloc_hint, set, ret, faults, losses>>

\* Mutant: does not move on to the next cluster.
NextOf_Self(c) == c

NextOf(c) == fat[1][c]

\* free_chain: the link is read (EOC if that fails), then the entry cleared;
\* whether that worked is not looked at. At the end fat_write returns.
free_chain ==
  /\ pc = "free_chain"
  /\ IF op.c \in Clusters
       THEN /\ \/ NoFault /\ op' = [op EXCEPT !.c = NextOf(op.c)]
               \/ Fault /\ op' = [op EXCEPT !.c = EOC]
            /\ CallFatSet(op.c, 0, "free_chain", "free_chain")
            /\ UNCHANGED ret
       ELSE NoFault /\ Return(op.result)
  /\ UNCHANGED <<Disk, alloc_hint, losses>>

\* The machine loses power, and boots and mounts the volume again.
power_loss ==
  /\ MayFail /\ losses' = losses + 1
  /\ Goto("idle") /\ op' = <<>> /\ set' = <<>>
  /\ alloc_hint' = 2
  /\ ret' = NoResult
  /\ UNCHANGED <<Disk, faults>>

Step ==
  \/ lookup
  \/ alloc_clus("alloc", "took") \/ took \/ write_data
  \/ entry_slot
  \/ alloc_clus("dir_alloc", "dir_took") \/ dir_took \/ dir_zero \/ dir_linked
  \/ write_entry \/ abort \/ free_chain \/ fat_set

\* A volume as a formatter makes it, with one directory in the root.
Init ==
  /\ fat = [k \in 1 .. NumFats |-> [c \in Clusters |-> IF c \in {Root, 3} THEN EOC ELSE 0]]
  /\ data = [c \in 2 .. DataEnd - 1 |->
               IF c = Root
               THEN DirCluster([i \in 1 .. Slots |->
                      IF i = 1 THEN [name |-> Dir, dir |-> TRUE, clus |-> 3, size |-> 0]
                      ELSE FreeSlot])
               ELSE ZeroCluster]
  /\ alloc_hint = 2
  /\ pc = "idle" /\ op = <<>> /\ set = <<>> /\ ret = NoResult
  /\ faults = 0 /\ losses = 0

Next ==
  \/ \E n \in Names \cup {Dir} : \E v \in Contents[n] : fat_write(n, v)
  \/ Step
  \/ power_loss

Spec == Init /\ [][Next]_vars

\* The same with the disk errors that fat_write takes for something else.
ErrorNext == Next \/ lookup_misread \/ dir_slot_misread \/ write_entry_late
ErrorSpec == Init /\ [][ErrorNext]_vars

\* The kernel runs a system call to its end unless the power fails.
FairSpec == Spec /\ WF_vars(Step)
-----------------------------------------------------------------------------
TypeOK ==
  /\ fat \in [1 .. NumFats -> [Clusters -> {0} \cup Clusters \cup {EOC}]]
  /\ DOMAIN data = 2 .. DataEnd - 1
  /\ alloc_hint \in Clusters
  /\ pc \in {"idle", "lookup", "alloc", "took", "data", "slot", "dir_alloc", "dir_took",
             "dir_zero", "dir_linked", "entry", "abort", "free_chain", "fat_set"}
  /\ ret \in {-1, 0, NoResult}
  /\ faults \in 0 .. MaxFailures /\ losses \in 0 .. MaxFailures

\* fat_write implements the atomic replacement of a file. It takes effect
\* when the directory entry is written, and a call that returns has done so
\* exactly if it returns 0; a power loss at any disk write leaves each file
\* with its old or its new content.
Store == INSTANCE FileStore WITH
           Others <- {Dir},
           files <- [n \in Names |-> fat_read(n)],
           phase <- IF pc = "idle" THEN "none"
                    ELSE IF op.result = 0 THEN "committed" ELSE "pending",
           pend <- IF pc = "idle" THEN [name |-> Missing, content |-> Missing]
                   ELSE [name |-> op.name, content |-> op.content]
ImplementsFileStore == Store!Spec

\* The entries of the root directory, by place.
Used == {p \in ToSet(Places[Chain(Root)]) : Entry(p).name # Missing}
Heads == {Root} \cup {Entry(p).clus : p \in {q \in Used : Entry(q).clus # 0}}
Reachable == UNION {ToSet(Chain(h)) : h \in Heads}

\* The volume is sound at every disk write, so also after a power loss: the
\* chains of the directory and of its entries end, have the length their
\* entry says, contain no free cluster, and share no cluster; and alloc_hint is
\* a cluster.
ChainsSound ==
  /\ TypeOK
  /\ \A h \in Heads : /\ h \in Clusters
                      /\ fat[1][Last(Chain(h))] = EOC
                      /\ IsInjective(Chain(h))
  /\ \A p \in Used : ~Entry(p).dir => Len(Chain(Entry(p).clus)) = Entry(p).size
  /\ \A p, q \in Used :
       p # q /\ Entry(p).clus # 0 =>
         /\ ToSet(Chain(Entry(p).clus)) \cap ToSet(Chain(Entry(q).clus)) = {}
         /\ ToSet(Chain(Entry(p).clus)) \cap ToSet(Chain(Root)) = {}

\* Between calls no cluster of the disk is allocated and unreachable, unless a
\* disk error or a power loss has interrupted a call: every error path of
\* fat_write gives back what it took. (Not so one past the end of the disk
\* that dir_slot took: it stays allocated.)
NoLeak ==
  pc = "idle" /\ faults = 0 /\ losses = 0 =>
    {c \in 2 .. DataEnd - 1 : fat[1][c] # 0} = Reachable

\* The copies of the FAT agree between calls, again unless a disk error or a
\* power loss came in between.
CopiesAgree ==
  pc = "idle" /\ faults = 0 /\ losses = 0 => \A k \in 1 .. NumFats : fat[k] = fat[1]

\* Without disk errors a call gives up only when the FAT has no free cluster
\* left or when it was given one past the end of the disk: alloc_clus misses
\* none, whatever the hint, and no path aborts for another reason.
Free == {c \in Clusters : fat[1][c] = 0}
GivesUpOnlyWhenFull == pc = "abort" /\ faults = 0 => Free = {} \/ op.c >= DataEnd

\* Every call returns: no chain it follows is a cycle.
CallsReturn == (pc # "idle") ~> (pc = "idle")
-----------------------------------------------------------------------------
(* What the documentation says.                                            *)

\* "save and auto exit" (README.md:117): when fat_write returns 0, the file
\* reads back with the content that was saved, and meanwhile no other file
\* has changed, whichever disk accesses failed.
SavesTheFile ==
  [][/\ pc = "free_chain" /\ pc' = "idle" /\ ret' = 0 /\ op.name \in Names =>
          fat_read(op.name) = op.content
     /\ pc # "idle" => \A n \in Names \ {op.name} : fat_read(n)' = fat_read(n)]_vars
=============================================================================
