------------------------------- MODULE RamFs -------------------------------
(***************************************************************************)
(* The file system calls of kernel/fs.c: the tree of nodes in RAM, the     *)
(* working directory, and the switch to a FAT partition and back           *)
(* (fs_mount_part, fs_unmount, fat_mount of kernel/fat.c, the partitions   *)
(* part_scan of kernel/part.c found).                                      *)
(*                                                                         *)
(* A path is a sequence of components, "" for what follows a final slash.  *)
(* A name of 32 characters or more is cut by next_part: LongName stands    *)
(* for those, LongHead for its first 31 characters, LongRest for the rest. *)
(***************************************************************************)
EXTENDS Integers, Sequences, FiniteSets, SequencesExt

CONSTANTS
  FsMax,      \* FS_MAX
  Names,      \* names that fit in NAME_MAX
  LongName, LongHead, LongRest,
  Contents,   \* file contents of at most FILE_MAX bytes
  TooLong,    \* a content of more
  Mbrs,       \* partition tables; an entry is "empty" or the state of its boot
              \* sector: "fat", "odd" (bad geometry), "unreadable"
  Depth       \* bound: components of a path

VARIABLES
  nodes,
  cwd,
  mounted, mounted_idx,
  parts,       \* the partitions, by their boot sector
  is_mounted,  \* of fat.c
  geometry,    \* the partition sec_per_clus, fat_sz and root_clus come from
  volume,      \* the partition fat_start, data_start and num_fats come from
  ret          \* result of the last call

ram == <<nodes, cwd>>
fatvars == <<is_mounted, geometry, volume>>
vars == <<ram, mounted, mounted_idx, parts, fatvars, ret>>

Ids == 0 .. FsMax - 1
Dir == "dir"                 \* the kind of a directory; a file's is its content
NoPart == -1
PartMax == 4
Unused == [used |-> FALSE, name |-> "", parent |-> -1, data |-> Dir]
IsDir(i) == nodes[i].data = Dir

ASSUME RamFsAssumption ==
  /\ FsMax \in Nat \ {0} /\ Depth \in Nat
  /\ LongHead \in Names /\ LongRest \in Names
  /\ {LongName, ".", "..", ""} \cap Names = {} /\ LongName \notin {".", "..", ""}
  /\ TooLong \notin Contents /\ Dir \notin Contents \cup {TooLong}
  /\ \A mbr \in Mbrs : Len(mbr) = PartMax

Components == Names \cup {LongName, ".", ".."}
Paths ==
  LET names == BoundedSeq(Components, Depth)
  IN  [abs : BOOLEAN, comps : names \cup {Append(s, "") : s \in names \ {<<>>}}]
IsEmpty(path) == ~path.abs /\ path.comps = <<>>
-----------------------------------------------------------------------------
(* Paths.                                                                  *)

\* next_part: what it takes of a component; the loop of resolve takes what it
\* leaves for the next component.
next_part(c) == IF c = LongName THEN LongHead ELSE c

\* The child of dir with that name, or -1.
find_kid(dir, name) ==
  LET kids == {i \in Ids : nodes[i].used /\ nodes[i].parent = dir /\ nodes[i].name = name}
  IN  IF kids = {} THEN -1 ELSE CHOOSE i \in kids : \A j \in kids : i <= j

\* ".." stays in the root directory.
up(i) == IF nodes[i].parent >= 0 THEN nodes[i].parent ELSE i

\* The child of cur with that name, or -1; a file if more follows is no way.
enter(cur, name, more) ==
  LET kid == find_kid(cur, name) IN IF kid >= 0 /\ more /\ ~IsDir(kid) THEN -1 ELSE kid

\* One component on the way from cur, and whether anything follows it.
follow(cur, c, more) ==
  CASE c \in {"", "."} -> cur
    [] c = ".."        -> up(cur)
    [] c = LongName    -> LET dir == enter(cur, LongHead, TRUE)
                          IN  IF dir < 0 THEN -1 ELSE enter(dir, LongRest, more)
    [] OTHER           -> enter(cur, c, more)

\* The node a path leads to, or -1.
resolve(path) ==
  LET comps == path.comps
      More(k) == k < Len(comps) /\ comps[k + 1] # ""
      at[k \in 0 .. Len(comps)] ==
        IF k = 0 THEN (IF path.abs THEN 0 ELSE cwd)
        ELSE IF at[k - 1] < 0 THEN -1 ELSE follow(at[k - 1], comps[k], More(k))
  IN  at[Len(comps)]

resolve_dir(path) ==
  LET d == resolve(path) IN IF d >= 0 /\ IsDir(d) THEN d ELSE -1

\* split_parent: the directory before the last slash, and the leaf behind it.
ParentDir(path) ==
  IF path.abs \/ Len(path.comps) > 1
    THEN resolve_dir([path EXCEPT !.comps = IF @ = <<>> THEN <<>> ELSE Front(@)])
    ELSE cwd
Leaf(path) == IF path.comps = <<>> THEN "" ELSE next_part(Last(path.comps))
BadLeaves == {"", ".", ".."}

\* fs_getcwd climbs to the root and gives the names on the way down.
PathOf[i \in Ids] == IF nodes[i].parent < 0 THEN <<>> ELSE Append(PathOf[nodes[i].parent], nodes[i].name)

\* Mutant: gives the last name only.
fs_getcwd_Last == IF cwd = 0 THEN <<>> ELSE <<nodes[cwd].name>>

fs_getcwd == PathOf[cwd]

\* Mutant: takes a slot that is in use.
free_slots_Any == Ids \ {0}

free_slots == {i \in Ids : ~nodes[i].used}
free_slot == CHOOSE i \in free_slots : \A j \in free_slots : i <= j
-----------------------------------------------------------------------------
(* The calls. While a partition is mounted they go to fat.c.               *)

Fails(r) == ret' = r /\ UNCHANGED ram
fat_call == ret' \in {"OK", "BADPATH"} /\ UNCHANGED ram
Unmoved == UNCHANGED <<mounted, mounted_idx, parts, fatvars>>

NewNode(dir, leaf, data) ==
  nodes' = [nodes EXCEPT ![free_slot] =
             [used |-> TRUE, name |-> leaf, parent |-> dir, data |-> data]]

\* Mutant: does not look whether a partition is mounted.
ReadOnly_Never == FALSE

ReadOnly == mounted

\* Mutant: does not look for an entry of that name.
Exists_Never(dir, leaf) == FALSE

Exists(dir, leaf) == find_kid(dir, leaf) >= 0

fs_mkdir(path) ==
  /\ LET dir == ParentDir(path)
         leaf == Leaf(path)
     IN  IF ReadOnly THEN Fails("RO")
         ELSE IF IsEmpty(path) THEN Fails("USAGE")
         ELSE IF dir < 0 THEN Fails("BADPATH")
         ELSE IF leaf \in BadLeaves THEN Fails("BADNAME")
         ELSE IF Exists(dir, leaf) THEN Fails("EXISTS")
         ELSE IF free_slots = {} THEN Fails("FULL")
         ELSE NewNode(dir, leaf, Dir) /\ ret' = "OK" /\ UNCHANGED cwd
  /\ Unmoved

\* The data goes to the file of that name or to a new node.
fs_fwrite(path, data) ==
  /\ LET dir == ParentDir(path)
         leaf == Leaf(path)
         kid == find_kid(dir, leaf)
     IN  IF mounted THEN fat_call
         ELSE IF IsEmpty(path) THEN Fails("BADPATH")
         ELSE IF data = TooLong THEN Fails("FULL")
         ELSE IF dir < 0 THEN Fails("BADPATH")
         ELSE IF leaf \in BadLeaves THEN Fails("BADNAME")
         ELSE IF kid >= 0 /\ IsDir(kid) THEN Fails("BADPATH")
         ELSE IF kid < 0 /\ free_slots = {} THEN Fails("FULL")
         ELSE /\ IF kid < 0 THEN NewNode(dir, leaf, data)
                 ELSE nodes' = [nodes EXCEPT ![kid].data = data]
              /\ ret' = "OK" /\ UNCHANGED cwd
  /\ Unmoved

fs_chdir(path) ==
  /\ IF mounted THEN fat_call
     ELSE IF IsEmpty(path) THEN cwd' = 0 /\ ret' = "OK" /\ UNCHANGED nodes
     ELSE IF resolve_dir(path) < 0 THEN Fails("BADPATH")
     ELSE cwd' = resolve_dir(path) /\ ret' = "OK" /\ UNCHANGED nodes
  /\ Unmoved

\* The content, or an error.
fs_fread_ram(path) ==
  LET i == resolve(path) IN IF i < 0 \/ IsDir(i) THEN "BADPATH" ELSE nodes[i].data

\* fat_mount reads the boot sector; it takes over half of the geometry
\* before it looks whether it makes sense.
Mounts(idx) == parts[idx] \notin {"unreadable", "odd"}
fat_mount(idx) ==
  CASE parts[idx] = "unreadable" -> UNCHANGED fatvars
    [] parts[idx] = "odd" -> geometry' = idx /\ UNCHANGED <<is_mounted, volume>>
    [] OTHER -> is_mounted' = TRUE /\ geometry' = idx /\ volume' = idx

fs_mount_part(idx) ==
  /\ IF idx \in DOMAIN parts
       THEN /\ fat_mount(idx)
            /\ IF Mounts(idx)
                 THEN mounted' = TRUE /\ mounted_idx' = idx /\ ret' = "OK"
                 ELSE ret' = "BADPATH" /\ UNCHANGED <<mounted, mounted_idx>>
       ELSE ret' = "BADPATH" /\ UNCHANGED <<mounted, mounted_idx, fatvars>>
  /\ UNCHANGED <<ram, parts>>

\* Mutant: leaves the index of the partition.
fs_unmount_KeepIdx ==
  /\ mounted' = FALSE /\ is_mounted' = FALSE /\ ret' = "OK"
  /\ UNCHANGED <<ram, parts, mounted_idx, geometry, volume>>

fs_unmount ==
  /\ mounted' = FALSE /\ mounted_idx' = NoPart /\ is_mounted' = FALSE /\ ret' = "OK"
  /\ UNCHANGED <<ram, parts, geometry, volume>>
-----------------------------------------------------------------------------
\* part_scan keeps the entries whose type is not 0, in order; it finds none
\* if there is no disk or no MBR.
part_scan(mbr) == SelectSeq(mbr, LAMBDA e : e # "empty")

\* fs_init, and the statics of fs.c and fat.c.
Init ==
  /\ nodes = [i \in Ids |-> IF i = 0 THEN [Unused EXCEPT !.used = TRUE] ELSE Unused]
  /\ cwd = 0 /\ mounted = FALSE /\ mounted_idx = NoPart
  /\ parts \in {<<>>} \cup {part_scan(mbr) : mbr \in Mbrs}
  /\ is_mounted = FALSE /\ geometry = NoPart /\ volume = NoPart
  /\ ret = "OK"

Next ==
  \/ \E path \in Paths :
       \/ fs_mkdir(path)
       \/ \E data \in Contents \cup {TooLong} : fs_fwrite(path, data)
       \/ fs_chdir(path)
  \/ \E idx \in 0 .. PartMax + 1 : fs_mount_part(idx)
  \/ fs_unmount

Spec == Init /\ [][Next]_vars
-----------------------------------------------------------------------------
TypeOK ==
  /\ nodes \in [Ids -> [used : BOOLEAN, name : Names \cup {""}, parent : Ids \cup {-1},
                        data : Contents \cup {Dir}]]
  /\ cwd \in Ids
  /\ mounted \in BOOLEAN /\ is_mounted \in BOOLEAN
  /\ {mounted_idx, geometry, volume} \subseteq {NoPart} \cup DOMAIN parts

\* The nodes and cwd implement a tree of paths: each node has a path of its
\* own, every parent is a directory, nothing is lost, renamed or moved, and
\* the working directory exists, whatever mixture of relative paths, "..",
\* cut names and mounts led there.
Used == {i \in Ids : nodes[i].used}
TreeOf[at \in [Ids -> Seq(Names)]] ==
  [p \in {at[i] : i \in Used} |-> nodes[CHOOSE i \in Used : at[i] = p].data]
PathTree == TreeOf[[i \in Ids |-> IF nodes[i].used THEN PathOf[i] ELSE <<>>]]
Tree == INSTANCE FileTree WITH MaxSize <- FsMax, tree <- PathTree, wd <- fs_getcwd
ImplementsFileTree == Tree!Spec

\* What fs_getcwd prints leads back to the working directory.
CwdLeadsBack == resolve([abs |-> TRUE, comps |-> fs_getcwd]) = cwd

\* "unmount and back to ram file system" (README.md:98): the RAM files are
\* the same after any time with a partition mounted.
RamKept == [][mounted => UNCHANGED ram]_vars

\* The two mount flags agree, and the partition that is listed as mounted is
\* the one whose data area the file calls use.
MountAgrees ==
  /\ TypeOK
  /\ mounted = is_mounted /\ mounted = (mounted_idx # NoPart)
  /\ mounted => volume = mounted_idx

\* A path without a cut name that fs_mkdir or fs_fwrite has accepted leads,
\* in the same working directory, to what was made: the way split_parent
\* takes a path apart agrees with the way resolve follows it. (With a cut
\* name it does not: the node is named by the first 31 characters, and resolve
\* takes the rest for a component of its own.)
Leads(path, data) ==
  IF data = Dir THEN resolve_dir(path) >= 0 ELSE fs_fread_ram(path) = data
Made(path, data) == IF data = Dir THEN fs_mkdir(path) ELSE fs_fwrite(path, data)
Accepts == ret' = "OK" /\ ~mounted /\ nodes' # nodes
AcceptedLeads ==
  [][Accepts =>
       \A path \in {p \in Paths : LongName \notin ToSet(p.comps)}, data \in Contents \cup {Dir} :
         Made(path, data) => Leads(path, data)']_vars
-----------------------------------------------------------------------------
\* "moon partition o to the disk system" (README.md:97): with partition o
\* mounted, the calls use the geometry of partition o.
MountedGeometry == mounted => geometry = mounted_idx
=============================================================================
