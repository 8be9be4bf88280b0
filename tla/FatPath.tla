------------------------------ MODULE FatPath ------------------------------
(***************************************************************************)
(* Paths and names on a mounted FAT32 volume (kernel/fat.c): abspath and   *)
(* walk, the working directory of fat_chdir and fat_getcwd, the way        *)
(* fat_write takes a path apart and makes an 8.3 name of its last          *)
(* component, and the copy of the path the system calls make               *)
(* (kernel/syscall.c). Clusters are left to module Fat: here a directory   *)
(* or a file stands for its first cluster, and is known by the names on    *)
(* the disk that lead to it from the root directory.                       *)
(*                                                                         *)
(* A character string is a sequence of tokens, slashes and components, of  *)
(* which PathMax counts each as one character.                             *)
(***************************************************************************)
EXTENDS Integers, Sequences, FiniteSets, SequencesExt

CONSTANTS
  PathMax,   \* PATH_MAX
  CopyMax,   \* the path[128] that SYS_CHDIR and the others copy a path to
  Names,     \* components that are names: <<base, extension>>
  Dirs,      \* the directories of the volume, sequences of 8.3 names
  Contents,  \* what files are saved with
  Upper,     \* the upper-case form of a base or an extension
  Depth,     \* bound: components of a path
  MaxFiles   \* bound: files on the volume

VARIABLES
  cwd_path,  \* the string
  cwd_clus,  \* the directory it was found to be
  files,     \* the files of the volume: place -> content
  overrun    \* a terminator has been written behind a buffer of PathMax bytes

pathvars == <<cwd_path, cwd_clus, files, overrun>>

NoExt == "none"            \* no dot in the name
Slash == <<"/", NoExt>>
Nothing == <<"", NoExt>>   \* between two slashes
Dot == <<"", "">>
DotDot == <<"", ".">>
Long == "long"             \* a base over 8 characters, an extension over 3
TooLong == <<Long, Long>>  \* a component over 12 characters
Bad == << <<"-1", NoExt>> >>

\* The parts of names, of the disk's upper case too. No name has two dots,
\* and an entry has an extension, perhaps an empty one, of no dot.
Parts == DOMAIN Upper
ASSUME FatPathAssumption ==
  /\ PathMax \in Nat /\ PathMax > 1 /\ CopyMax \in Nat /\ Depth \in Nat /\ MaxFiles \in Nat
  /\ Upper \in [Parts -> Parts] /\ "" \in Parts
  /\ \A x \in Parts, y \in {"", ".", NoExt} : Upper[x] = y <=> x = y
  /\ Names \subseteq Parts \X (Parts \ {"."})
  /\ {Slash, Nothing, Dot, DotDot, TooLong} \cap Names = {}
  /\ Dirs \subseteq Seq(Parts \X (Parts \ {".", NoExt}))
  /\ <<>> \in Dirs /\ \A d \in Dirs \ {<<>>} : Front(d) \in Dirs

\* What the user may type: absolute or not, with doubled and final slashes.
Components == Names \cup {Nothing, Dot, DotDot, TooLong}
Paths == [abs : BOOLEAN, comps : BoundedSeq(Components, Depth)]
IsEmpty(path) == ~path.abs /\ path.comps = <<>>
-----------------------------------------------------------------------------
(* Names.                                                                  *)

\* to83: the 11 bytes of an entry for a typed name, or Bad.
to83(n) ==
  IF n[1] \in {"", Long} \/ n[2] = Long THEN Bad
  ELSE <<Upper[n[1]], IF n[2] = NoExt THEN "" ELSE Upper[n[2]]>>

\* entry_name, the printed form of an entry, and name_match, its comparison
\* with a typed name.
entry_name(e) == <<e[1], IF e[2] = "" THEN NoExt ELSE e[2]>>
name_match(disk, in) == disk = <<Upper[in[1]], Upper[in[2]]>>

\* The directories and files in directory d.
Entries(d) == {p \in Dirs \cup DOMAIN files : p # <<>> /\ Front(p) = d}
-----------------------------------------------------------------------------
(* abspath and walk.                                                       *)

\* Mutant: the slash that ends the string stays.
Up_Keep(out) ==
  LET keep == {n \in 1 .. Len(out) : n = 1 \/ out[n] = Slash}
  IN  SubSeq(out, 1, CHOOSE n \in keep : \A m \in keep : m <= n)

\* The "..": the last component goes, then the slash before it.
Up(out) ==
  LET keep == {n \in 1 .. Len(out) : n = 1 \/ out[n] = Slash}
      n == CHOOSE n \in keep : \A m \in keep : m <= n
  IN  SubSeq(out, 1, IF n > 1 THEN n - 1 ELSE 1)

Separated(out) == IF Len(out) > 1 THEN Append(out, Slash) ELSE out

\* A component behind what abspath has so far.
Joined(out, c) ==
  IF out = Bad \/ c = TooLong THEN Bad
  ELSE CASE c \in {Nothing, Dot} -> out
         [] c = DotDot -> Up(out)
         [] OTHER -> IF Len(Separated(out)) + 1 >= PathMax THEN Bad
                     ELSE Append(Separated(out), c)

\* The root, or the working directory with a slash behind it.
Origin(path) ==
  IF path.abs THEN <<Slash>>
  ELSE Separated(SubSeq(cwd_path, 1, IF Len(cwd_path) < PathMax THEN Len(cwd_path) ELSE PathMax - 1))

abspath(path) ==
  LET cs == path.comps
      out[k \in 0 .. Len(cs)] == IF k = 0 THEN Origin(path) ELSE Joined(out[k - 1], cs[k])
  IN  out[Len(cs)]

\* out[PATH_MAX] is written: by the slash before a name or by the terminator,
\* when the slash behind the working directory was the last byte of the buffer.
Overruns(path) ==
  LET cs == path.comps
  IN  /\ Len(Origin(path)) >= PathMax
      /\ \A k \in DOMAIN cs : \/ cs[k] \in Names \cup {Nothing, Dot}
                             \/ \E j \in 1 .. k - 1 : cs[j] \notin {Nothing, Dot}

\* The entry of directory d that a name means, or Bad.
Child(d, n) ==
  LET hits == {p \in Entries(d) : name_match(entry_name(Last(p)), n)}
  IN  IF d \notin Dirs \/ hits = {} THEN Bad ELSE CHOOSE p \in hits : TRUE

\* The place an absolute path leads to, or Bad. Only a directory may have
\* anything behind it.
walk(abs) ==
  LET at[k \in 0 .. Len(abs)] ==
        IF k = 0 THEN <<>> ELSE IF abs[k] = Slash THEN at[k - 1] ELSE Child(at[k - 1], abs[k])
      end == at[Len(abs)]
  IN  IF end \in DOMAIN files /\ Last(abs) = Slash THEN Bad ELSE end
-----------------------------------------------------------------------------
(* The calls.                                                              *)

Lead(abs) == IF abs = Bad THEN Bad ELSE walk(abs)
Resolved(path) == Lead(abspath(path))

\* cd without an argument goes to the root.
Target(path) == IF IsEmpty(path) THEN [path EXCEPT !.abs = TRUE] ELSE path

NewCwd(path) == abspath(path)

fat_chdir(path) ==
  LET t == Target(path)
  IN  /\ overrun' = (overrun \/ Overruns(t))
      /\ IF Resolved(t) \in Dirs THEN cwd_path' = NewCwd(t) /\ cwd_clus' = Resolved(t)
         ELSE UNCHANGED <<cwd_path, cwd_clus>>
      /\ UNCHANGED files

\* What "ls" lists: the cluster kept for an empty path, else what walk finds.
fat_list(path) ==
  LET d == IF IsEmpty(path) THEN cwd_clus ELSE Resolved(path)
  IN  IF abspath(path) = Bad \/ d \notin Dirs THEN {Bad} ELSE Entries(d)

fat_read(path) == IF Resolved(path) \in DOMAIN files THEN files[Resolved(path)] ELSE Bad

\* Both change nothing, but make the path absolute first.
fat_query(path) == overrun' = (overrun \/ Overruns(path)) /\ UNCHANGED <<cwd_path, cwd_clus, files>>

\* Mutant: the directory is the working directory whatever the path.
SaveDir_Cwd(abs, last) == cwd_clus

\* The path up to and with its last slash, and what is behind it.
SaveDir(abs, last) == walk(SubSeq(abs, 1, last))
Leaf(abs, last) == IF last = Len(abs) THEN Nothing ELSE abs[last + 1]

\* The place fat_write saves to, or Bad.
SavePlace(path) ==
  IF abspath(path) = Bad THEN Bad
  ELSE LET abs == abspath(path)
           last == CHOOSE i \in 1 .. Len(abs) :
                     abs[i] = Slash /\ \A j \in i + 1 .. Len(abs) : abs[j] # Slash
           dir == SaveDir(abs, last)
           name == to83(Leaf(abs, last))
       IN  IF dir \notin Dirs \/ name = Bad THEN Bad
           ELSE IF Append(dir, name) \in Dirs THEN Bad
           ELSE Append(dir, name)

\* lookup and the write of the file, which module Fat follows on the disk.
fat_write(path, v) ==
  LET p == SavePlace(path)
  IN  /\ overrun' = (overrun \/ Overruns(path))
      /\ IF p = Bad THEN UNCHANGED files
         ELSE /\ p \in DOMAIN files \/ Cardinality(DOMAIN files) < MaxFiles
              /\ files' = [q \in DOMAIN files \cup {p} |-> IF q = p THEN v ELSE files[q]]
      /\ UNCHANGED <<cwd_path, cwd_clus>>

\* The system calls. A path of CopyMax characters or more is refused.
CharsOf(path) ==
  LET n == Len(path.comps) IN (IF path.abs THEN 1 ELSE 0) + n + (IF n = 0 THEN 0 ELSE n - 1)
copy_str(path) == CharsOf(path) < CopyMax

SYS_CHDIR(path) == copy_str(path) /\ fat_chdir(path)
SYS_LISTDIR(path) == copy_str(path) /\ fat_query(path)
SYS_FREAD(path) == copy_str(path) /\ fat_query(path)
SYS_FWRITE(path, v) == copy_str(path) /\ fat_write(path, v)

\* fat_mount starts in the root directory.
AtRoot == cwd_path = <<Slash>> /\ cwd_clus = <<>>
fat_mount == cwd_path' = <<Slash>> /\ cwd_clus' = <<>> /\ UNCHANGED <<files, overrun>>

PathInit == AtRoot /\ files = [p \in {} |-> 0] /\ overrun = FALSE

PathNext ==
  /\ ~overrun                    \* what an overrun does is not followed
  /\ \/ \E path \in Paths :
          \/ SYS_CHDIR(path) \/ SYS_LISTDIR(path) \/ SYS_FREAD(path)
          \/ \E v \in Contents : SYS_FWRITE(path, v)
     \/ fat_mount

PathSpec == PathInit /\ [][PathNext]_pathvars
-----------------------------------------------------------------------------
PathTypeOK ==
  /\ cwd_path \in Seq(Names \cup {Slash}) /\ Len(cwd_path) <= PathMax
  /\ cwd_clus \in Dirs
  /\ DOMAIN files \cap Dirs = {} /\ \A p \in DOMAIN files : Front(p) \in Dirs

\* What a path means, component by component. A name that ends in a dot
\* means one that no entry can have.
EntryOf(c) ==
  <<Upper[c[1]], CASE c[2] = NoExt -> "" [] c[2] = "" -> "." [] OTHER -> Upper[c[2]]>>
Denoted(d, c) ==
  CASE c \in {Nothing, Dot} -> d
    [] c = DotDot -> IF d = <<>> THEN <<>> ELSE Front(d)
    [] OTHER -> Append(d, EntryOf(c))
Meant(path) ==
  LET cs == path.comps
      at[k \in 0 .. Len(cs)] ==
        IF k = 0 THEN (IF path.abs THEN <<>> ELSE cwd_clus) ELSE Denoted(at[k - 1], cs[k])
  IN  IF at[Len(cs)] \in Dirs \cup DOMAIN files THEN at[Len(cs)] ELSE Bad

\* The path never climbs above the working directory.
CountOf(cs, n, T) == Cardinality({k \in 1 .. n : cs[k] \in T})
Inside(path) ==
  \/ path.abs \/ cwd_clus = <<>>
  \/ \A n \in DOMAIN path.comps :
       CountOf(path.comps, n, {DotDot}) <= CountOf(path.comps, n, Names)

\* abspath and walk lead where the path means to lead, from any working
\* directory and however many slashes its string has gathered, for every path
\* that abspath does not refuse and that does not climb above the working
\* directory. (Relative to "/a", ".." is made "/a": the ".." only takes away
\* the slash that abspath has put behind the working directory.)
ResolvesInside ==
  ~overrun => \A path \in Paths :
                copy_str(path) /\ Inside(path) =>
                  LET abs == abspath(path) IN abs # Bad => walk(abs) = Meant(path)

\* The string of the prompt leads to the directory that "ls" lists, and
\* "ls" and "ls ." list the same.
CwdAgrees ==
  ~overrun => /\ walk(cwd_path) = cwd_clus
              /\ LET here == [abs |-> FALSE, comps |-> <<Dot>>]
                 IN  fat_list(here) = fat_list([here EXCEPT !.comps = <<>>])

\* Where fat_write saves a path, fat_read finds it: the way fat_write splits
\* a path and makes an 8.3 name agrees with the way walk follows it and
\* compares names, also where ".." leads elsewhere than it should. (Not so a
\* name that ends in a dot: it is saved without the dot and not found again.)
SavedIsFound ==
  ~overrun => \A path \in Paths :
                LET p == SavePlace(path)
                IN  copy_str(path) /\ p \in DOMAIN files /\ Last(abspath(path))[2] # "" =>
                      Resolved(path) = p
=============================================================================
