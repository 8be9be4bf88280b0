------------------------------ MODULE FileTree -----------------------------
(***************************************************************************)
(* What the RAM file system promises: a tree of directories and files,     *)
(* named by absolute paths, in which nothing disappears and at most MaxSize*)
(* things exist, and a working directory that is one of its directories.   *)
(***************************************************************************)
EXTENDS Integers, Sequences, FiniteSets, SequencesExt

CONSTANTS Names, Contents, Dir, MaxSize

VARIABLES
  tree,   \* path -> Dir or the content of the file
  wd      \* the path of the working directory

Init == tree = [p \in {<<>>} |-> Dir] /\ wd = <<>>

Put(p, v) == tree' = [q \in DOMAIN tree \cup {p} |-> IF q = p THEN v ELSE tree[q]]
CanHold(p) == p \in DOMAIN tree /\ tree[p] = Dir

MakeDir(p, n) ==
  /\ CanHold(p) /\ Append(p, n) \notin DOMAIN tree
  /\ Cardinality(DOMAIN tree) < MaxSize
  /\ Put(Append(p, n), Dir) /\ UNCHANGED wd

WriteFile(p, n, v) ==
  /\ CanHold(p)
  /\ IF Append(p, n) \in DOMAIN tree THEN tree[Append(p, n)] # Dir
     ELSE Cardinality(DOMAIN tree) < MaxSize
  /\ Put(Append(p, n), v) /\ UNCHANGED wd

ChangeDir(p) == CanHold(p) /\ wd' = p /\ UNCHANGED tree

Next ==
  \E p \in DOMAIN tree :
    \/ ChangeDir(p)
    \/ \E n \in Names : MakeDir(p, n) \/ \E v \in Contents : WriteFile(p, n, v)

Spec == Init /\ [][Next]_<<tree, wd>>
=============================================================================
