-------------------------------- MODULE Ide --------------------------------
(***************************************************************************)
(* The disk driver of drivers/ide/ide.c, poll by poll, and the disk it     *)
(* talks to. The disk is external: it works on a command for as long as it *)
(* likes (BSY), then offers or asks for a sector (DRQ) or reports an error *)
(* (ERR), and ignores a command it gets in the meantime, as the emulated   *)
(* disk of the Makefile's qemu does.                                       *)
(***************************************************************************)
EXTENDS Integers, FiniteSets

CONSTANTS
  PollMax,   \* the timeout of wait_clear and wait_set
  Total,     \* sectors of the disk
  Data,      \* contents of a sector
  NoData     \* what is read from the data port when nothing is offered

VARIABLES
  present,   \* ide_init has found a disk
  pc, call, lba, buf, t,   \* the call under way, its arguments, the timeout
  ret,       \* the result of the last call
  bsy, drq, err, task,     \* the disk: status, and the command it is at
  port,      \* the sector at its data port
  sectors,   \* its contents
  kept,      \* history: what the calls so far allow a sector to hold
  upset      \* history: a call gave up on a busy disk, or a write failed

driver == <<present, pc, call, lba, buf, t, ret>>
disk == <<bsy, drq, err, task, port, sectors>>
idevars == <<driver, disk, kept, upset>>

Lbas == 0 .. Total - 1
Idle == [cmd |-> "none", lba |-> 0]

ASSUME IdeAssumption == PollMax \in Nat /\ Total \in Nat \ {0} /\ NoData \notin Data
-----------------------------------------------------------------------------
(* The disk.                                                               *)

\* A command written to REG_CMD with the address in the other registers.
Command(cmd) ==
  IF bsy \/ drq THEN UNCHANGED disk
  ELSE /\ bsy' = TRUE /\ err' = FALSE /\ task' = [cmd |-> cmd, lba |-> lba]
       /\ UNCHANGED <<drq, port, sectors>>

\* It is done with the first part of its task, well or badly; a written
\* sector reaches the medium.
Finish ==
  /\ bsy /\ bsy' = FALSE
  /\ \/ /\ task.cmd \in {"read", "write", "identify"} /\ drq' = TRUE
        /\ port' = IF task.cmd = "read" THEN sectors[task.lba] ELSE NoData
        /\ UNCHANGED <<err, task, sectors, upset>>
     \/ /\ task.cmd = "commit" /\ sectors' = [sectors EXCEPT ![task.lba] = port]
        /\ task' = Idle /\ UNCHANGED <<drq, err, port, upset>>
     \/ /\ task.cmd = "flush" /\ task' = Idle /\ UNCHANGED <<drq, err, port, sectors, upset>>
     \/ /\ err' = TRUE /\ task' = Idle /\ upset' = (upset \/ task.cmd = "commit")
        /\ UNCHANGED <<drq, port, sectors>>
  /\ UNCHANGED <<driver, kept>>

\* 256 words are read from the data port, or written to it.
ReadPort ==
  /\ buf' = IF drq /\ task.cmd \in {"read", "identify"} THEN port ELSE NoData
  /\ IF drq /\ task.cmd \in {"read", "identify"}
       THEN drq' = FALSE /\ task' = Idle /\ UNCHANGED <<bsy, err, port, sectors>>
       ELSE UNCHANGED disk
WritePort(v) ==
  IF drq /\ task.cmd = "write"
    THEN /\ drq' = FALSE /\ bsy' = TRUE /\ port' = v /\ task' = [task EXCEPT !.cmd = "commit"]
         /\ UNCHANGED <<err, sectors>>
    ELSE UNCHANGED disk
-----------------------------------------------------------------------------
(* The driver. "clear" and "set" are the loops of wait_clear(ST_BSY) and   *)
(* wait_set(ST_DRQ); the number says which use of it.                      *)

Goes(label) == pc' = label /\ t' = PollMax

Returns(r) ==
  /\ pc' = "idle" /\ ret' = r /\ t' = PollMax
  /\ kept' = IF call # "write" THEN kept
             ELSE [kept EXCEPT ![lba] = {buf} \cup IF r = 0 THEN {} ELSE @]
  /\ upset' = (upset \/ (r # 0 /\ (bsy \/ drq)))

\* What the loops return: the answer at the last poll comes too late.
TimedOut(left) == left <= 0

\* Mutant: polls for ever.
Counted_Not(left) == left

Counted(left) == left - 1

Poll(label, answered, next) ==
  /\ pc = label
  /\ IF ~answered /\ t > 0 THEN t' = Counted(t) /\ UNCHANGED <<pc, ret, kept, upset>>
     ELSE IF TimedOut(IF answered THEN t ELSE -1) THEN Returns(-1)
     ELSE Goes(next) /\ UNCHANGED <<ret, kept, upset>>
  /\ UNCHANGED <<present, call, lba, buf, disk>>

\* ide_init: IDENTIFY is sent without a look at BSY, and ERR is looked at.
ide_init ==
  /\ pc = "boot" /\ Command("identify") /\ Goes("clear2")
  /\ UNCHANGED <<present, call, lba, buf, ret, kept, upset>>

\* There is no disk, or one without 48-bit addresses.
ide_init_none ==
  /\ pc = "boot" /\ pc' = "idle" /\ ret' = -1
  /\ UNCHANGED <<present, call, lba, buf, t, disk, kept, upset>>

\* A call of ide_read or ide_write.
Begin(c, l, v) ==
  /\ pc = "idle" /\ call' = c /\ lba' = l /\ buf' = v
  /\ IF present /\ l < Total THEN Goes("clear1") /\ UNCHANGED <<ret, present>>
     ELSE pc' = "idle" /\ ret' = -1 /\ UNCHANGED <<t, present>>
  /\ UNCHANGED <<disk, kept, upset>>
ide_read(l) == Begin("read", l, NoData)
ide_write(l, v) == Begin("write", l, v)

Send ==
  /\ pc = "command" /\ Command(call) /\ Goes("clear2")
  /\ UNCHANGED <<present, call, lba, buf, ret, kept, upset>>

\* Mutant: the flush is not waited for.
Flushing_Not == "done"

Flushing == "flush"

Transfer ==
  /\ pc = "data"
  /\ IF call = "write" THEN WritePort(buf) /\ Goes(Flushing) /\ UNCHANGED buf
     ELSE ReadPort /\ Goes("done")
  /\ UNCHANGED <<present, call, lba, ret, kept, upset>>

\* FLUSH is sent right behind the data, while the disk may be writing it.
Flush ==
  /\ pc = "flush" /\ Command("flush") /\ Goes("clear3")
  /\ UNCHANGED <<present, call, lba, buf, ret, kept, upset>>

Done ==
  /\ pc = "done" /\ Returns(0)
  /\ present' = (present \/ call = "init") /\ UNCHANGED <<call, lba, buf, disk>>

\* ide_init gives up on an error of IDENTIFY; the others do not look.
Checked ==
  /\ pc = "check"
  /\ IF call = "init" /\ err THEN Returns(-1) ELSE Goes("set") /\ UNCHANGED <<ret, kept, upset>>
  /\ UNCHANGED <<present, call, lba, buf, disk>>

Driver ==
  \/ ide_init \/ ide_init_none \/ Send \/ Transfer \/ Flush \/ Checked \/ Done
  \/ Poll("clear1", ~bsy, "command") \/ Poll("clear2", ~bsy, "check")
  \/ Poll("set", drq, "data") \/ Poll("clear3", ~bsy, "done")

IdeInit ==
  /\ present = FALSE /\ pc = "boot" /\ call = "init" /\ lba = 0 /\ buf = NoData
  /\ t = PollMax /\ ret = 0
  /\ bsy = FALSE /\ drq = FALSE /\ err = FALSE /\ task = Idle /\ port = NoData
  /\ sectors \in [Lbas -> {CHOOSE v \in Data : TRUE}]
  /\ kept = [l \in Lbas |-> {sectors[l]}] /\ upset = FALSE

IdeNext ==
  \/ Driver \/ Finish
  \/ \E l \in 0 .. Total : ide_read(l) \/ \E v \in Data : ide_write(l, v)

\* The processor goes on with a call; the disk need never answer.
IdeSpec == IdeInit /\ [][IdeNext]_idevars /\ WF_idevars(Driver)
-----------------------------------------------------------------------------
\* "512B, 0 ok" (ide.h:6-7): a read that returned 0 has read the sector asked
\* for, and a sector holds what the last write to it that returned 0 has
\* written or what a later one that failed wanted to write, also after reads
\* that failed and calls that ran out of time on an idle disk. (Not so once a
\* call has given up on a busy disk: the next command is ignored, and the next
\* call gets the sector of the earlier one, or writes its own data there. Nor
\* after an error in writing, which ide_write does not look for.)
DiskAnswers ==
  pc = "idle" /\ ~upset =>
    /\ \A l \in Lbas : sectors[l] \in kept[l]
    /\ call = "read" /\ ret = 0 => buf = sectors[lba]
=============================================================================
