------------------------------ MODULE BufCache ------------------------------
(***************************************************************************)
(* The block buffer cache of the kernel: v10/sys/io/bio.c, with the        *)
(* callers that decide how its buffers are used (fsread and fswrite,       *)
(* closei, fson and fsoff).                                                *)
(*                                                                         *)
(* A process keeps the CPU until it sleeps, so what bio.c does between     *)
(* two calls of sleep is one step, split only where a disk interrupt       *)
(* (Iodone) can change what the process has already looked at: getblk      *)
(* walks the hash chain at spl0 and tests B_BUSY at spl6.  While a         *)
(* process is in that window no other process runs.                        *)
(*                                                                         *)
(* Left out: the order of the free lists (getblk may take any reusable     *)
(* buffer), B_AGE, magtapes, byte counts and monitoring.                   *)
(***************************************************************************)
EXTENDS Naturals

CONSTANTS Procs, Bufs, Values,
          Blocks,       \* the blocks of one device
          Super,        \* its super block, SUPERB
          Ops,          \* the kinds of operation processes may begin
          MaxOps,       \* bound: operations begun in a behaviour
          IOErrors,     \* the disk may report errors
          Faults,       \* iomove may fail half way
          NoBlock,      \* NODEV
          NoBuf, NoChan, NoValue,
          FreeList      \* the channel of processes waiting for any buffer

AllOps == {"read", "readahead", "update", "overwrite", "empty",
           "sync", "close", "mount", "umount"}

ASSUME ConstantsOK ==
  /\ Super \in Blocks /\ NoBlock \notin Blocks
  /\ NoBuf \notin Bufs /\ NoChan \notin Bufs /\ FreeList \notin Bufs
  /\ FreeList # NoChan
  /\ NoValue \notin Values
  /\ Ops \subseteq AllOps
  /\ MaxOps \in Nat
  /\ IOErrors \in BOOLEAN /\ Faults \in BOOLEAN

VARIABLES
  flags,      \* b_flags of each buffer
  bno,        \* b_dev and b_blkno: the block the buffer is associated with
  avail,      \* the free list the buffer is on: "none", "locked", "reusable"
  data,       \* b_un: the buffer's contents
  io,         \* the transfer the driver has queued: "none", "read", "write"
  disk,       \* the blocks on the device
  freeWanted, \* B_WANTED of bfreelist[0]
  super,      \* i_bufp of the mounted root: the pinned buffer, or NoBuf
  pc,         \* where each process is
  req,        \* the operation it performs
  want,       \* the block getblk looks for; NoBlock in geteblk
  cand,       \* getblk's bp between the hash walk and the test of B_BUSY
  bp,         \* the buffer the process owns
  chan,       \* p_wchan
  ops,        \* operations begun
  panic       \* why the kernel has stopped, or "none"

bufVars  == <<flags, bno, avail, data, io, disk, freeWanted, super>>
procVars == <<pc, req, want, cand, bp, chan, ops>>
vars     == <<bufVars, procVars, panic>>

Flags == {"BUSY", "WANTED", "DONE", "ERROR", "DELWRI", "ASYNC", "READ",
          "INVAL", "LOCKED"}
Panics == {"none", "no device", "umount", "dup iodone"}
PCs   == {"idle", "scan", "test", "iowait", "hold", "dirty", "wrwait",
          "ahead", "fail", "mounting"}
Requests == [op : AllOps \cup {"none"}, blk : Blocks \cup {NoBlock},
             ra : Blocks \cup {NoBlock}]
NoReq == [op |-> "none", blk |-> NoBlock, ra |-> NoBlock]

\* Every variable has its type.
TypeOK ==
  /\ flags \in [Bufs -> SUBSET Flags]
  /\ bno   \in [Bufs -> Blocks \cup {NoBlock}]
  /\ avail \in [Bufs -> {"none", "locked", "reusable"}]
  /\ data  \in [Bufs -> Values]
  /\ io    \in [Bufs -> {"none", "read", "write"}]
  /\ disk  \in [Blocks -> Values]
  /\ freeWanted \in BOOLEAN
  /\ super \in Bufs \cup {NoBuf}
  /\ pc    \in [Procs -> PCs]
  /\ req   \in [Procs -> Requests]
  /\ want  \in [Procs -> Blocks \cup {NoBlock}]
  /\ cand  \in [Procs -> Bufs \cup {NoBuf}]
  /\ bp    \in [Procs -> Bufs \cup {NoBuf}]
  /\ chan  \in [Procs -> Bufs \cup {NoChan, FreeList}]
  /\ ops   \in 0..MaxOps
  /\ panic \in Panics

Init ==
  /\ flags = [b \in Bufs |-> {"INVAL"}]
  /\ bno = [b \in Bufs |-> NoBlock]
  /\ avail = [b \in Bufs |-> "reusable"]
  /\ \E v \in Values : data = [b \in Bufs |-> v]
  /\ io = [b \in Bufs |-> "none"]
  /\ \E v \in Values : disk = [b \in Blocks |-> v]
  /\ freeWanted = FALSE
  /\ super = NoBuf
  /\ pc = [p \in Procs |-> "idle"]
  /\ req = [p \in Procs |-> NoReq]
  /\ want = [p \in Procs |-> NoBlock]
  /\ cand = [p \in Procs |-> NoBuf]
  /\ bp = [p \in Procs |-> NoBuf]
  /\ chan = [p \in Procs |-> NoChan]
  /\ ops = 0
  /\ panic = "none"

-----------------------------------------------------------------------------
\* Buffers associated with block w, as getblk and incore find them.
Hit(w) == {b \in Bufs : w # NoBlock /\ bno[b] = w /\ "INVAL" \notin flags[b]}

Reusable == {b \in Bufs : avail[b] = "reusable"}

\* Written when it leaves the free list (B_DELWRI).
DelayedWrites == {b \in Bufs : avail[b] # "none" /\ "DELWRI" \in flags[b]}

\* Mutant: bwrite leaves B_DONE set.
WriteFlags_Done(f) == f \ {"READ", "ERROR", "DELWRI"}

\* Flags of a buffer that bwrite hands to the driver.
WriteFlags(f) == f \ {"READ", "DONE", "ERROR", "DELWRI"}

\* p may run: it is not asleep, and no other process holds the CPU.
Running(p) ==
  /\ panic = "none"
  /\ chan[p] = NoChan
  /\ \A q \in Procs \ {p} : pc[q] \notin {"test", "ahead"}

Goto(p, place) == pc' = [pc EXCEPT ![p] = place]
Sleep(p, c)    == chan' = [chan EXCEPT ![p] = c]
Bwakeup(c)     == [q \in Procs |-> IF chan[q] = c THEN NoChan ELSE chan[q]]

\* The operation of p is over.
Return(p) ==
  /\ pc' = [pc EXCEPT ![p] = "idle"]
  /\ req' = [req EXCEPT ![p] = NoReq]
  /\ want' = [want EXCEPT ![p] = NoBlock]
  /\ cand' = [cand EXCEPT ![p] = NoBuf]
  /\ bp' = [bp EXCEPT ![p] = NoBuf]

\* d_strategy: buffer b, with flags f, is the driver's.
Strategy(b, f, dir) ==
  /\ flags' = [flags EXCEPT ![b] = f]
  /\ io' = [io EXCEPT ![b] = dir]
  /\ avail' = [avail EXCEPT ![b] = "none"]

\* bdevsw has no entry for NODEV: the kernel jumps through rubbish.
PanicAt(w) == IF w = NoBlock THEN "no device" ELSE "none"

\* The panics of fsoff, before brelse or before bwrite, of bflush and iodone.
PanicUmount(b) == IF b # super THEN "umount" ELSE "none"
PanicUnpin(b)  == IF b # super THEN "umount" ELSE PanicAt(bno[b])
PanicFlush(S)  == IF \E b \in S : bno[b] = NoBlock THEN "no device" ELSE "none"
PanicIodone(b) == IF "DONE" \in flags[b] THEN "dup iodone" ELSE "none"

\* Mutant: brelse does not wake those who wait for any buffer.
Brelse_NoFreeWakeup(b, f) ==
  LET lost == "ERROR" \in f /\ "LOCKED" \notin f
      kept == IF lost THEN f ELSE f \ {"ERROR"}
  IN
  /\ flags' = [flags EXCEPT ![b] = kept \ {"WANTED", "BUSY", "ASYNC"}]
  /\ bno' = IF lost THEN [bno EXCEPT ![b] = NoBlock] ELSE bno
  /\ avail' = [avail EXCEPT ![b] = IF "LOCKED" \in f /\ "INVAL" \notin f
                                   THEN "locked" ELSE "reusable"]
  /\ chan' = IF "WANTED" \in f THEN Bwakeup(b) ELSE chan
  /\ UNCHANGED freeWanted

\* brelse of a buffer whose flags are f: an error dissociates it from its
\* block unless it is locked.
Brelse(b, f) ==
  LET lost == "ERROR" \in f /\ "LOCKED" \notin f
      kept == IF lost THEN f ELSE f \ {"ERROR"}
  IN
  /\ flags' = [flags EXCEPT ![b] = kept \ {"WANTED", "BUSY", "ASYNC"}]
  /\ bno' = IF lost THEN [bno EXCEPT ![b] = NoBlock] ELSE bno
  /\ avail' = [avail EXCEPT ![b] = IF "LOCKED" \in f /\ "INVAL" \notin f
                                   THEN "locked" ELSE "reusable"]
  /\ chan' = [q \in Procs |-> IF \/ "WANTED" \in f /\ chan[q] = b
                                 \/ freeWanted /\ chan[q] = FreeList
                              THEN NoChan ELSE chan[q]]
  /\ freeWanted' = FALSE

-----------------------------------------------------------------------------
(***************************************************************************)
(* bread, breada, getblk and geteblk.                                      *)
(***************************************************************************)

\* fson and fsoff exclude each other (m_dev, and the lock on the root).
NoMount == \A q \in Procs : req[q].op \notin {"mount", "umount"}

\* The block is in core for breada, which then turns to the block ahead.
SkipsFirst(name, b) == name = "readahead" /\ Hit(b) # {}

\* p begins an operation on block b; a "readahead" also names the next block.
Begin(p, name, b, r) ==
  /\ Running(p) /\ pc[p] = "idle" /\ ops < MaxOps
  /\ name \in Ops \ {"sync", "close", "umount"}
  /\ name = "mount" => (NoMount /\ super = NoBuf /\ b = Super)
  /\ b = NoBlock <=> name = "empty"
  /\ r # NoBlock <=> name = "readahead"
  /\ r = NoBlock \/ r # b
  /\ ops' = ops + 1
  /\ req' = [req EXCEPT ![p] = [op |-> name, blk |-> b, ra |-> r]]
  /\ want' = [want EXCEPT ![p] = b]
  /\ Goto(p, IF SkipsFirst(name, b) THEN "ahead" ELSE "scan")
  /\ UNCHANGED <<bufVars, cand, bp, chan, panic>>

\* getblk walks the hash chain, at spl0, and finds the block.
Walk(p) ==
  /\ Running(p) /\ pc[p] = "scan"
  /\ \E b \in Hit(want[p]) : cand' = [cand EXCEPT ![p] = b]
  /\ Goto(p, "test")
  /\ UNCHANGED <<bufVars, req, want, bp, chan, ops, panic>>

\* The block is in no buffer, and no buffer can be had.
WaitFree(p) ==
  /\ Running(p) /\ pc[p] = "scan"
  /\ Hit(want[p]) = {} /\ Reusable = {}
  /\ freeWanted' = TRUE
  /\ Sleep(p, FreeList)
  /\ UNCHANGED <<flags, bno, avail, data, io, disk, super,
                 pc, req, want, cand, bp, ops, panic>>

\* The buffer to be reassigned holds a delayed write: start it, look again.
WriteVictim(p, v) ==
  /\ Running(p) /\ pc[p] = "scan"
  /\ Hit(want[p]) = {} /\ v \in Reusable /\ "DELWRI" \in flags[v]
  /\ Strategy(v, WriteFlags(flags[v]) \cup {"BUSY", "ASYNC"}, "write")
  /\ panic' = PanicAt(bno[v])
  /\ UNCHANGED <<bno, data, disk, freeWanted, super, procVars>>

\* The rest of breada, once the block ahead needs no more care.
AfterAhead(p) ==
  IF bp[p] = NoBuf
  THEN /\ req' = [req EXCEPT ![p] = [op |-> "read", blk |-> req[p].blk,
                                       ra |-> NoBlock]]
       /\ want' = [want EXCEPT ![p] = req[p].blk]
       /\ Goto(p, "scan")
  ELSE /\ Goto(p, "iowait")
       /\ UNCHANGED <<req, want>>

\* p looks for the block ahead, not for the block it is to return.
LooksAhead(p) == req[p].op = "readahead" /\ want[p] = req[p].ra

\* getblk gives buffer b, its flags now f, for block w, to p; its caller goes on.
ClaimAhead(p, b, f, w) ==
  /\ LooksAhead(p)
  /\ IF "DONE" \in f
     THEN Brelse(b, f) /\ UNCHANGED <<io, panic>>
     ELSE /\ Strategy(b, f \cup {"READ", "ASYNC"}, "read")
          /\ bno' = [bno EXCEPT ![b] = w]
          /\ panic' = PanicAt(w)
          /\ UNCHANGED <<chan, freeWanted>>
  /\ AfterAhead(p)
  /\ UNCHANGED bp

ClaimRead(p, b, f, w) ==
  /\ ~LooksAhead(p) /\ req[p].op \in {"read", "readahead", "update", "mount"}
  /\ IF "DONE" \in f
     THEN /\ flags' = [flags EXCEPT ![b] = f]
          /\ avail' = [avail EXCEPT ![b] = "none"]
          /\ UNCHANGED <<io, panic>>
     ELSE /\ Strategy(b, f \cup {"READ"}, "read")
          /\ panic' = PanicAt(w)
  /\ bno' = [bno EXCEPT ![b] = w]
  /\ Goto(p, IF req[p].op = "readahead" THEN "ahead"
             ELSE IF "DONE" \in f THEN "hold" ELSE "iowait")
  /\ bp' = [bp EXCEPT ![p] = b]
  /\ UNCHANGED <<req, want, chan, freeWanted>>

ClaimWhole(p, b, f, w) ==
  /\ req[p].op \in {"overwrite", "empty", "umount"}
  /\ flags' = [flags EXCEPT ![b] = f]
  /\ avail' = [avail EXCEPT ![b] = "none"]
  /\ bno' = [bno EXCEPT ![b] = w]
  /\ Goto(p, "hold")
  /\ bp' = [bp EXCEPT ![p] = b]
  /\ UNCHANGED <<io, panic, req, want, chan, freeWanted>>

Claim(p, b, f, w) ==
  ClaimAhead(p, b, f, w) \/ ClaimRead(p, b, f, w) \/ ClaimWhole(p, b, f, w)

\* Mutant: after a sleep getblk does not search the hash chain again.
Reassign_NoSearch(p, v) ==
  /\ Running(p) /\ pc[p] = "scan"
  /\ v \in Reusable /\ "DELWRI" \notin flags[v]
  /\ Claim(p, v, IF want[p] = NoBlock THEN {"BUSY", "INVAL"} ELSE {"BUSY"},
           want[p])
  /\ UNCHANGED <<data, disk, super, cand, ops>>

\* Mutant: a delayed write is forgotten when its buffer is reassigned.
Reassign_Dirty(p, v) ==
  /\ Running(p) /\ pc[p] = "scan"
  /\ Hit(want[p]) = {} /\ v \in Reusable
  /\ Claim(p, v, IF want[p] = NoBlock THEN {"BUSY", "INVAL"} ELSE {"BUSY"},
           want[p])
  /\ UNCHANGED <<data, disk, super, cand, ops>>

\* The oldest clean buffer is reassigned; geteblk's has no block.
Reassign(p, v) ==
  /\ Running(p) /\ pc[p] = "scan"
  /\ Hit(want[p]) = {} /\ v \in Reusable /\ "DELWRI" \notin flags[v]
  /\ Claim(p, v, IF want[p] = NoBlock THEN {"BUSY", "INVAL"} ELSE {"BUSY"},
           want[p])
  /\ UNCHANGED <<data, disk, super, cand, ops>>

\* Mutant: getblk sleeps on a busy buffer without B_WANTED.
WaitBusy_NotWanted(p) ==
  /\ Running(p) /\ pc[p] = "test" /\ "BUSY" \in flags[cand[p]]
  /\ Sleep(p, cand[p])
  /\ Goto(p, "scan")
  /\ cand' = [cand EXCEPT ![p] = NoBuf]
  /\ UNCHANGED <<bufVars, req, want, bp, ops, panic>>

\* At spl6: the buffer found is busy, wait for it and start again.
WaitBusy(p) ==
  /\ Running(p) /\ pc[p] = "test" /\ "BUSY" \in flags[cand[p]]
  /\ flags' = [flags EXCEPT ![cand[p]] = @ \cup {"WANTED"}]
  /\ Sleep(p, cand[p])
  /\ Goto(p, "scan")
  /\ cand' = [cand EXCEPT ![p] = NoBuf]
  /\ UNCHANGED <<bno, avail, data, io, disk, freeWanted, super,
                 req, want, bp, ops, panic>>

\* Mutant: the buffer found is taken, busy or not.
TakeFound_Busy(p) ==
  /\ Running(p) /\ pc[p] = "test"
  /\ Claim(p, cand[p], flags[cand[p]] \cup {"BUSY"}, bno[cand[p]])
  /\ cand' = [cand EXCEPT ![p] = NoBuf]
  /\ UNCHANGED <<data, disk, super, ops>>

\* At spl6: the buffer found is free, take it.
TakeFound(p) ==
  /\ Running(p) /\ pc[p] = "test" /\ "BUSY" \notin flags[cand[p]]
  /\ Claim(p, cand[p], flags[cand[p]] \cup {"BUSY"}, bno[cand[p]])
  /\ cand' = [cand EXCEPT ![p] = NoBuf]
  /\ UNCHANGED <<data, disk, super, ops>>

\* breada, on a block ahead that is in core already or is not.
Ahead(p) ==
  /\ Running(p) /\ pc[p] = "ahead"
  /\ IF Hit(req[p].ra) = {}
     THEN /\ want' = [want EXCEPT ![p] = req[p].ra]
          /\ Goto(p, "scan")
          /\ UNCHANGED req
     ELSE AfterAhead(p)
  /\ UNCHANGED <<bufVars, cand, bp, chan, ops, panic>>

\* Mutant: iowait sleeps on the wrong channel.
SleepIo_Channel(p) ==
  /\ Running(p) /\ pc[p] \in {"iowait", "wrwait"}
  /\ "DONE" \notin flags[bp[p]]
  /\ Sleep(p, cand[p])
  /\ UNCHANGED <<bufVars, pc, req, want, cand, bp, ops, panic>>

\* iowait: sleep until the transfer is done, then look at B_ERROR.
SleepIo(p) ==
  /\ Running(p) /\ pc[p] \in {"iowait", "wrwait"}
  /\ "DONE" \notin flags[bp[p]]
  /\ Sleep(p, bp[p])
  /\ UNCHANGED <<bufVars, pc, req, want, cand, bp, ops, panic>>

ReadDone(p) ==
  /\ Running(p) /\ pc[p] = "iowait" /\ "DONE" \in flags[bp[p]]
  /\ Goto(p, IF "ERROR" \in flags[bp[p]] THEN "fail" ELSE "hold")
  /\ UNCHANGED <<bufVars, req, want, cand, bp, chan, ops, panic>>

-----------------------------------------------------------------------------
(***************************************************************************)
(* What the callers do with the buffer they own.                           *)
(***************************************************************************)

\* fsread has copied the block out, or the caller saw u_error: brelse.
Release(p) ==
  /\ Running(p)
  /\ \/ pc[p] = "hold" /\ req[p].op \in {"read", "readahead", "empty"}
     \/ pc[p] = "fail"
  /\ Brelse(bp[p], flags[bp[p]])
  /\ Return(p)
  /\ UNCHANGED <<data, io, disk, super, ops, panic>>

\* fswrite's iomove changes the buffer; a page fault may put p to sleep.
Fill(p) ==
  /\ Running(p) /\ pc[p] = "hold" /\ req[p].op \in {"update", "overwrite"}
  /\ \E v \in Values : data' = [data EXCEPT ![bp[p]] = v]
  /\ Goto(p, "dirty")
  /\ UNCHANGED <<flags, bno, avail, io, disk, freeWanted, super,
                 req, want, cand, bp, chan, ops, panic>>

\* fswrite saw iomove fail: the buffer is released as it is.
Fault(p) ==
  /\ Running(p) /\ pc[p] = "dirty" /\ Faults
  /\ Brelse(bp[p], flags[bp[p]])
  /\ Return(p)
  /\ UNCHANGED <<data, io, disk, super, ops, panic>>

Bwrite(p) ==
  /\ Running(p) /\ pc[p] = "dirty"
  /\ Strategy(bp[p], WriteFlags(flags[bp[p]]), "write")
  /\ panic' = PanicAt(bno[bp[p]])
  /\ Goto(p, "wrwait")
  /\ UNCHANGED <<bno, data, disk, freeWanted, super, req, want, cand, bp, chan, ops>>

Bawrite(p) ==
  /\ Running(p) /\ pc[p] = "dirty"
  /\ Strategy(bp[p], WriteFlags(flags[bp[p]]) \cup {"ASYNC"}, "write")
  /\ panic' = PanicAt(bno[bp[p]])
  /\ Return(p)
  /\ UNCHANGED <<bno, data, disk, freeWanted, super, chan, ops>>

\* Mutant: bdwrite does not set B_DELWRI.
Bdwrite_Forgets(p) ==
  /\ Running(p) /\ pc[p] = "dirty"
  /\ Brelse(bp[p], flags[bp[p]] \cup {"DONE"})
  /\ panic' = PanicAt(bno[bp[p]])
  /\ Return(p)
  /\ UNCHANGED <<data, io, disk, super, ops>>

\* bdwrite asks bdevsw whether the device is a tape.
Bdwrite(p) ==
  /\ Running(p) /\ pc[p] = "dirty"
  /\ Brelse(bp[p], flags[bp[p]] \cup {"DELWRI", "DONE"})
  /\ panic' = PanicAt(bno[bp[p]])
  /\ Return(p)
  /\ UNCHANGED <<data, io, disk, super, ops>>

\* bwrite returns: the transfer is done, well or badly.
WriteDone(p) ==
  /\ Running(p) /\ pc[p] = "wrwait" /\ "DONE" \in flags[bp[p]]
  /\ Brelse(bp[p], flags[bp[p]])
  /\ Return(p)
  /\ UNCHANGED <<data, io, disk, super, ops, panic>>

-----------------------------------------------------------------------------
(***************************************************************************)
(* Operations on the whole device.                                         *)
(***************************************************************************)

\* bflush: start the delayed writes S; then binval, if extra is B_INVAL.
Bflush(S, extra) ==
  /\ flags' = [b \in Bufs |->
                 (IF b \in S THEN WriteFlags(flags[b]) \cup {"BUSY", "ASYNC"}
                             ELSE flags[b])
                 \cup (IF bno[b] # NoBlock THEN extra ELSE {})]
  /\ io' = [b \in Bufs |-> IF b \in S THEN "write" ELSE io[b]]
  /\ avail' = [b \in Bufs |-> IF b \in S THEN "none" ELSE avail[b]]
  /\ panic' = PanicFlush(S)

\* update, from sync.
Sync(p) ==
  /\ Running(p) /\ pc[p] = "idle" /\ ops < MaxOps /\ "sync" \in Ops
  /\ Bflush(DelayedWrites, {})
  /\ ops' = ops + 1
  /\ UNCHANGED <<bno, data, disk, freeWanted, super,
                 pc, req, want, cand, bp, chan>>

\* closei, from the last close of a device that is not mounted: bflush, then
\* binval.  Nobody uses the device, but the driver may be writing.
Close(p) ==
  /\ Running(p) /\ pc[p] = "idle" /\ ops < MaxOps /\ "close" \in Ops
  /\ \A q \in Procs : pc[q] = "idle"
  /\ super = NoBuf
  /\ Bflush({b \in DelayedWrites : bno[b] # NoBlock}, {"INVAL"})
  /\ ops' = ops + 1
  /\ UNCHANGED <<bno, data, disk, freeWanted, super,
                 pc, req, want, cand, bp, chan>>

\* fson has read the super block: it is locked in core.
Pin(p) ==
  /\ Running(p) /\ pc[p] = "hold" /\ req[p].op = "mount"
  /\ Brelse(bp[p], flags[bp[p]] \cup {"LOCKED"})
  /\ super' = bp[p]
  /\ Goto(p, "mounting")
  /\ bp' = [bp EXCEPT ![p] = NoBuf]
  /\ UNCHANGED <<data, io, disk, req, want, cand, ops, panic>>

Mounted(p) ==
  /\ Running(p) /\ pc[p] = "mounting"
  /\ Return(p)
  /\ UNCHANGED <<bufVars, chan, ops, panic>>

\* fson fails after that: B_LOCKED is cleared, wherever the buffer is.
MountFailed(p) ==
  /\ Running(p) /\ pc[p] = "mounting"
  /\ flags' = [flags EXCEPT ![super] = @ \ {"LOCKED"}]
  /\ super' = NoBuf
  /\ Return(p)
  /\ UNCHANGED <<bno, avail, data, io, disk, freeWanted, chan, ops, panic>>

\* fsoff: update, then getblk of the super block.
BeginUmount(p) ==
  /\ Running(p) /\ pc[p] = "idle" /\ ops < MaxOps /\ "umount" \in Ops
  /\ NoMount /\ super # NoBuf
  /\ Bflush(DelayedWrites, {})
  /\ ops' = ops + 1
  /\ req' = [req EXCEPT ![p] = [op |-> "umount", blk |-> Super, ra |-> NoBlock]]
  /\ want' = [want EXCEPT ![p] = Super]
  /\ Goto(p, "scan")
  /\ UNCHANGED <<bno, data, disk, freeWanted, super, cand, bp, chan>>

\* getblk must have found the buffer the root inode holds; it is unlocked
\* and, if the file system was mounted for writing, written.
Unpin(p) ==
  LET f == flags[bp[p]] \ {"LOCKED", "ASYNC"} IN
  /\ Running(p) /\ pc[p] = "hold" /\ req[p].op = "umount"
  /\ super' = NoBuf
  /\ \/ /\ Brelse(bp[p], f)
        /\ panic' = PanicUmount(bp[p])
        /\ Return(p)
        /\ UNCHANGED io
     \/ /\ Strategy(bp[p], WriteFlags(f), "write")
        /\ panic' = PanicUnpin(bp[p])
        /\ Goto(p, "wrwait")
        /\ UNCHANGED <<bno, freeWanted, chan, req, want, cand, bp>>
  /\ UNCHANGED <<data, disk, ops>>

-----------------------------------------------------------------------------
(***************************************************************************)
(* The world outside the process that runs.                                *)
(***************************************************************************)

\* The disk has finished: its interrupt calls iodone.  After a failed write
\* the block may have changed or not.
Iodone(b, err) ==
  LET f == flags[b] \cup {"DONE"} \cup (IF err THEN {"ERROR"} ELSE {}) IN
  /\ panic = "none" /\ io[b] # "none"
  /\ err => IOErrors
  /\ io' = [io EXCEPT ![b] = "none"]
  /\ data' = IF io[b] = "read" /\ ~err
             THEN [data EXCEPT ![b] = disk[bno[b]]] ELSE data
  /\ \/ io[b] = "write" /\ disk' = [disk EXCEPT ![bno[b]] = data[b]]
     \/ (io[b] = "read" \/ err) /\ disk' = disk
  /\ IF "ASYNC" \in f
     THEN Brelse(b, f)
     ELSE /\ flags' = [flags EXCEPT ![b] = f \ {"WANTED"}]
          /\ chan' = Bwakeup(b)
          /\ UNCHANGED <<bno, avail, freeWanted>>
  /\ panic' = PanicIodone(b)
  /\ UNCHANGED <<super, pc, req, want, cand, bp, ops>>

\* A sleep may end early, and its callers must look again: softclock calls
\* setrun when a p_tsleep left over from an earlier tsleep runs out.
PrematureReturn(p) ==
  /\ panic = "none" /\ chan[p] # NoChan
  /\ Sleep(p, NoChan)
  /\ UNCHANGED <<bufVars, pc, req, want, cand, bp, ops, panic>>

-----------------------------------------------------------------------------
Proceed(p) ==
  \/ Walk(p) \/ WaitFree(p) \/ WaitBusy(p) \/ TakeFound(p) \/ Ahead(p)
  \/ \E v \in Bufs : WriteVictim(p, v) \/ Reassign(p, v)
  \/ SleepIo(p) \/ ReadDone(p) \/ Release(p)
  \/ Fill(p) \/ Fault(p) \/ Bwrite(p) \/ Bawrite(p) \/ Bdwrite(p) \/ WriteDone(p)
  \/ Pin(p) \/ Mounted(p) \/ MountFailed(p) \/ Unpin(p)

Call(p) ==
  \/ \E name \in Ops, b, r \in Blocks \cup {NoBlock} : Begin(p, name, b, r)
  \/ Sync(p) \/ Close(p) \/ BeginUmount(p)

Interrupt == \E b \in Bufs, err \in BOOLEAN : Iodone(b, err)

\* Every operation allowed has been performed, and the disk is quiet.
Finished ==
  /\ ops = MaxOps
  /\ \A p \in Procs : pc[p] = "idle"
  /\ \A b \in Bufs : io[b] = "none"
  /\ UNCHANGED vars

Next ==
  \/ \E p \in Procs : Call(p) \/ Proceed(p) \/ PrematureReturn(p)
  \/ Interrupt
  \/ Finished

Spec == Init /\ [][Next]_vars
-----------------------------------------------------------------------------
(***************************************************************************)
(* Properties.                                                             *)
(***************************************************************************)

\* The process that has buffer b, between getblk and brelse.
Holders(b) == {p \in Procs : bp[p] = b}

\* At most one buffer is associated with a block: two would be two versions
\* of it.  getblk sleeps between its search and its reassignment of a buffer,
\* and several processes may miss on the same block.
OneBufferPerBlock ==
  \A a, b \in Bufs :
    (bno[a] = bno[b] /\ bno[a] # NoBlock
       /\ "INVAL" \notin flags[a] /\ "INVAL" \notin flags[b]) => a = b

\* A buffer is busy exactly when it is off the free lists, and then it has
\* exactly one master: a process, or the driver if the transfer is B_ASYNC.
\* A free buffer is nobody's and the driver does not have it.
Exclusive ==
  \A b \in Bufs :
    /\ "BUSY" \in flags[b] <=> avail[b] = "none"
    /\ "ASYNC" \in flags[b] => io[b] # "none"
    /\ io[b] # "none" => "BUSY" \in flags[b] /\ "DONE" \notin flags[b]
    /\ Holders(b) # {} <=> "BUSY" \in flags[b] /\ "ASYNC" \notin flags[b]
    /\ \A p, q \in Holders(b) : p = q

\* Nobody sleeps on an event that nothing is left to announce: a sleeper of
\* iowait waits for a transfer not done, a sleeper of getblk for a busy buffer
\* whose B_WANTED is set or, with bfreelist's B_WANTED set, for any buffer
\* while there is none.
NoLostWakeup ==
  \A p \in Procs :
    /\ chan[p] = FreeList =>
         pc[p] = "scan" /\ freeWanted /\ (\A b \in Bufs : avail[b] # "reusable")
    /\ chan[p] \in Bufs =>
         LET b == chan[p] IN
         \/ pc[p] = "scan" /\ {"BUSY", "WANTED"} \subseteq flags[b]
         \/ pc[p] \in {"iowait", "wrwait"} /\ bp[p] = b /\ io[b] # "none"

\* A buffer that holds a block's data, that no one is changing and no write
\* is due for, holds what the disk holds: to take it away loses nothing, and
\* reading it from the cache is reading the disk.
CleanMatchesDisk ==
  \A b \in Bufs, x \in Blocks :
    (/\ b \in Hit(x) /\ "DONE" \in flags[b] /\ "DELWRI" \notin flags[b]
     /\ \A p \in Holders(b) : pc[p] # "dirty")
      => data[b] = disk[x]

\* When bwrite is about to return without an error, the block is on the disk.
SyncWriteDurable ==
  \A p \in Procs :
    (pc[p] = "wrwait" /\ "DONE" \in flags[bp[p]] /\ "ERROR" \notin flags[bp[p]])
      => disk[req[p].blk] = data[bp[p]]

\* The panics "umount" and "dup iodone" do not happen, and no buffer without
\* a block reaches the device switch.
NoPanic == panic = "none"

-----------------------------------------------------------------------------
(***************************************************************************)
(* The inductive invariant behind the properties that hold on every disk.  *)
(***************************************************************************)

\* The free lists, the driver and the flags agree on where a buffer is.
BuffersOK ==
  \A b \in Bufs :
    /\ "BUSY" \in flags[b] <=> avail[b] = "none"
    /\ "ASYNC" \in flags[b] => io[b] # "none"
    /\ io[b] # "none" => /\ "BUSY" \in flags[b] /\ "DONE" \notin flags[b]
                         /\ bno[b] # NoBlock \/ panic # "none"

\* A buffer that is busy and not the driver's alone has one owner.
OwnersOK ==
  /\ \A p, q \in Procs : bp[p] = bp[q] /\ bp[p] # NoBuf => p = q
  /\ \A p \in Procs : bp[p] # NoBuf =>
       "BUSY" \in flags[bp[p]] /\ "ASYNC" \notin flags[bp[p]]
  /\ \A b \in Bufs : "BUSY" \in flags[b] /\ "ASYNC" \notin flags[b] =>
       \E p \in Procs : bp[p] = b

\* Where a process is says what it owns and in which state that buffer is.
ProcessesOK ==
  \A p \in Procs :
    /\ pc[p] \in {"iowait", "wrwait", "hold", "dirty", "fail"} => bp[p] # NoBuf
    /\ pc[p] \in {"idle", "mounting"} => bp[p] = NoBuf
    /\ pc[p] \in {"scan", "test"} /\ bp[p] # NoBuf => LooksAhead(p)
    /\ pc[p] = "test" => cand[p] # NoBuf
    /\ pc[p] = "ahead" => req[p].op = "readahead"
    /\ pc[p] \in {"hold", "dirty", "fail"} => io[bp[p]] = "none"
    /\ pc[p] \in {"scan", "test", "ahead", "iowait", "wrwait"} /\ bp[p] # NoBuf
         => io[bp[p]] # "none" \/ "DONE" \in flags[bp[p]]

IInv == /\ TypeOK /\ BuffersOK /\ OwnersOK /\ ProcessesOK
        /\ NoLostWakeup /\ OneBufferPerBlock

-----------------------------------------------------------------------------
(***************************************************************************)
(* The stronger invariant behind what is said of the contents.  Some of it *)
(* needs a disk without errors, some a device that is not closed.          *)
(***************************************************************************)
Healthy == ~IOErrors /\ ~Faults
NoClose == "close" \notin Ops

\* What a process does fits what it was asked for.
RequestsOK ==
  \A p \in Procs :
    /\ pc[p] = "idle" <=> req[p].op = "none"
    /\ req[p].blk = NoBlock <=> req[p].op \in {"none", "empty"}
    /\ req[p].op = "readahead" => req[p].ra \notin {NoBlock, req[p].blk}
    /\ req[p].op \in {"mount", "umount"} => req[p].blk = Super
    /\ pc[p] \in {"scan", "test"} => want[p] = req[p].blk \/ LooksAhead(p)
    /\ pc[p] = "iowait" => req[p].op \in {"read", "readahead", "update", "mount"}
    /\ pc[p] = "dirty" => req[p].op \in {"update", "overwrite"}
    /\ pc[p] = "wrwait" => req[p].op \in {"update", "overwrite", "umount"}
    /\ pc[p] = "mounting" => req[p].op = "mount"
    /\ pc[p] = "fail" => IOErrors

\* The buffer a process has found or owns is associated with the block it
\* works on; only a failed transfer can take the block's name away.
AssociationsOK ==
  \A p \in Procs :
    /\ pc[p] = "test" => /\ want[p] # NoBlock
                         /\ "INVAL" \notin flags[cand[p]]
                         /\ \/ bno[cand[p]] = want[p]
                            \/ IOErrors /\ bno[cand[p]] = NoBlock
    /\ bp[p] # NoBuf => /\ "INVAL" \in flags[bp[p]] => req[p].op = "empty"
                        /\ \/ bno[bp[p]] = req[p].blk
                           \/ IOErrors /\ bno[bp[p]] = NoBlock
    /\ pc[p] = "wrwait" => /\ io[bp[p]] # "read"
                           /\ bno[bp[p]] = req[p].blk \/ panic # "none"
    /\ pc[p] = "hold" /\ req[p].op \in {"read", "readahead", "update", "mount"}
         => "DONE" \in flags[bp[p]]

\* What the flags say of a buffer's block and contents.
ContentsOK ==
  \A b \in Bufs :
    /\ NoClose /\ "INVAL" \in flags[b] => bno[b] = NoBlock
    /\ ~IOErrors => /\ "ERROR" \notin flags[b]
                    /\ "DELWRI" \in flags[b] => /\ "DONE" \in flags[b]
                                                /\ bno[b] # NoBlock

\* One process at a time mounts or unmounts; the pinned buffer stays the
\* super block's.
SuperOK ==
  /\ \A p, q \in Procs : {req[p].op, req[q].op} \subseteq {"mount", "umount"} => p = q
  /\ \A p \in Procs :
       /\ req[p].op = "mount" /\ pc[p] # "mounting" => super = NoBuf
       /\ req[p].op = "umount" /\ pc[p] # "wrwait" => super # NoBuf
  /\ ~IOErrors /\ super # NoBuf =>
       /\ bno[super] = Super /\ avail[super] # "reusable"
       /\ "LOCKED" \in flags[super] /\ "INVAL" \notin flags[super]
       /\ "DONE" \in flags[super] \/ io[super] = "write"

CInv == /\ IInv /\ RequestsOK /\ AssociationsOK /\ ContentsOK /\ SuperOK
        /\ ~IOErrors => NoPanic
        /\ NoClose => SyncWriteDurable
        /\ NoClose /\ Healthy => CleanMatchesDisk

-----------------------------------------------------------------------------
(***************************************************************************)
(* The cache implements BlockStore.  A block's value is in its buffer if   *)
(* the buffer has data, and on the disk otherwise; a process owns a block  *)
(* from the return of getblk or bread to the release.                      *)
(***************************************************************************)
NoProc == NoBuf

Current(b) == \/ "DONE" \in flags[b] \/ io[b] = "write"
              \/ \E p \in Holders(b) : pc[p] = "dirty"

BlockValue(x) == IF \E b \in Hit(x) : Current(b)
                 THEN data[CHOOSE b \in Hit(x) : Current(b)]
                 ELSE disk[x]

Owns(p, x) == pc[p] \in {"hold", "dirty", "wrwait"} /\ bp[p] \in Hit(x)

Store == INSTANCE BlockStore WITH
  value <- [x \in Blocks |-> BlockValue(x)],
  owner <- [x \in Blocks |->
              IF \E p \in Procs : Owns(p, x)
              THEN CHOOSE p \in Procs : Owns(p, x) ELSE NoProc],
  copy  <- [p \in Procs |->
              IF pc[p] = "hold" /\ req[p].op \in {"read", "readahead", "update"}
              THEN data[bp[p]] ELSE NoValue]

\* Every block behaves as one variable that one process uses at a time.
ImplementsBlockStore == Store!StoreSpec

-----------------------------------------------------------------------------
(***************************************************************************)
(* Liveness.  A process that can run again and again gets the CPU, and the *)
(* disk finishes every transfer it was given.                              *)
(***************************************************************************)
Fairness ==
  /\ \A p \in Procs : SF_vars(Proceed(p))
  /\ \A b \in Bufs : WF_vars(\E err \in BOOLEAN : Iodone(b, err))

FairSpec == Spec /\ Fairness

\* Every operation ends: no process waits for a buffer or for a transfer for
\* ever.
OperationsEnd == \A p \in Procs : pc[p] # "idle" ~> pc[p] = "idle"
=============================================================================
