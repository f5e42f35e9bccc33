--------------------------- MODULE BufCacheProofs ---------------------------
(***************************************************************************)
(* For any number of processes, buffers, blocks and operations, with or    *)
(* without disk errors, the buffer cache is type correct, keeps one buffer *)
(* per block, gives every busy buffer one master and loses no wakeup.  The *)
(* second part is about the contents of the blocks, the third shows that   *)
(* the cache implements BlockStore.                                        *)
(*                                                                         *)
(* The argument is the inductive invariant IInv of BufCache.  What getblk  *)
(* may assume when it wakes is nothing; what it relies on is that a buffer *)
(* on a free list is not busy, so no process and no transfer holds it      *)
(* (BuffersOK, OwnersOK), and that a process which sleeps owns at most a   *)
(* buffer with a transfer begun (ProcessesOK).  There is one lemma for     *)
(* each action, and in it one step for each conjunct of IInv.              *)
(***************************************************************************)
EXTENDS BufCache, TLAPS

USE ConstantsOK DEF ConstantsOK

-----------------------------------------------------------------------------
(***************************************************************************)
(* What the common operators keep.                                         *)
(***************************************************************************)

\* Every panic is a reason in Panics, and a request without a block gives one.
LEMMA Panicking ==
  /\ \A w : PanicAt(w) \in Panics /\ (w = NoBlock => PanicAt(w) # "none")
  /\ \A b : /\ PanicUmount(b) \in Panics /\ PanicUnpin(b) \in Panics
            /\ PanicIodone(b) \in Panics
            /\ bno[b] = NoBlock => PanicUnpin(b) # "none"
  /\ \A S : /\ PanicFlush(S) \in Panics
            /\ \A b \in S : bno[b] = NoBlock => PanicFlush(S) # "none"
BY DEF PanicAt, PanicUmount, PanicUnpin, PanicFlush, PanicIodone, Panics

\* brelse leaves what it changes well typed.
LEMMA BrelseTypes ==
  ASSUME TypeOK, NEW b \in Bufs, NEW f \in SUBSET Flags, Brelse(b, f)
  PROVE  /\ flags' \in [Bufs -> SUBSET Flags]
         /\ bno' \in [Bufs -> Blocks \cup {NoBlock}]
         /\ avail' \in [Bufs -> {"none", "locked", "reusable"}]
         /\ freeWanted' \in BOOLEAN
         /\ chan' \in [Procs -> Bufs \cup {NoChan, FreeList}]
BY DEF TypeOK, Brelse

\* A buffer handed to the driver stays well typed.
LEMMA StrategyTypes ==
  ASSUME TypeOK, NEW b \in Bufs, NEW f \in SUBSET Flags,
         NEW dir \in {"read", "write"}, Strategy(b, f, dir)
  PROVE  /\ flags' \in [Bufs -> SUBSET Flags]
         /\ io' \in [Bufs -> {"none", "read", "write"}]
         /\ avail' \in [Bufs -> {"none", "locked", "reusable"}]
BY DEF TypeOK, Strategy

\* The end of an operation leaves the process well typed.
LEMMA ReturnTypes ==
  ASSUME TypeOK, NEW p \in Procs, Return(p)
  PROVE  /\ pc' \in [Procs -> PCs]
         /\ req' \in [Procs -> Requests]
         /\ want' \in [Procs -> Blocks \cup {NoBlock}]
         /\ cand' \in [Procs -> Bufs \cup {NoBuf}]
         /\ bp' \in [Procs -> Bufs \cup {NoBuf}]
<1>1. NoReq \in Requests /\ "idle" \in PCs BY DEF NoReq, Requests, AllOps, PCs
<1> QED BY <1>1 DEF TypeOK, Return

\* breada goes on, to the first block or to iowait, with variables of their types.
LEMMA AfterAheadTypes ==
  ASSUME TypeOK, NEW p \in Procs, AfterAhead(p)
  PROVE  /\ pc' \in [Procs -> PCs]
         /\ req' \in [Procs -> Requests]
         /\ want' \in [Procs -> Blocks \cup {NoBlock}]
<1>1. /\ [op |-> "read", blk |-> req[p].blk, ra |-> NoBlock] \in Requests
      /\ req[p].blk \in Blocks \cup {NoBlock}
  BY DEF TypeOK, Requests, AllOps
<1>2. "scan" \in PCs /\ "iowait" \in PCs BY DEF PCs
<1> QED BY <1>1, <1>2 DEF TypeOK, AfterAhead, Goto

-----------------------------------------------------------------------------
(***************************************************************************)
(* getblk, bread and breada.                                               *)
(***************************************************************************)

\* A process begins an operation.
LEMMA BeginInv ==
  ASSUME IInv, NEW p \in Procs, NEW name \in Ops,
         NEW b \in Blocks \cup {NoBlock}, NEW r \in Blocks \cup {NoBlock},
         Begin(p, name, b, r)
  PROVE  IInv'
<1> USE DEF IInv, Begin, Goto, SkipsFirst, bufVars
<1>1. TypeOK' BY DEF Running, TypeOK, PCs, Requests
<1>2. BuffersOK' BY DEF BuffersOK
<1>3. OwnersOK' BY DEF OwnersOK
<1>4. ProcessesOK' BY DEF TypeOK, ProcessesOK, LooksAhead
<1>5. NoLostWakeup' BY DEF NoLostWakeup
<1>6. OneBufferPerBlock' BY DEF OneBufferPerBlock
<1> QED BY <1>1, <1>2, <1>3, <1>4, <1>5, <1>6

\* getblk finds the block in a hash chain.
LEMMA WalkInv ==
  ASSUME IInv, NEW p \in Procs, Walk(p)
  PROVE  IInv'
<1> USE DEF IInv, Walk, Goto, Hit, bufVars
<1>1. TypeOK' BY DEF Running, TypeOK, PCs
<1>2. BuffersOK' BY DEF BuffersOK
<1>3. OwnersOK' BY DEF OwnersOK
<1>4. ProcessesOK' BY DEF TypeOK, ProcessesOK, LooksAhead
<1>5. NoLostWakeup' BY DEF Running, NoLostWakeup
<1>6. OneBufferPerBlock' BY DEF OneBufferPerBlock
<1> QED BY <1>1, <1>2, <1>3, <1>4, <1>5, <1>6

\* getblk waits for any buffer.
LEMMA WaitFreeInv ==
  ASSUME IInv, NEW p \in Procs, WaitFree(p)
  PROVE  IInv'
<1> USE DEF IInv, WaitFree, Sleep, Reusable
<1>1. TypeOK' BY DEF Running, TypeOK
<1>2. BuffersOK' BY DEF BuffersOK
<1>3. OwnersOK' BY DEF OwnersOK
<1>4. ProcessesOK' BY DEF ProcessesOK, LooksAhead
<1>5. NoLostWakeup' BY DEF NoLostWakeup
<1>6. OneBufferPerBlock' BY DEF OneBufferPerBlock
<1> QED BY <1>1, <1>2, <1>3, <1>4, <1>5, <1>6

\* getblk starts the delayed write of a buffer it would like to take.
LEMMA WriteVictimInv ==
  ASSUME IInv, NEW p \in Procs, NEW v \in Bufs, WriteVictim(p, v)
  PROVE  IInv'
<1> USE DEF IInv, WriteVictim, Strategy, WriteFlags, Reusable, procVars
<1>1. TypeOK' BY Panicking DEF TypeOK, Flags
<1>2. BuffersOK' BY Panicking DEF Running, TypeOK, BuffersOK
<1>3. OwnersOK' BY DEF BuffersOK, OwnersOK
<1>4. ProcessesOK' BY DEF BuffersOK, OwnersOK, ProcessesOK, LooksAhead
<1>5. NoLostWakeup' BY DEF NoLostWakeup
<1>6. OneBufferPerBlock' BY DEF OneBufferPerBlock
<1> QED BY <1>1, <1>2, <1>3, <1>4, <1>5, <1>6

\* getblk waits for a busy buffer, B_WANTED set.
LEMMA WaitBusyInv ==
  ASSUME IInv, NEW p \in Procs, WaitBusy(p)
  PROVE  IInv'
<1> USE DEF IInv, WaitBusy, Sleep, Goto
<1>1. TypeOK' BY DEF Running, TypeOK, ProcessesOK, Flags, PCs
<1>2. BuffersOK' BY DEF BuffersOK
<1>3. OwnersOK' BY DEF OwnersOK
<1>4. ProcessesOK' BY DEF TypeOK, ProcessesOK, LooksAhead
<1>5. NoLostWakeup' BY DEF TypeOK, ProcessesOK, NoLostWakeup
<1>6. OneBufferPerBlock' BY DEF OneBufferPerBlock
<1> QED BY <1>1, <1>2, <1>3, <1>4, <1>5, <1>6

\* getblk gives a free buffer to a caller of any kind (ClaimAhead, ClaimRead,
\* ClaimWhole): all of IInv but OneBufferPerBlock survives.
LEMMA ClaimInv ==
  ASSUME IInv, NEW p \in Procs, NEW b \in Bufs, NEW f \in SUBSET Flags,
         NEW w \in Blocks \cup {NoBlock},
         panic = "none", pc[p] \in {"scan", "test"}, chan[p] = NoChan,
         avail[b] # "none", "BUSY" \in f, "ASYNC" \notin f,
         cand' \in {cand, [cand EXCEPT ![p] = NoBuf]},
         UNCHANGED <<data, disk, super, ops>>,
         Claim(p, b, f, w)
  PROVE  TypeOK' /\ BuffersOK' /\ OwnersOK' /\ ProcessesOK' /\ NoLostWakeup'
<1> USE DEF IInv
<1>0. /\ "BUSY" \notin flags[b] /\ "ASYNC" \notin flags[b] /\ io[b] = "none"
      /\ \A q \in Procs : bp[q] # b /\ chan[q] # b
      /\ flags[b] \in SUBSET Flags
      /\ cand' \in [Procs -> Bufs \cup {NoBuf}]
  BY DEF BuffersOK, OwnersOK, NoLostWakeup, TypeOK
<1>1. /\ f \cup {"READ"} \in SUBSET Flags
      /\ f \cup {"READ", "ASYNC"} \in SUBSET Flags
  BY DEF Flags
<1>2. CASE ClaimAhead(p, b, f, w) /\ "DONE" \in f
  <2> USE <1>0, <1>2 DEF ClaimAhead
  <2>1. TypeOK' BY BrelseTypes, AfterAheadTypes DEF TypeOK
  <2> USE DEF Brelse, AfterAhead, Goto
  <2>2. BuffersOK' BY DEF BuffersOK, TypeOK
  <2>3. OwnersOK' BY DEF OwnersOK, TypeOK
  <2>4. ProcessesOK' BY DEF ProcessesOK, TypeOK, LooksAhead
  <2>5. NoLostWakeup' BY DEF NoLostWakeup, TypeOK
  <2> QED BY <2>1, <2>2, <2>3, <2>4, <2>5
<1>3. CASE ClaimAhead(p, b, f, w) /\ "DONE" \notin f
  <2> USE <1>0, <1>3 DEF ClaimAhead
  <2>1. TypeOK'
    BY <1>1, StrategyTypes, AfterAheadTypes, Panicking DEF TypeOK
  <2> USE DEF Strategy, AfterAhead, Goto
  <2>2. BuffersOK'
    <3>1. BuffersOK!(b)' BY Panicking DEF BuffersOK, TypeOK
    <3>2. ASSUME NEW c \in Bufs \ {b} PROVE BuffersOK!(c)'
      BY DEF BuffersOK, TypeOK
    <3> QED BY <3>1, <3>2 DEF BuffersOK
  <2>3. OwnersOK' BY DEF OwnersOK, TypeOK
  <2>4. ProcessesOK' BY DEF ProcessesOK, TypeOK, LooksAhead
  <2>5. NoLostWakeup' BY DEF NoLostWakeup, TypeOK
  <2> QED BY <2>1, <2>2, <2>3, <2>4, <2>5
<1>4. CASE ClaimRead(p, b, f, w)
  <2> USE <1>0, <1>4 DEF ClaimRead
  <2>1. pc' \in [Procs -> PCs]
    <3>1. {"ahead", "hold", "iowait"} \subseteq PCs BY DEF PCs
    <3> QED BY <3>1 DEF TypeOK, Goto
  <2>2. CASE "DONE" \in f
    <3> USE <2>2 DEF Goto
    <3>1. TypeOK' BY <2>1 DEF TypeOK
    <3>2. BuffersOK' BY DEF BuffersOK, TypeOK
    <3>3. OwnersOK' BY DEF OwnersOK, ProcessesOK, TypeOK
    <3>4. ProcessesOK' BY DEF ProcessesOK, TypeOK, LooksAhead
    <3>5. NoLostWakeup' BY DEF NoLostWakeup, TypeOK
    <3> QED BY <3>1, <3>2, <3>3, <3>4, <3>5
  <2>3. CASE "DONE" \notin f
    <3> USE <2>3
    <3>1. TypeOK' BY <1>1, <2>1, StrategyTypes, Panicking DEF TypeOK
    <3> USE DEF Strategy, Goto
    <3>2. BuffersOK'
      <4>1. BuffersOK!(b)' BY Panicking DEF BuffersOK, TypeOK
      <4>2. ASSUME NEW c \in Bufs \ {b} PROVE BuffersOK!(c)'
        BY DEF BuffersOK, TypeOK
      <4> QED BY <4>1, <4>2 DEF BuffersOK
    <3>3. OwnersOK' BY DEF OwnersOK, ProcessesOK, TypeOK
    <3>4. ProcessesOK' BY DEF ProcessesOK, TypeOK, LooksAhead
    <3>5. NoLostWakeup' BY DEF NoLostWakeup, TypeOK
    <3> QED BY <3>1, <3>2, <3>3, <3>4, <3>5
  <2> QED BY <2>2, <2>3
<1>5. CASE ClaimWhole(p, b, f, w)
  <2> USE <1>0, <1>5 DEF ClaimWhole, Goto
  <2>1. TypeOK' BY DEF TypeOK, PCs
  <2>2. BuffersOK' BY DEF BuffersOK, TypeOK
  <2>3. OwnersOK' BY DEF OwnersOK, ProcessesOK, TypeOK, LooksAhead
  <2>4. ProcessesOK' BY DEF ProcessesOK, TypeOK, LooksAhead
  <2>5. NoLostWakeup' BY DEF NoLostWakeup, TypeOK
  <2> QED BY <2>1, <2>2, <2>3, <2>4, <2>5
<1> QED BY <1>2, <1>3, <1>4, <1>5 DEF Claim

\* ... and OneBufferPerBlock too, if no other buffer is associated with the block.
LEMMA ClaimOne ==
  ASSUME IInv, NEW p \in Procs, NEW b \in Bufs, NEW f \in SUBSET Flags,
         NEW w \in Blocks \cup {NoBlock},
         "INVAL" \in f \/ Hit(w) \subseteq {b},
         "DONE" \in f => w = bno[b],
         Claim(p, b, f, w)
  PROVE  OneBufferPerBlock'
<1>1. /\ \A c \in Bufs \ {b} : bno'[c] = bno[c] /\ flags'[c] = flags[c]
      /\ bno'[b] \in {w, NoBlock}
      /\ "INVAL" \in f => "INVAL" \in flags'[b]
  <2>1. CASE ClaimAhead(p, b, f, w) /\ "DONE" \in f
    BY <2>1 DEF ClaimAhead, Brelse, IInv, TypeOK
  <2>2. CASE ClaimAhead(p, b, f, w) /\ "DONE" \notin f
    BY <2>2 DEF ClaimAhead, Strategy, IInv, TypeOK
  <2>3. CASE ClaimRead(p, b, f, w)
    BY <2>3 DEF ClaimRead, Strategy, IInv, TypeOK
  <2>4. CASE ClaimWhole(p, b, f, w)
    BY <2>4 DEF ClaimWhole, IInv, TypeOK
  <2> QED BY <2>1, <2>2, <2>3, <2>4 DEF Claim
<1> QED BY <1>1 DEF OneBufferPerBlock, Hit, IInv

\* getblk found no buffer for the block and takes a free one.
LEMMA ReassignInv ==
  ASSUME IInv, NEW p \in Procs, NEW v \in Bufs, Reassign(p, v)
  PROVE  IInv'
<1> DEFINE f == IF want[p] = NoBlock THEN {"BUSY", "INVAL"} ELSE {"BUSY"}
<1>1. /\ f \in SUBSET Flags /\ want[p] \in Blocks \cup {NoBlock}
      /\ "BUSY" \in f /\ "ASYNC" \notin f /\ "DONE" \notin f /\ avail[v] # "none"
      /\ "INVAL" \in f \/ Hit(want[p]) \subseteq {v}
  BY DEF Reassign, Reusable, Flags, IInv, TypeOK
<1>2. /\ panic = "none" /\ chan[p] = NoChan /\ pc[p] = "scan"
      /\ UNCHANGED <<data, disk, super, cand, ops>>
      /\ Claim(p, v, f, want[p])
  BY DEF Reassign, Running
<1> HIDE DEF f
<1>3. OneBufferPerBlock' BY <1>1, <1>2, ClaimOne
<1> QED BY <1>1, <1>2, <1>3, ClaimInv DEF IInv

\* getblk found the block in a buffer that is not busy.
LEMMA TakeFoundInv ==
  ASSUME IInv, NEW p \in Procs, TakeFound(p)
  PROVE  IInv'
<1> DEFINE b == cand[p]
           f == flags[b] \cup {"BUSY"}
<1>1. /\ panic = "none" /\ chan[p] = NoChan /\ pc[p] = "test"
      /\ "BUSY" \notin flags[b]
      /\ cand' = [cand EXCEPT ![p] = NoBuf]
      /\ UNCHANGED <<data, disk, super, ops>>
      /\ Claim(p, b, f, bno[b])
  BY DEF TakeFound, Running
<1>2. b \in Bufs BY <1>1 DEF IInv, TypeOK, ProcessesOK
<1>3. /\ avail[b] # "none" /\ "ASYNC" \notin f /\ "BUSY" \in f
      /\ f \in SUBSET Flags /\ bno[b] \in Blocks \cup {NoBlock}
  BY <1>1, <1>2 DEF IInv, TypeOK, BuffersOK, Flags
<1>4. "INVAL" \in f \/ Hit(bno[b]) \subseteq {b}
  BY <1>2 DEF IInv, OneBufferPerBlock, Hit
<1> HIDE DEF b, f
<1>5. OneBufferPerBlock' BY <1>1, <1>2, <1>3, <1>4, ClaimOne
<1> QED BY <1>1, <1>2, <1>3, <1>5, ClaimInv DEF IInv

\* breada turns to the block ahead.
LEMMA AheadInv ==
  ASSUME IInv, NEW p \in Procs, Ahead(p)
  PROVE  IInv'
<1> USE DEF Ahead, Running, bufVars, IInv
<1>1. TypeOK'
  <2>1. "scan" \in PCs /\ req[p].ra \in Blocks \cup {NoBlock}
    BY DEF PCs, TypeOK, Requests
  <2> QED BY <2>1, AfterAheadTypes DEF TypeOK, Goto
<1> USE DEF AfterAhead, Goto
<1>2. BuffersOK' BY DEF BuffersOK
<1>3. OwnersOK' BY DEF OwnersOK
<1>4. ProcessesOK' BY DEF TypeOK, ProcessesOK, LooksAhead
<1>5. NoLostWakeup' BY DEF TypeOK, NoLostWakeup
<1>6. OneBufferPerBlock' BY DEF OneBufferPerBlock
<1> QED BY <1>1, <1>2, <1>3, <1>4, <1>5, <1>6

\* iowait sleeps.
LEMMA SleepIoInv ==
  ASSUME IInv, NEW p \in Procs, SleepIo(p)
  PROVE  IInv'
<1> USE DEF IInv, SleepIo, Sleep, bufVars
<1>1. TypeOK' BY DEF Running, TypeOK, ProcessesOK
<1>2. BuffersOK' BY DEF BuffersOK
<1>3. OwnersOK' BY DEF OwnersOK
<1>4. ProcessesOK' BY DEF ProcessesOK, LooksAhead
<1>5. NoLostWakeup' BY DEF TypeOK, ProcessesOK, NoLostWakeup
<1>6. OneBufferPerBlock' BY DEF OneBufferPerBlock
<1> QED BY <1>1, <1>2, <1>3, <1>4, <1>5, <1>6

\* iowait returns.
LEMMA ReadDoneInv ==
  ASSUME IInv, NEW p \in Procs, ReadDone(p)
  PROVE  IInv'
<1> USE DEF IInv, ReadDone, Goto, bufVars
<1>1. TypeOK' BY DEF Running, TypeOK, PCs
<1>2. BuffersOK' BY DEF BuffersOK
<1>3. OwnersOK' BY DEF OwnersOK
<1>4. ProcessesOK' BY DEF TypeOK, BuffersOK, ProcessesOK, LooksAhead
<1>5. NoLostWakeup' BY DEF BuffersOK, NoLostWakeup
<1>6. OneBufferPerBlock' BY DEF OneBufferPerBlock
<1> QED BY <1>1, <1>2, <1>3, <1>4, <1>5, <1>6

-----------------------------------------------------------------------------
(***************************************************************************)
(* What the callers do with the buffer they own.                           *)
(***************************************************************************)

\* The reader releases its buffer.
LEMMA ReleaseInv ==
  ASSUME IInv, NEW p \in Procs, Release(p)
  PROVE  IInv'
<1> USE DEF IInv
<1>1. TypeOK'
  <2>1. bp[p] \in Bufs BY DEF Release, TypeOK, ProcessesOK
  <2>2. flags[bp[p]] \in SUBSET Flags BY <2>1 DEF TypeOK
  <2>3. Brelse(bp[p], flags[bp[p]]) BY DEF Release
  <2> QED BY <2>1, <2>2, <2>3, BrelseTypes, ReturnTypes DEF Release, TypeOK
<1> USE DEF Release, Brelse, Return, NoReq
<1>2. BuffersOK' BY DEF TypeOK, BuffersOK, ProcessesOK
<1>3. OwnersOK' BY DEF TypeOK, OwnersOK
<1>4. ProcessesOK' BY DEF TypeOK, ProcessesOK, LooksAhead
<1>5. NoLostWakeup' BY DEF NoLostWakeup
<1>6. OneBufferPerBlock' BY DEF OneBufferPerBlock
<1> QED BY <1>1, <1>2, <1>3, <1>4, <1>5, <1>6

\* fswrite changes its buffer.
LEMMA FillInv ==
  ASSUME IInv, NEW p \in Procs, Fill(p)
  PROVE  IInv'
<1> USE DEF IInv, Fill, Goto
<1>1. TypeOK' BY DEF Running, TypeOK, ProcessesOK, PCs
<1>2. BuffersOK' BY DEF BuffersOK
<1>3. OwnersOK' BY DEF OwnersOK
<1>4. ProcessesOK' BY DEF ProcessesOK, LooksAhead
<1>5. NoLostWakeup' BY DEF NoLostWakeup
<1>6. OneBufferPerBlock' BY DEF OneBufferPerBlock
<1> QED BY <1>1, <1>2, <1>3, <1>4, <1>5, <1>6

\* fswrite gives up.
LEMMA FaultInv ==
  ASSUME IInv, NEW p \in Procs, Fault(p)
  PROVE  IInv'
<1> USE DEF IInv
<1>1. TypeOK'
  <2>1. bp[p] \in Bufs BY DEF Fault, TypeOK, ProcessesOK
  <2>2. flags[bp[p]] \in SUBSET Flags BY <2>1 DEF TypeOK
  <2>3. Brelse(bp[p], flags[bp[p]]) BY DEF Fault
  <2> QED BY <2>1, <2>2, <2>3, BrelseTypes, ReturnTypes DEF Fault, TypeOK
<1> USE DEF Fault, Brelse, Return, NoReq
<1>2. BuffersOK' BY DEF TypeOK, BuffersOK, ProcessesOK
<1>3. OwnersOK' BY DEF TypeOK, OwnersOK
<1>4. ProcessesOK' BY DEF TypeOK, ProcessesOK, LooksAhead
<1>5. NoLostWakeup' BY DEF NoLostWakeup
<1>6. OneBufferPerBlock' BY DEF OneBufferPerBlock
<1> QED BY <1>1, <1>2, <1>3, <1>4, <1>5, <1>6

\* bwrite starts the transfer.
LEMMA BwriteInv ==
  ASSUME IInv, NEW p \in Procs, Bwrite(p)
  PROVE  IInv'
<1> USE DEF IInv, Bwrite, Strategy, WriteFlags, Goto
<1>1. TypeOK' BY Panicking DEF TypeOK, ProcessesOK, PCs
<1>2. BuffersOK' BY Panicking DEF Running, TypeOK, BuffersOK, OwnersOK
<1>3. OwnersOK' BY DEF OwnersOK
<1>4. ProcessesOK' BY DEF TypeOK, OwnersOK, ProcessesOK, LooksAhead
<1>5. NoLostWakeup' BY DEF NoLostWakeup
<1>6. OneBufferPerBlock' BY DEF OneBufferPerBlock
<1> QED BY <1>1, <1>2, <1>3, <1>4, <1>5, <1>6

\* bawrite gives the buffer to the driver.
LEMMA BawriteInv ==
  ASSUME IInv, NEW p \in Procs, Bawrite(p)
  PROVE  IInv'
<1> USE DEF IInv
<1>1. TypeOK'
  <2>1. bp[p] \in Bufs BY DEF Bawrite, TypeOK, ProcessesOK
  <2>2. WriteFlags(flags[bp[p]]) \cup {"ASYNC"} \in SUBSET Flags
    BY <2>1 DEF TypeOK, Flags, WriteFlags
  <2> QED BY <2>1, <2>2, StrategyTypes, ReturnTypes, Panicking DEF Bawrite, TypeOK
<1> USE DEF Bawrite, Strategy, WriteFlags, Return, NoReq
<1>2. BuffersOK' BY Panicking DEF Running, TypeOK, BuffersOK, OwnersOK
<1>3. OwnersOK' BY DEF TypeOK, OwnersOK
<1>4. ProcessesOK' BY DEF TypeOK, OwnersOK, ProcessesOK, LooksAhead
<1>5. NoLostWakeup' BY DEF NoLostWakeup
<1>6. OneBufferPerBlock' BY DEF OneBufferPerBlock
<1> QED BY <1>1, <1>2, <1>3, <1>4, <1>5, <1>6

\* bdwrite releases the buffer, B_DELWRI set.
LEMMA BdwriteInv ==
  ASSUME IInv, NEW p \in Procs, Bdwrite(p)
  PROVE  IInv'
<1> USE DEF IInv
<1>1. TypeOK'
  <2>1. bp[p] \in Bufs BY DEF Bdwrite, TypeOK, ProcessesOK
  <2>2. flags[bp[p]] \cup {"DELWRI", "DONE"} \in SUBSET Flags BY <2>1 DEF TypeOK, Flags
  <2>3. Brelse(bp[p], flags[bp[p]] \cup {"DELWRI", "DONE"}) BY DEF Bdwrite
  <2> QED BY <2>1, <2>2, <2>3, BrelseTypes, ReturnTypes, Panicking DEF Bdwrite, TypeOK
<1> USE DEF Bdwrite, Brelse, Return, NoReq
<1>2. BuffersOK' BY Panicking DEF Running, TypeOK, BuffersOK, ProcessesOK
<1>3. OwnersOK' BY DEF TypeOK, OwnersOK
<1>4. ProcessesOK' BY DEF TypeOK, ProcessesOK, LooksAhead
<1>5. NoLostWakeup' BY DEF NoLostWakeup
<1>6. OneBufferPerBlock' BY DEF OneBufferPerBlock
<1> QED BY <1>1, <1>2, <1>3, <1>4, <1>5, <1>6

\* bwrite returns.
LEMMA WriteDoneInv ==
  ASSUME IInv, NEW p \in Procs, WriteDone(p)
  PROVE  IInv'
<1> USE DEF IInv
<1>1. TypeOK'
  <2>1. bp[p] \in Bufs BY DEF WriteDone, TypeOK, ProcessesOK
  <2>2. flags[bp[p]] \in SUBSET Flags BY <2>1 DEF TypeOK
  <2>3. Brelse(bp[p], flags[bp[p]]) BY DEF WriteDone
  <2> QED BY <2>1, <2>2, <2>3, BrelseTypes, ReturnTypes DEF WriteDone, TypeOK
<1> USE DEF WriteDone, Brelse, Return, NoReq
<1>2. BuffersOK' BY DEF TypeOK, BuffersOK
<1>3. OwnersOK' BY DEF TypeOK, OwnersOK
<1>4. ProcessesOK' BY DEF TypeOK, ProcessesOK, LooksAhead
<1>5. NoLostWakeup' BY DEF BuffersOK, NoLostWakeup
<1>6. OneBufferPerBlock' BY DEF OneBufferPerBlock
<1> QED BY <1>1, <1>2, <1>3, <1>4, <1>5, <1>6

-----------------------------------------------------------------------------
(***************************************************************************)
(* Operations on the whole device.                                         *)
(***************************************************************************)

\* bflush and binval: the buffers written are free ones, and a buffer that loses
\* its block breaks no uniqueness.
LEMMA BflushInv ==
  ASSUME IInv, NEW S \in SUBSET DelayedWrites, NEW extra \in SUBSET {"INVAL"},
         panic = "none", Bflush(S, extra), UNCHANGED bno
  PROVE  /\ flags' \in [Bufs -> SUBSET Flags]
         /\ io' \in [Bufs -> {"none", "read", "write"}]
         /\ avail' \in [Bufs -> {"none", "locked", "reusable"}]
         /\ panic' \in Panics
         /\ BuffersOK' /\ OneBufferPerBlock'
         /\ UNCHANGED bp => OwnersOK'
<1> USE DEF Bflush, DelayedWrites, WriteFlags, IInv
<1>1. flags' \in [Bufs -> SUBSET Flags] BY DEF TypeOK, Flags
<1>2. io' \in [Bufs -> {"none", "read", "write"}] BY DEF TypeOK
<1>3. avail' \in [Bufs -> {"none", "locked", "reusable"}] BY DEF TypeOK
<1>4. panic' \in Panics BY Panicking
<1>5. BuffersOK'
  <2>1. ASSUME NEW b \in S PROVE BuffersOK!(b)'
    BY Panicking DEF BuffersOK, TypeOK
  <2>2. ASSUME NEW b \in Bufs \ S PROVE BuffersOK!(b)'
    BY DEF BuffersOK, TypeOK
  <2> QED BY <2>1, <2>2 DEF BuffersOK
<1>6. OneBufferPerBlock' BY DEF OneBufferPerBlock, TypeOK
<1>7. UNCHANGED bp => OwnersOK' BY DEF OwnersOK, BuffersOK, TypeOK
<1> QED BY <1>1, <1>2, <1>3, <1>4, <1>5, <1>6, <1>7

\* update.
LEMMA SyncInv ==
  ASSUME IInv, NEW p \in Procs, Sync(p)
  PROVE  IInv'
<1> USE DEF IInv, Sync
<1>1. /\ panic = "none" /\ Bflush(DelayedWrites, {}) /\ UNCHANGED <<bno, bp>>
  BY DEF Running
<1>2. /\ flags' \in [Bufs -> SUBSET Flags]
      /\ io' \in [Bufs -> {"none", "read", "write"}]
      /\ avail' \in [Bufs -> {"none", "locked", "reusable"}]
      /\ panic' \in Panics
      /\ BuffersOK' /\ OwnersOK' /\ OneBufferPerBlock'
  BY <1>1, BflushInv
<1>3. TypeOK' BY <1>2 DEF TypeOK
<1> USE DEF Bflush, DelayedWrites, WriteFlags
<1>4. ProcessesOK' BY DEF ProcessesOK, LooksAhead, OwnersOK, BuffersOK, TypeOK
<1>5. NoLostWakeup' BY DEF NoLostWakeup, BuffersOK, TypeOK
<1> QED BY <1>2, <1>3, <1>4, <1>5

\* The last close.
LEMMA CloseInv ==
  ASSUME IInv, NEW p \in Procs, Close(p)
  PROVE  IInv'
<1> USE DEF IInv, Close
<1>1. /\ panic = "none" /\ Bflush({b \in DelayedWrites : bno[b] # NoBlock}, {"INVAL"})
      /\ UNCHANGED <<bno, bp>>
      /\ {b \in DelayedWrites : bno[b] # NoBlock} \in SUBSET DelayedWrites
  BY DEF Running
<1>2. /\ flags' \in [Bufs -> SUBSET Flags]
      /\ io' \in [Bufs -> {"none", "read", "write"}]
      /\ avail' \in [Bufs -> {"none", "locked", "reusable"}]
      /\ panic' \in Panics
      /\ BuffersOK' /\ OwnersOK' /\ OneBufferPerBlock'
  BY <1>1, BflushInv
<1>3. TypeOK' BY <1>2 DEF TypeOK
<1> USE DEF Bflush, DelayedWrites, WriteFlags
<1>4. ProcessesOK' BY DEF ProcessesOK, LooksAhead, OwnersOK, BuffersOK, TypeOK
<1>5. NoLostWakeup' BY DEF NoLostWakeup, BuffersOK, TypeOK
<1> QED BY <1>2, <1>3, <1>4, <1>5

\* fson locks the super block in core.
LEMMA PinInv ==
  ASSUME IInv, NEW p \in Procs, Pin(p)
  PROVE  IInv'
<1> USE DEF IInv
<1>1. TypeOK'
  <2>1. bp[p] \in Bufs BY DEF Pin, TypeOK, ProcessesOK
  <2>2. flags[bp[p]] \cup {"LOCKED"} \in SUBSET Flags BY <2>1 DEF TypeOK, Flags
  <2>3. Brelse(bp[p], flags[bp[p]] \cup {"LOCKED"}) BY DEF Pin
  <2> QED BY <2>1, <2>2, <2>3, BrelseTypes DEF Pin, Goto, PCs, TypeOK
<1> USE DEF Pin, Brelse, Goto
<1>2. BuffersOK' BY DEF TypeOK, BuffersOK, ProcessesOK
<1>3. OwnersOK' BY DEF TypeOK, OwnersOK
<1>4. ProcessesOK' BY DEF TypeOK, ProcessesOK, LooksAhead
<1>5. NoLostWakeup' BY DEF NoLostWakeup
<1>6. OneBufferPerBlock' BY DEF OneBufferPerBlock
<1> QED BY <1>1, <1>2, <1>3, <1>4, <1>5, <1>6

\* fson ends well.
LEMMA MountedInv ==
  ASSUME IInv, NEW p \in Procs, Mounted(p)
  PROVE  IInv'
<1> USE DEF IInv, Mounted, Return, NoReq, bufVars
<1>1. TypeOK' BY DEF Running, TypeOK, PCs, Requests
<1>2. BuffersOK' BY DEF BuffersOK
<1>3. OwnersOK' BY DEF OwnersOK, ProcessesOK
<1>4. ProcessesOK' BY DEF ProcessesOK, LooksAhead
<1>5. NoLostWakeup' BY DEF NoLostWakeup
<1>6. OneBufferPerBlock' BY DEF OneBufferPerBlock
<1> QED BY <1>1, <1>2, <1>3, <1>4, <1>5, <1>6

\* fson fails, and unlocks the buffer.
LEMMA MountFailedInv ==
  ASSUME IInv, NEW p \in Procs, MountFailed(p)
  PROVE  IInv'
<1> USE DEF IInv
<1>1. TypeOK'
  <2>1. flags' \in [Bufs -> SUBSET Flags] BY DEF MountFailed, TypeOK
  <2> QED BY <2>1, ReturnTypes DEF MountFailed, TypeOK
<1> USE DEF MountFailed, Return, NoReq
<1>2. BuffersOK' BY DEF BuffersOK
<1>3. OwnersOK' BY DEF OwnersOK, ProcessesOK
<1>4. ProcessesOK' BY DEF ProcessesOK, LooksAhead
<1>5. NoLostWakeup' BY DEF NoLostWakeup
<1>6. OneBufferPerBlock' BY DEF OneBufferPerBlock
<1> QED BY <1>1, <1>2, <1>3, <1>4, <1>5, <1>6

\* fsoff begins with update.
LEMMA BeginUmountInv ==
  ASSUME IInv, NEW p \in Procs, BeginUmount(p)
  PROVE  IInv'
<1> USE DEF IInv, BeginUmount
<1>1. /\ panic = "none" /\ Bflush(DelayedWrites, {}) /\ UNCHANGED <<bno, bp>>
  BY DEF Running
<1>2. /\ flags' \in [Bufs -> SUBSET Flags]
      /\ io' \in [Bufs -> {"none", "read", "write"}]
      /\ avail' \in [Bufs -> {"none", "locked", "reusable"}]
      /\ panic' \in Panics
      /\ BuffersOK' /\ OwnersOK' /\ OneBufferPerBlock'
  BY <1>1, BflushInv
<1>3. TypeOK' BY <1>2 DEF TypeOK, Goto, PCs, Requests, AllOps
<1> USE DEF Bflush, DelayedWrites, WriteFlags
<1>4. ProcessesOK' BY DEF ProcessesOK, LooksAhead, OwnersOK, BuffersOK, TypeOK, Goto
<1>5. NoLostWakeup' BY DEF NoLostWakeup, BuffersOK, TypeOK, Goto
<1> QED BY <1>2, <1>3, <1>4, <1>5

\* fsoff releases or writes the super block.
LEMMA UnpinInv ==
  ASSUME IInv, NEW p \in Procs, Unpin(p)
  PROVE  IInv'
<1> DEFINE b == bp[p]
           f == flags[b] \ {"LOCKED", "ASYNC"}
<1> USE DEF IInv
<1>1. /\ b \in Bufs /\ f \in SUBSET Flags /\ WriteFlags(f) \in SUBSET Flags
      /\ io[b] = "none" /\ "ASYNC" \notin f /\ "BUSY" \in f
      /\ panic = "none" /\ pc[p] = "hold" /\ chan[p] = NoChan
  BY DEF Unpin, Running, TypeOK, ProcessesOK, WriteFlags, OwnersOK
<1>2. CASE Brelse(b, f) /\ Return(p) /\ panic' = PanicUmount(b)
           /\ super' = NoBuf /\ UNCHANGED <<data, disk, ops, io>>
  <2> USE <1>1, <1>2
  <2>1. TypeOK'
    BY BrelseTypes, Panicking DEF TypeOK, Return, NoReq, Requests, PCs
  <2> USE DEF Brelse, Return, NoReq
  <2>2. BuffersOK' BY DEF TypeOK, BuffersOK, OwnersOK
  <2>3. OwnersOK' BY DEF TypeOK, OwnersOK
  <2>4. ProcessesOK' BY DEF TypeOK, OwnersOK, ProcessesOK, LooksAhead
  <2>5. NoLostWakeup' BY DEF TypeOK, NoLostWakeup, ProcessesOK
  <2>6. OneBufferPerBlock' BY DEF TypeOK, OneBufferPerBlock
  <2> QED BY <2>1, <2>2, <2>3, <2>4, <2>5, <2>6
<1>3. CASE /\ Strategy(b, WriteFlags(f), "write") /\ panic' = PanicUnpin(b)
           /\ Goto(p, "wrwait") /\ super' = NoBuf
           /\ UNCHANGED <<data, disk, ops, bno, freeWanted, chan, req, want, cand, bp>>
  <2> USE <1>1, <1>3
  <2>1. TypeOK' BY StrategyTypes, Panicking DEF TypeOK, Goto, PCs
  <2> USE DEF Strategy, WriteFlags, Goto
  <2>2. BuffersOK'
    <3>1. BuffersOK!(b)' BY Panicking DEF BuffersOK, TypeOK
    <3>2. ASSUME NEW c \in Bufs \ {b} PROVE BuffersOK!(c)'
      BY DEF BuffersOK, TypeOK
    <3> QED BY <3>1, <3>2 DEF BuffersOK
  <2>3. OwnersOK' BY DEF TypeOK, OwnersOK
  <2>4. ProcessesOK' BY DEF TypeOK, OwnersOK, ProcessesOK, LooksAhead
  <2>5. NoLostWakeup' BY DEF TypeOK, NoLostWakeup, ProcessesOK
  <2>6. OneBufferPerBlock' BY DEF TypeOK, OneBufferPerBlock
  <2> QED BY <2>1, <2>2, <2>3, <2>4, <2>5, <2>6
<1> QED BY <1>2, <1>3 DEF Unpin

-----------------------------------------------------------------------------
(***************************************************************************)
(* The world outside the process that runs.                                *)
(***************************************************************************)

\* A transfer ends: brelse for an asynchronous one, wakeup for the others.
LEMMA IodoneInv ==
  ASSUME IInv, NEW b \in Bufs, NEW err \in BOOLEAN, Iodone(b, err)
  PROVE  IInv'
<1> DEFINE f == flags[b] \cup {"DONE"} \cup (IF err THEN {"ERROR"} ELSE {})
<1> USE DEF IInv
<1>1. /\ panic = "none" /\ io[b] # "none"
      /\ panic' = PanicIodone(b)
      /\ io' = [io EXCEPT ![b] = "none"]
      /\ UNCHANGED <<super, pc, req, want, cand, bp, ops>>
  BY DEF Iodone
<1>2. /\ f \in SUBSET Flags /\ bno[b] \in Blocks /\ "BUSY" \in f
      /\ "INVAL" \in f <=> "INVAL" \in flags[b]
      /\ "ASYNC" \in f <=> "ASYNC" \in flags[b]
      /\ "DONE" \in f /\ "BUSY" \in flags[b]
      /\ "WANTED" \in f <=> "WANTED" \in flags[b]
  BY <1>1 DEF TypeOK, BuffersOK, Flags
<1>3. data' \in [Bufs -> Values] /\ disk' \in [Blocks -> Values]
  BY <1>1, <1>2 DEF Iodone, TypeOK
<1>4. CASE "ASYNC" \in f
  <2>1. Brelse(b, f) BY <1>4 DEF Iodone
  <2> HIDE DEF f
  <2> USE <1>1, <1>2, <1>4, <2>1
  <2>2. TypeOK' BY <1>3, BrelseTypes, Panicking DEF TypeOK
  <2> USE DEF Brelse
  <2>3. BuffersOK' BY DEF TypeOK, BuffersOK
  <2>4. OwnersOK' BY DEF TypeOK, OwnersOK
  <2>5. ProcessesOK' BY DEF TypeOK, OwnersOK, ProcessesOK, LooksAhead
  <2>6. NoLostWakeup' BY DEF TypeOK, OwnersOK, NoLostWakeup, ProcessesOK
  <2>7. OneBufferPerBlock' BY DEF TypeOK, OneBufferPerBlock
  <2> QED BY <2>2, <2>3, <2>4, <2>5, <2>6, <2>7
<1>5. CASE "ASYNC" \notin f
  <2>1. /\ flags' = [flags EXCEPT ![b] = f \ {"WANTED"}]
        /\ chan' = Bwakeup(b)
        /\ UNCHANGED <<bno, avail, freeWanted>>
    BY <1>5 DEF Iodone
  <2> HIDE DEF f
  <2> USE <1>1, <1>2, <1>5, <2>1 DEF Bwakeup
  <2>2. TypeOK' BY <1>3, Panicking DEF TypeOK
  <2>3. BuffersOK' BY DEF TypeOK, BuffersOK
  <2>4. OwnersOK' BY DEF TypeOK, OwnersOK
  <2>5. ProcessesOK' BY DEF TypeOK, OwnersOK, ProcessesOK, LooksAhead
  <2>6. NoLostWakeup' BY DEF TypeOK, OwnersOK, NoLostWakeup, ProcessesOK
  <2>7. OneBufferPerBlock' BY DEF TypeOK, OneBufferPerBlock
  <2> QED BY <2>2, <2>3, <2>4, <2>5, <2>6, <2>7
<1> QED BY <1>4, <1>5

\* A sleep ends early: nothing else changes.
LEMMA PrematureReturnInv ==
  ASSUME IInv, NEW p \in Procs, PrematureReturn(p)
  PROVE  IInv'
<1> USE DEF IInv, PrematureReturn, Sleep, bufVars
<1>1. TypeOK' BY DEF TypeOK
<1>2. BuffersOK' BY DEF BuffersOK
<1>3. OwnersOK' BY DEF OwnersOK
<1>4. ProcessesOK' BY DEF ProcessesOK, LooksAhead
<1>5. NoLostWakeup' BY DEF NoLostWakeup
<1>6. OneBufferPerBlock' BY DEF OneBufferPerBlock
<1> QED BY <1>1, <1>2, <1>3, <1>4, <1>5, <1>6

-----------------------------------------------------------------------------
(***************************************************************************)
(* The theorems.                                                           *)
(***************************************************************************)

\* binit: every buffer is free and associated with no block.
LEMMA InitInv == Init => IInv
<1> SUFFICES ASSUME Init PROVE IInv
  OBVIOUS
<1> USE DEF Init
<1>1. TypeOK
  <2>1. req \in [Procs -> Requests] BY DEF NoReq, Requests, AllOps
  <2>2. flags \in [Bufs -> SUBSET Flags] BY DEF Flags
  <2>3. data \in [Bufs -> Values] /\ disk \in [Blocks -> Values] OBVIOUS
  <2>4. pc \in [Procs -> PCs] /\ panic \in Panics BY DEF PCs, Panics
  <2>5. /\ bno \in [Bufs -> Blocks \cup {NoBlock}]
        /\ avail \in [Bufs -> {"none", "locked", "reusable"}]
        /\ io \in [Bufs -> {"none", "read", "write"}]
        /\ freeWanted \in BOOLEAN /\ super \in Bufs \cup {NoBuf}
    OBVIOUS
  <2>6. /\ want \in [Procs -> Blocks \cup {NoBlock}]
        /\ cand \in [Procs -> Bufs \cup {NoBuf}]
        /\ bp \in [Procs -> Bufs \cup {NoBuf}]
        /\ chan \in [Procs -> Bufs \cup {NoChan, FreeList}]
        /\ ops \in 0..MaxOps
    OBVIOUS
  <2> HIDE DEF Init
  <2> QED BY <2>1, <2>2, <2>3, <2>4, <2>5, <2>6 DEF TypeOK
<1>2. BuffersOK /\ OwnersOK /\ OneBufferPerBlock
  BY DEF BuffersOK, OwnersOK, OneBufferPerBlock
<1>3. ProcessesOK /\ NoLostWakeup BY DEF ProcessesOK, NoLostWakeup
<1> QED BY <1>1, <1>2, <1>3 DEF IInv

\* Steps that change nothing.
LEMMA StutterInv ==
  ASSUME IInv, UNCHANGED vars
  PROVE  IInv'
<1> USE DEF IInv, vars, bufVars, procVars
<1>1. TypeOK' BY DEF TypeOK
<1>2. BuffersOK' /\ OwnersOK' /\ OneBufferPerBlock'
  BY DEF BuffersOK, OwnersOK, OneBufferPerBlock
<1>3. ProcessesOK' /\ NoLostWakeup'
  BY DEF ProcessesOK, NoLostWakeup, LooksAhead
<1> QED BY <1>1, <1>2, <1>3

\* Every step keeps the invariant.
LEMMA NextInv == IInv /\ [Next]_vars => IInv'
<1> SUFFICES ASSUME IInv, [Next]_vars PROVE IInv'
  OBVIOUS
<1>1. ASSUME NEW p \in Procs, Call(p) PROVE IInv'
  BY <1>1, BeginInv, SyncInv, CloseInv, BeginUmountInv DEF Call
<1>2. ASSUME NEW p \in Procs, Proceed(p) PROVE IInv'
  <2>1. CASE Walk(p) \/ WaitFree(p) \/ WaitBusy(p) \/ TakeFound(p) \/ Ahead(p)
    BY <2>1, WalkInv, WaitFreeInv, WaitBusyInv, TakeFoundInv, AheadInv
  <2>2. CASE \E v \in Bufs : WriteVictim(p, v) \/ Reassign(p, v)
    BY <2>2, WriteVictimInv, ReassignInv
  <2>3. CASE SleepIo(p) \/ ReadDone(p) \/ Release(p) \/ Fill(p) \/ Fault(p)
    BY <2>3, SleepIoInv, ReadDoneInv, ReleaseInv, FillInv, FaultInv
  <2>4. CASE Bwrite(p) \/ Bawrite(p) \/ Bdwrite(p) \/ WriteDone(p)
    BY <2>4, BwriteInv, BawriteInv, BdwriteInv, WriteDoneInv
  <2>5. CASE Pin(p) \/ Mounted(p) \/ MountFailed(p) \/ Unpin(p)
    BY <2>5, PinInv, MountedInv, MountFailedInv, UnpinInv
  <2> QED BY <1>2, <2>1, <2>2, <2>3, <2>4, <2>5 DEF Proceed
<1>3. CASE Interrupt BY <1>3, IodoneInv DEF Interrupt
<1>4. CASE Finished \/ UNCHANGED vars BY <1>4, StutterInv DEF Finished
<1> QED BY <1>1, <1>2, <1>3, <1>4, PrematureReturnInv DEF Next

\* IInv holds in every state the program reaches.
THEOREM Invariance == Spec => []IInv
BY InitInv, NextInv, PTL DEF Spec

\* Type correctness.
THEOREM TypeCorrect == Spec => []TypeOK
<1>1. IInv => TypeOK BY DEF IInv
<1> QED BY <1>1, Invariance, PTL

\* Two processes that miss on one block, while getblk sleeps, never end up
\* with two buffers associated with it.
THEOREM NoAliases == Spec => []OneBufferPerBlock
<1>1. IInv => OneBufferPerBlock BY DEF IInv
<1> QED BY <1>1, Invariance, PTL

\* A buffer is on a free list or has one master, the driver or a process.
THEOREM MutualExclusion == Spec => []Exclusive
<1>1. IInv => Exclusive
  BY DEF IInv, TypeOK, BuffersOK, OwnersOK, Exclusive, Holders
<1> QED BY <1>1, Invariance, PTL

\* Whoever sleeps in getblk or iowait has an event to wait for.
THEOREM WakeupsNotLost == Spec => []NoLostWakeup
<1>1. IInv => NoLostWakeup BY DEF IInv
<1> QED BY <1>1, Invariance, PTL

-----------------------------------------------------------------------------
(***************************************************************************)
(* What the buffer cache does to the contents of the blocks, for any       *)
(* number of processes, buffers, blocks and operations: it does not panic, *)
(* a synchronous write reaches the disk, and a clean buffer holds what the *)
(* disk holds.                                                             *)
(*                                                                         *)
(* The argument is the inductive invariant CInv of BufCache: on top of     *)
(* IInv it says what a process was asked for (RequestsOK), that the buffer *)
(* it has is still its block's (AssociationsOK), what the flags say of the *)
(* contents (ContentsOK), and that the super block stays pinned (SuperOK). *)
(* Each theorem assumes of the constants what the code needs and no more:  *)
(* a transfer that fails takes the name of a buffer away, and a driver     *)
(* that finds a buffer without a name panics (~IOErrors); binval, at the   *)
(* last close, throws out a buffer whose write is still queued (NoClose);  *)
(* fswrite, when the copy from the user's space fails, releases a buffer   *)
(* it has changed and not marked for writing (~Faults, in Healthy).        *)
(***************************************************************************)

-----------------------------------------------------------------------------
(***************************************************************************)
(* The actions keep CInv: one lemma for each, and in it one step for each  *)
(* conjunct.                                                               *)
(***************************************************************************)

\* The driver panics for nothing else than a buffer without a name.
LEMMA NotPanicking ==
  /\ \A w : w # NoBlock => PanicAt(w) = "none"
  /\ \A S : (\A b \in S : bno[b] # NoBlock) => PanicFlush(S) = "none"
BY DEF PanicAt, PanicFlush

\* A process begins an operation.
LEMMA BeginData ==
  ASSUME CInv, IInv', NEW p \in Procs, NEW name \in Ops, NEW b \in Blocks \cup {NoBlock},
         NEW r \in Blocks \cup {NoBlock}, Begin(p, name, b, r)
  PROVE  CInv'
<1> USE DEF CInv, IInv, Begin, Goto, SkipsFirst, bufVars
<1>1. RequestsOK'
  <2>1. /\ req'[p].op = name /\ req'[p].blk = b /\ req'[p].ra = r
        /\ want'[p] = b /\ pc'[p] \in {"ahead", "scan"}
        /\ name \in AllOps \ {"umount"} /\ (name = "mount" => b = Super)
    BY DEF TypeOK
  <2>2. \A q \in Procs \ {p} :
           req'[q] = req[q] /\ want'[q] = want[q] /\ pc'[q] = pc[q]
    BY DEF TypeOK
  <2>3. RequestsOK!(p)' BY <2>1 DEF AllOps, RequestsOK
  <2>4. ASSUME NEW q \in Procs \ {p} PROVE RequestsOK!(q)'
    BY <2>2 DEF RequestsOK, LooksAhead
  <2> QED BY <2>3, <2>4 DEF RequestsOK
<1>2. AssociationsOK' BY DEF AssociationsOK, ProcessesOK
<1>3. ContentsOK' BY DEF ContentsOK
<1>4. SuperOK' BY DEF NoMount, SuperOK
<1>5. ~IOErrors => NoPanic' BY DEF NoPanic
<1>6. NoClose => SyncWriteDurable' BY DEF SyncWriteDurable
<1>7. NoClose /\ Healthy => CleanMatchesDisk' BY DEF CleanMatchesDisk, Hit, Holders
<1> QED BY <1>1, <1>2, <1>3, <1>4, <1>5, <1>6, <1>7

\* getblk finds the block in a hash chain.
LEMMA WalkData ==
  ASSUME CInv, IInv', NEW p \in Procs, Walk(p)
  PROVE  CInv'
<1> USE DEF CInv, IInv, Walk, Goto, Hit, bufVars
<1>1. RequestsOK' BY DEF RequestsOK, LooksAhead
<1>2. AssociationsOK' BY DEF TypeOK, AssociationsOK
<1>3. ContentsOK' BY DEF ContentsOK
<1>4. SuperOK' BY DEF SuperOK
<1>5. ~IOErrors => NoPanic' BY DEF NoPanic
<1>6. NoClose => SyncWriteDurable' BY DEF SyncWriteDurable
<1>7. NoClose /\ Healthy => CleanMatchesDisk' BY DEF CleanMatchesDisk, Holders
<1> QED BY <1>1, <1>2, <1>3, <1>4, <1>5, <1>6, <1>7

\* getblk waits for any buffer.
LEMMA WaitFreeData ==
  ASSUME CInv, IInv', NEW p \in Procs, WaitFree(p)
  PROVE  CInv'
<1> USE DEF CInv, IInv, WaitFree, Sleep
<1>1. RequestsOK' BY DEF RequestsOK, LooksAhead
<1>2. AssociationsOK' BY DEF AssociationsOK
<1>3. ContentsOK' BY DEF ContentsOK
<1>4. SuperOK' BY DEF SuperOK
<1>5. ~IOErrors => NoPanic' BY DEF NoPanic
<1>6. NoClose => SyncWriteDurable' BY DEF SyncWriteDurable
<1>7. NoClose /\ Healthy => CleanMatchesDisk' BY DEF CleanMatchesDisk, Hit, Holders
<1> QED BY <1>1, <1>2, <1>3, <1>4, <1>5, <1>6, <1>7

\* getblk starts the delayed write of a buffer it would like to take.
LEMMA WriteVictimData ==
  ASSUME CInv, IInv', NEW p \in Procs, NEW v \in Bufs, WriteVictim(p, v)
  PROVE  CInv'
<1> USE DEF CInv, IInv, WriteVictim, Strategy, WriteFlags, Reusable, procVars
<1>0. panic' = PanicAt(bno[v]) /\ (bno[v] # NoBlock => panic' = "none")
  BY NotPanicking DEF WriteVictim
<1>1. RequestsOK' BY DEF RequestsOK, LooksAhead
<1>2. AssociationsOK' BY DEF Running, AssociationsOK, OwnersOK
<1>3. ContentsOK' BY DEF ContentsOK
<1>4. SuperOK' BY DEF SuperOK
<1>5. ~IOErrors => NoPanic' BY <1>0 DEF NoPanic, ContentsOK
<1>6. NoClose => SyncWriteDurable' BY DEF SyncWriteDurable
<1>7. NoClose /\ Healthy => CleanMatchesDisk' BY DEF CleanMatchesDisk, Hit, Holders
<1> QED BY <1>1, <1>2, <1>3, <1>4, <1>5, <1>6, <1>7

\* getblk waits for a busy buffer.
LEMMA WaitBusyData ==
  ASSUME CInv, IInv', NEW p \in Procs, WaitBusy(p)
  PROVE  CInv'
<1> USE DEF CInv, IInv, WaitBusy, Sleep, Goto
<1>1. RequestsOK' BY DEF RequestsOK, LooksAhead
<1>2. AssociationsOK' BY DEF AssociationsOK, ProcessesOK
<1>3. ContentsOK' BY DEF ContentsOK
<1>4. SuperOK' BY DEF SuperOK
<1>5. ~IOErrors => NoPanic' BY DEF NoPanic
<1>6. NoClose => SyncWriteDurable' BY DEF SyncWriteDurable
<1>7. NoClose /\ Healthy => CleanMatchesDisk' BY DEF CleanMatchesDisk, Hit, Holders
<1> QED BY <1>1, <1>2, <1>3, <1>4, <1>5, <1>6, <1>7

\* breada turns to the block ahead.
LEMMA AheadData ==
  ASSUME CInv, IInv', NEW p \in Procs, Ahead(p)
  PROVE  CInv'
<1> USE DEF CInv, IInv, Ahead, AfterAhead, Goto, bufVars
<1>1. RequestsOK' BY DEF TypeOK, RequestsOK, ProcessesOK, LooksAhead
<1>2. AssociationsOK' BY DEF TypeOK, AssociationsOK
<1>3. ContentsOK' BY DEF ContentsOK
<1>4. SuperOK'
  <2>1. \A q \in Procs : \/ req'[q].op = req[q].op /\ pc'[q] = pc[q]
                         \/ req'[q].op \in {"read", "readahead"}
    BY DEF TypeOK, ProcessesOK
  <2> QED BY <2>1 DEF SuperOK
<1>5. ~IOErrors => NoPanic' BY DEF NoPanic
<1>6. NoClose => SyncWriteDurable' BY DEF SyncWriteDurable, TypeOK
<1>7. NoClose /\ Healthy => CleanMatchesDisk'
  BY DEF CleanMatchesDisk, Hit, Holders, TypeOK
<1> QED BY <1>1, <1>2, <1>3, <1>4, <1>5, <1>6, <1>7

\* iowait sleeps.
LEMMA SleepIoData ==
  ASSUME CInv, IInv', NEW p \in Procs, SleepIo(p)
  PROVE  CInv'
<1> USE DEF CInv, IInv, SleepIo, Sleep, bufVars
<1>1. RequestsOK' BY DEF RequestsOK, LooksAhead
<1>2. AssociationsOK' BY DEF AssociationsOK
<1>3. ContentsOK' BY DEF ContentsOK
<1>4. SuperOK' BY DEF SuperOK
<1>5. ~IOErrors => NoPanic' BY DEF NoPanic
<1>6. NoClose => SyncWriteDurable' BY DEF SyncWriteDurable
<1>7. NoClose /\ Healthy => CleanMatchesDisk' BY DEF CleanMatchesDisk, Hit, Holders
<1> QED BY <1>1, <1>2, <1>3, <1>4, <1>5, <1>6, <1>7

\* iowait returns.
LEMMA ReadDoneData ==
  ASSUME CInv, IInv', NEW p \in Procs, ReadDone(p)
  PROVE  CInv'
<1> USE DEF CInv, IInv, ReadDone, Goto, bufVars
<1>1. RequestsOK'
  <2>1. /\ pc'[p] \in {"fail", "hold"}
        /\ pc'[p] = "fail" => IOErrors
    BY DEF TypeOK, ContentsOK, ProcessesOK
  <2>2. RequestsOK!(p)' BY <2>1 DEF RequestsOK, LooksAhead
  <2>3. ASSUME NEW q \in Procs \ {p} PROVE RequestsOK!(q)'
    BY DEF TypeOK, RequestsOK, LooksAhead
  <2> QED BY <2>2, <2>3 DEF RequestsOK
<1>2. AssociationsOK' BY DEF AssociationsOK
<1>3. ContentsOK' BY DEF ContentsOK
<1>4. SuperOK' BY DEF SuperOK
<1>5. ~IOErrors => NoPanic' BY DEF NoPanic
<1>6. NoClose => SyncWriteDurable' BY DEF SyncWriteDurable
<1>7. NoClose /\ Healthy => CleanMatchesDisk' BY DEF CleanMatchesDisk, Hit, Holders
<1> QED BY <1>1, <1>2, <1>3, <1>4, <1>5, <1>6, <1>7

\* fswrite changes its buffer.
LEMMA FillData ==
  ASSUME CInv, IInv', NEW p \in Procs, Fill(p)
  PROVE  CInv'
<1> USE DEF CInv, IInv, Fill, Goto
<1>1. RequestsOK' BY DEF RequestsOK, LooksAhead
<1>2. AssociationsOK' BY DEF AssociationsOK
<1>3. ContentsOK' BY DEF ContentsOK
<1>4. SuperOK' BY DEF SuperOK
<1>5. ~IOErrors => NoPanic' BY DEF NoPanic
<1>6. NoClose => SyncWriteDurable' BY DEF SyncWriteDurable, ProcessesOK, OwnersOK
<1>7. NoClose /\ Healthy => CleanMatchesDisk'
  BY DEF CleanMatchesDisk, Hit, Holders, TypeOK
<1> QED BY <1>1, <1>2, <1>3, <1>4, <1>5, <1>6, <1>7

\* bwrite starts the transfer.
LEMMA BwriteData ==
  ASSUME CInv, IInv', NEW p \in Procs, Bwrite(p)
  PROVE  CInv'
<1> USE DEF CInv, IInv, Bwrite, Strategy, WriteFlags, Goto
<1>0. bno[bp[p]] # NoBlock => panic' = "none" BY NotPanicking DEF Bwrite
<1>1. RequestsOK' BY DEF RequestsOK, LooksAhead
<1>2. AssociationsOK' BY DEF Running, TypeOK, AssociationsOK, OwnersOK, BuffersOK
<1>3. ContentsOK' BY DEF ContentsOK
<1>4. SuperOK' BY DEF TypeOK, SuperOK
<1>5. ~IOErrors => NoPanic' BY <1>0 DEF NoPanic, RequestsOK, AssociationsOK, ProcessesOK
<1>6. NoClose => SyncWriteDurable' BY DEF SyncWriteDurable, TypeOK
<1>7. NoClose /\ Healthy => CleanMatchesDisk'
  BY DEF CleanMatchesDisk, Hit, Holders, TypeOK, RequestsOK
<1> QED BY <1>1, <1>2, <1>3, <1>4, <1>5, <1>6, <1>7

\* bawrite gives the buffer to the driver.
LEMMA BawriteData ==
  ASSUME CInv, IInv', NEW p \in Procs, Bawrite(p)
  PROVE  CInv'
<1> USE DEF CInv, IInv, Bawrite, Strategy, WriteFlags, Return, NoReq
<1>0. bno[bp[p]] # NoBlock => panic' = "none" BY NotPanicking DEF Bawrite
<1>1. RequestsOK' BY DEF TypeOK, RequestsOK, LooksAhead
<1>2. AssociationsOK' BY DEF Running, TypeOK, AssociationsOK, OwnersOK
<1>3. ContentsOK' BY DEF ContentsOK
<1>4. SuperOK' BY DEF TypeOK, RequestsOK, AssociationsOK, SuperOK
<1>5. ~IOErrors => NoPanic'
  BY <1>0 DEF Running, NoPanic, RequestsOK, AssociationsOK, ProcessesOK
<1>6. NoClose => SyncWriteDurable' BY DEF SyncWriteDurable
<1>7. NoClose /\ Healthy => CleanMatchesDisk'
  BY DEF Healthy, CleanMatchesDisk, Hit, Holders, ProcessesOK, OwnersOK
<1> QED BY <1>1, <1>2, <1>3, <1>4, <1>5, <1>6, <1>7

\* What brelse does to the buffer, and to no other.
LEMMA BrelseIs ==
  ASSUME TypeOK, NEW b \in Bufs, NEW f \in SUBSET Flags, Brelse(b, f)
  PROVE  /\ \A c \in Bufs \ {b} :
              flags'[c] = flags[c] /\ bno'[c] = bno[c] /\ avail'[c] = avail[c]
         /\ \A flag \in {"INVAL", "LOCKED", "DELWRI", "DONE"} :
              flag \in flags'[b] <=> flag \in f
         /\ "ERROR" \in flags'[b] => "ERROR" \in f
         /\ bno'[b] # bno[b] =>
              "ERROR" \in f /\ "LOCKED" \notin f /\ bno'[b] = NoBlock
         /\ "LOCKED" \in f /\ "INVAL" \notin f => avail'[b] = "locked"
BY DEF TypeOK, Brelse

\* The end of an operation, for the process that ends it and for the others.
LEMMA ReturnIs ==
  ASSUME TypeOK, NEW p \in Procs, Return(p)
  PROVE  /\ pc'[p] = "idle" /\ bp'[p] = NoBuf
         /\ req'[p].op = "none" /\ req'[p].blk = NoBlock
         /\ \A q \in Procs \ {p} :
              /\ pc'[q] = pc[q] /\ req'[q] = req[q] /\ want'[q] = want[q]
              /\ cand'[q] = cand[q] /\ bp'[q] = bp[q]
BY DEF TypeOK, Return, NoReq

\* brelse by the owner of the buffer, whose operation is over: the contents are
\* the disk's, or there was a fault, or B_DELWRI says that they are to be written.
LEMMA GiveBackData ==
  ASSUME CInv, IInv', NEW p \in Procs, NEW b \in Bufs, NEW f \in SUBSET Flags,
         b = bp[p], panic = "none", \A q \in Procs \ {p} : pc[q] # "test",
         Brelse(b, f), Return(p), UNCHANGED <<data, io, disk, super>>,
         \/ /\ f = flags[b] /\ panic' = panic
            /\ pc[p] = "dirty" => Faults
         \/ /\ f = flags[b] \cup {"DELWRI", "DONE"} /\ pc[p] = "dirty"
            /\ bno[b] # NoBlock => panic' = "none"
  PROVE  CInv'
<1>0. TypeOK BY DEF CInv, IInv
<1>1. /\ \A c \in Bufs \ {b} :
           flags'[c] = flags[c] /\ bno'[c] = bno[c] /\ avail'[c] = avail[c]
      /\ \A flag \in {"INVAL", "LOCKED", "DELWRI", "DONE"} :
           flag \in flags'[b] <=> flag \in f
      /\ "ERROR" \in flags'[b] => "ERROR" \in flags[b]
      /\ bno'[b] # bno[b] => "ERROR" \in flags[b] /\ "LOCKED" \notin f /\ bno'[b] = NoBlock
      /\ "LOCKED" \in f /\ "INVAL" \notin f => avail'[b] = "locked"
      /\ \A flag \in {"INVAL", "LOCKED"} : flag \in f <=> flag \in flags[b]
  BY <1>0, BrelseIs
<1>2. /\ pc'[p] = "idle" /\ bp'[p] = NoBuf
      /\ req'[p].op = "none" /\ req'[p].blk = NoBlock
      /\ \A q \in Procs \ {p} :
           /\ pc'[q] = pc[q] /\ req'[q] = req[q] /\ want'[q] = want[q]
           /\ cand'[q] = cand[q] /\ bp'[q] = bp[q]
  BY <1>0, ReturnIs
<1>3. /\ \A q \in Procs \ {p} : bp[q] # b /\ (bp[q] # NoBuf => bp[q] \in Bufs)
      /\ \A q \in Procs : pc[q] = "wrwait" => bp[q] # NoBuf
      /\ super # NoBuf => super \in Bufs
  BY <1>0 DEF CInv, IInv, TypeOK, OwnersOK, ProcessesOK
<1>4. RequestsOK' BY <1>2 DEF CInv, RequestsOK, LooksAhead
<1>5. AssociationsOK'
  BY <1>1, <1>2, <1>3 DEF CInv, IInv, ProcessesOK, AssociationsOK
<1>6. ~IOErrors => "ERROR" \notin flags[b] BY DEF CInv, ContentsOK
<1>7. ~IOErrors /\ pc[p] = "dirty" => bno[b] # NoBlock
  BY DEF CInv, AssociationsOK, RequestsOK
<1>8. ContentsOK' BY <1>1, <1>6, <1>7 DEF CInv, ContentsOK
<1>9. SuperOK'
  <2>1. \A q \in Procs : req'[q].op \in {"mount", "umount"}
          => q # p /\ req'[q] = req[q] /\ pc'[q] = pc[q]
    BY <1>2
  <2>2. ~IOErrors /\ super # NoBuf =>
          /\ bno'[super] = Super /\ avail'[super] # "reusable"
          /\ "LOCKED" \in flags'[super] /\ "INVAL" \notin flags'[super]
          /\ "DONE" \in flags'[super] \/ io'[super] = "write"
    BY <1>1, <1>3, <1>6 DEF CInv, SuperOK
  <2> QED BY <2>1, <2>2 DEF CInv, SuperOK
<1>10. ~IOErrors => NoPanic' BY <1>7 DEF NoPanic
<1>11. NoClose => SyncWriteDurable'
  BY <1>1, <1>2, <1>3 DEF CInv, SyncWriteDurable
<1>12. NoClose /\ Healthy => CleanMatchesDisk'
  <2> SUFFICES ASSUME NoClose, Healthy, NEW c \in Bufs, NEW x \in Blocks,
                      c \in Hit(x)', "DONE" \in flags'[c], "DELWRI" \notin flags'[c],
                      \A q \in Procs : bp'[q] = c => pc'[q] # "dirty"
               PROVE  data'[c] = disk'[x]
    BY DEF CleanMatchesDisk, Holders
  <2>1. c \in Hit(x) BY <1>1, <1>6 DEF Hit, Healthy
  <2>2. "DONE" \in flags[c] /\ "DELWRI" \notin flags[c]
    BY <1>1
  <2>3. \A q \in Procs : bp[q] = c => pc[q] # "dirty"
    BY <1>1, <1>2, <1>3 DEF Healthy
  <2> QED BY <2>1, <2>2, <2>3 DEF CInv, CleanMatchesDisk, Holders
<1> QED BY <1>4, <1>5, <1>8, <1>9, <1>10, <1>11, <1>12 DEF CInv

\* The reader releases its buffer, fswrite gives up, bwrite returns.
LEMMA ReleaseData ==
  ASSUME CInv, IInv', NEW p \in Procs, Release(p) \/ Fault(p) \/ WriteDone(p)
  PROVE  CInv'
<1>1. PICK b \in Bufs, f \in SUBSET Flags : b = bp[p] /\ f = flags[b]
  BY DEF Release, Fault, WriteDone, CInv, IInv, TypeOK, ProcessesOK
<1>2. /\ Brelse(b, f) /\ Return(p) /\ UNCHANGED <<data, io, disk, super, panic>>
      /\ panic = "none" /\ \A q \in Procs \ {p} : pc[q] # "test"
      /\ pc[p] = "dirty" => Faults
  BY <1>1 DEF Release, Fault, WriteDone, Running
<1> QED BY <1>1, <1>2, GiveBackData

\* bdwrite releases the buffer, B_DELWRI set.
LEMMA BdwriteData ==
  ASSUME CInv, IInv', NEW p \in Procs, Bdwrite(p)
  PROVE  CInv'
<1>1. PICK b \in Bufs, f \in SUBSET Flags :
        b = bp[p] /\ f = flags[b] \cup {"DELWRI", "DONE"}
  BY DEF Bdwrite, Flags, CInv, IInv, TypeOK, ProcessesOK
<1>2. /\ Brelse(b, f) /\ Return(p) /\ UNCHANGED <<data, io, disk, super>>
      /\ pc[p] = "dirty" /\ panic' = PanicAt(bno[b])
      /\ panic = "none" /\ \A q \in Procs \ {p} : pc[q] # "test"
  BY <1>1 DEF Bdwrite, Running
<1> QED BY <1>1, <1>2, NotPanicking, GiveBackData

\* bflush writes free buffers: it leaves those with an owner alone.
LEMMA FlushIs ==
  ASSUME IInv, Bflush(DelayedWrites, {})
  PROVE  /\ \A q \in Procs : bp[q] # NoBuf =>
              /\ bp[q] \in Bufs
              /\ flags'[bp[q]] = flags[bp[q]] /\ io'[bp[q]] = io[bp[q]]
         /\ \A b \in Bufs : "INVAL" \in flags'[b] <=> "INVAL" \in flags[b]
<1> USE DEF Bflush, DelayedWrites
<1>1. \A q \in Procs : bp[q] # NoBuf => bp[q] \in Bufs \ DelayedWrites
  BY DEF IInv, TypeOK, OwnersOK, BuffersOK
<1>2. \A b \in Bufs \ DelayedWrites : flags'[b] = flags[b] /\ io'[b] = io[b]
  BY DEF IInv, TypeOK
<1>3. \A b \in Bufs : "INVAL" \in flags'[b] <=> "INVAL" \in flags[b]
  BY DEF WriteFlags
<1> HIDE DEF DelayedWrites, Bflush
<1> QED BY <1>1, <1>2, <1>3

\* update.
LEMMA SyncData ==
  ASSUME CInv, IInv', NEW p \in Procs, Sync(p)
  PROVE  CInv'
<1> USE DEF CInv, IInv, Sync, Bflush, DelayedWrites, WriteFlags
<1>0. (\A b \in DelayedWrites : bno[b] # NoBlock) => panic' = "none"
  BY NotPanicking DEF Bflush
<1>1. RequestsOK' BY DEF RequestsOK, LooksAhead
<1>2. AssociationsOK'
  <2>1. /\ panic = "none" /\ UNCHANGED <<bno, bp, cand>>
        /\ pc[p] = "idle" /\ \A q \in Procs \ {p} : pc[q] # "test"
        /\ UNCHANGED <<pc, req, want>>
    BY DEF Running, TypeOK
  <2>2. /\ \A q \in Procs : bp[q] # NoBuf =>
             /\ bp[q] \in Bufs
             /\ flags'[bp[q]] = flags[bp[q]] /\ io'[bp[q]] = io[bp[q]]
        /\ \A b \in Bufs : "INVAL" \in flags'[b] <=> "INVAL" \in flags[b]
    <3> HIDE DEF Bflush
    <3> QED BY FlushIs
  <2>3. \A q \in Procs : /\ pc[q] \in {"wrwait", "hold"} => bp[q] # NoBuf
                         /\ pc[q] = "idle" => bp[q] = NoBuf
    BY DEF ProcessesOK
  <2> HIDE DEF Bflush, DelayedWrites, WriteFlags, Sync
  <2> QED BY <2>1, <2>2, <2>3 DEF AssociationsOK
<1>3. ContentsOK' BY DEF ContentsOK
<1>4. SuperOK' BY DEF TypeOK, RequestsOK, SuperOK
<1>5. ~IOErrors => NoPanic' BY <1>0 DEF NoPanic, ContentsOK
<1>6. NoClose => SyncWriteDurable' BY DEF SyncWriteDurable, TypeOK, ProcessesOK
<1>7. NoClose /\ Healthy => CleanMatchesDisk' BY DEF CleanMatchesDisk, Hit, Holders
<1> QED BY <1>1, <1>2, <1>3, <1>4, <1>5, <1>6, <1>7

\* The last close.
LEMMA CloseData ==
  ASSUME CInv, IInv', NEW p \in Procs, Close(p)
  PROVE  CInv'
<1> USE DEF CInv, IInv, Close, Bflush, DelayedWrites, WriteFlags
<1>0. panic' = "none" BY NotPanicking DEF Close, Bflush
<1>1. RequestsOK' BY DEF RequestsOK
<1>2. AssociationsOK' BY DEF Running, AssociationsOK, ProcessesOK
<1>3. ContentsOK'
  <2>1. \A b \in Bufs : flags'[b] \subseteq flags[b] \cup {"BUSY", "ASYNC", "INVAL"}
    OBVIOUS
  <2>2. \A b \in Bufs : "DONE" \in flags[b]
          => "DONE" \in flags'[b] \/ "DELWRI" \notin flags'[b]
    OBVIOUS
  <2> HIDE DEF Bflush
  <2> QED BY <2>1, <2>2 DEF ContentsOK, NoClose
<1>4. SuperOK' BY DEF SuperOK
<1>5. ~IOErrors => NoPanic' BY <1>0 DEF NoPanic
<1>6. NoClose => SyncWriteDurable' BY DEF Running, SyncWriteDurable
<1>7. NoClose /\ Healthy => CleanMatchesDisk' BY DEF CleanMatchesDisk, Hit
<1> QED BY <1>1, <1>2, <1>3, <1>4, <1>5, <1>6, <1>7

\* fson locks the super block in core.
LEMMA PinData ==
  ASSUME CInv, IInv', NEW p \in Procs, Pin(p)
  PROVE  CInv'
<1> USE DEF CInv, IInv, Pin, Brelse, Goto
<1>1. RequestsOK' BY DEF RequestsOK, LooksAhead
<1>2. AssociationsOK' BY DEF AssociationsOK, ProcessesOK
<1>3. ContentsOK' BY DEF ContentsOK
<1>4. SuperOK' BY DEF TypeOK, RequestsOK, AssociationsOK, SuperOK
<1>5. ~IOErrors => NoPanic' BY DEF NoPanic
<1>6. NoClose => SyncWriteDurable' BY DEF SyncWriteDurable, ProcessesOK, OwnersOK
<1>7. NoClose /\ Healthy => CleanMatchesDisk'
  BY DEF Healthy, CleanMatchesDisk, Hit, Holders
<1> QED BY <1>1, <1>2, <1>3, <1>4, <1>5, <1>6, <1>7

\* fson ends well.
LEMMA MountedData ==
  ASSUME CInv, IInv', NEW p \in Procs, Mounted(p)
  PROVE  CInv'
<1> USE DEF CInv, IInv, Mounted, Return, NoReq, bufVars
<1>1. RequestsOK' BY DEF TypeOK, RequestsOK, LooksAhead
<1>2. AssociationsOK' BY DEF AssociationsOK, ProcessesOK
<1>3. ContentsOK' BY DEF ContentsOK
<1>4. SuperOK' BY DEF TypeOK, SuperOK
<1>5. ~IOErrors => NoPanic' BY DEF NoPanic
<1>6. NoClose => SyncWriteDurable' BY DEF SyncWriteDurable
<1>7. NoClose /\ Healthy => CleanMatchesDisk' BY DEF CleanMatchesDisk, Hit, Holders
<1> QED BY <1>1, <1>2, <1>3, <1>4, <1>5, <1>6, <1>7

\* fson fails, and unlocks the buffer.
LEMMA MountFailedData ==
  ASSUME CInv, IInv', NEW p \in Procs, MountFailed(p)
  PROVE  CInv'
<1> USE DEF CInv, IInv, MountFailed, Return, NoReq
<1>1. RequestsOK' BY DEF TypeOK, RequestsOK, LooksAhead
<1>2. AssociationsOK' BY DEF AssociationsOK, ProcessesOK
<1>3. ContentsOK' BY DEF ContentsOK
<1>4. SuperOK' BY DEF RequestsOK, SuperOK
<1>5. ~IOErrors => NoPanic' BY DEF NoPanic
<1>6. NoClose => SyncWriteDurable' BY DEF SyncWriteDurable
<1>7. NoClose /\ Healthy => CleanMatchesDisk' BY DEF CleanMatchesDisk, Hit, Holders
<1> QED BY <1>1, <1>2, <1>3, <1>4, <1>5, <1>6, <1>7

\* fsoff begins with update.
LEMMA BeginUmountData ==
  ASSUME CInv, IInv', NEW p \in Procs, BeginUmount(p)
  PROVE  CInv'
<1> USE DEF CInv, IInv, BeginUmount, Bflush, DelayedWrites, WriteFlags, Goto
<1>0. (\A b \in DelayedWrites : bno[b] # NoBlock) => panic' = "none"
  BY NotPanicking DEF Bflush
<1>1. RequestsOK' BY DEF TypeOK, RequestsOK, LooksAhead
<1>2. AssociationsOK'
  <2>1. /\ panic = "none" /\ UNCHANGED <<bno, bp, cand>>
        /\ pc[p] = "idle" /\ \A q \in Procs \ {p} : pc[q] # "test"
        /\ pc'[p] = "scan"
        /\ \A q \in Procs \ {p} : /\ pc'[q] = pc[q] /\ req'[q] = req[q]
                                  /\ want'[q] = want[q]
    BY DEF Running, TypeOK
  <2>2. /\ \A q \in Procs : bp[q] # NoBuf =>
             /\ bp[q] \in Bufs
             /\ flags'[bp[q]] = flags[bp[q]] /\ io'[bp[q]] = io[bp[q]]
        /\ \A b \in Bufs : "INVAL" \in flags'[b] <=> "INVAL" \in flags[b]
    <3> HIDE DEF Bflush
    <3> QED BY FlushIs
  <2>3. \A q \in Procs : /\ pc[q] \in {"wrwait", "hold"} => bp[q] # NoBuf
                         /\ pc[q] = "idle" => bp[q] = NoBuf
    BY DEF ProcessesOK
  <2> HIDE DEF Bflush, DelayedWrites, WriteFlags, BeginUmount, Goto
  <2> QED BY <2>1, <2>2, <2>3 DEF AssociationsOK
<1>3. ContentsOK' BY DEF ContentsOK
<1>4. SuperOK' BY DEF Running, NoMount, TypeOK, SuperOK
<1>5. ~IOErrors => NoPanic' BY <1>0 DEF NoPanic, ContentsOK
<1>6. NoClose => SyncWriteDurable'
  BY DEF Running, SyncWriteDurable, TypeOK, RequestsOK, ProcessesOK
<1>7. NoClose /\ Healthy => CleanMatchesDisk'
  BY DEF Running, CleanMatchesDisk, Hit, Holders
<1> QED BY <1>1, <1>2, <1>3, <1>4, <1>5, <1>6, <1>7

\* fsoff releases or writes the super block.
LEMMA UnpinData ==
  ASSUME CInv, IInv', NEW p \in Procs, Unpin(p)
  PROVE  CInv'
<1> DEFINE b == bp[p]
           f == flags[b] \ {"LOCKED", "ASYNC"}
<1> USE DEF CInv, IInv
<1>0. /\ b \in Bufs /\ pc[p] = "hold" /\ req[p].op = "umount" /\ panic = "none"
      /\ io[b] = "none" /\ super' = NoBuf /\ UNCHANGED <<data, disk, ops>>
      /\ flags[b] \in SUBSET Flags
      /\ ~IOErrors => bno[b] # NoBlock
      /\ \A q \in Procs \ {p} : pc[q] # "test"
  <2>1. /\ pc[p] = "hold" /\ req[p].op = "umount" /\ panic = "none"
        /\ super' = NoBuf /\ UNCHANGED <<data, disk, ops>>
        /\ \A q \in Procs \ {p} : pc[q] # "test"
    BY DEF Unpin, Running
  <2>2. b \in Bufs /\ io[b] = "none" /\ flags[b] \in SUBSET Flags
    BY <2>1 DEF TypeOK, ProcessesOK
  <2>3. ~IOErrors => bno[b] # NoBlock
    BY <2>1, <2>2 DEF AssociationsOK, RequestsOK
  <2> QED BY <2>1, <2>2, <2>3
<1>1. ~IOErrors => b = super
  <2> SUFFICES ASSUME ~IOErrors PROVE b = super
    OBVIOUS
  <2>1. super \in Bufs /\ bno[super] = Super /\ "INVAL" \notin flags[super]
    BY <1>0 DEF TypeOK, SuperOK
  <2>2. bno[b] = Super /\ "INVAL" \notin flags[b]
    BY <1>0 DEF AssociationsOK, RequestsOK
  <2> HIDE DEF b
  <2> QED BY <1>0, <2>1, <2>2 DEF OneBufferPerBlock
<1>2. CASE Brelse(b, f) /\ Return(p) /\ panic' = PanicUmount(b) /\ UNCHANGED io
  <2> USE <1>0, <1>2 DEF Brelse, Return, NoReq
  <2>1. RequestsOK' BY DEF TypeOK, RequestsOK, LooksAhead
  <2>2. AssociationsOK'
    <3>1. /\ pc'[p] = "idle" /\ bp'[p] = NoBuf
          /\ \A q \in Procs \ {p} :
               /\ pc'[q] = pc[q] /\ req'[q] = req[q] /\ want'[q] = want[q]
               /\ bp'[q] = bp[q] /\ bp[q] # b /\ (bp[q] # NoBuf => bp[q] \in Bufs)
      BY DEF TypeOK, OwnersOK
    <3>2. /\ \A c \in Bufs \ {b} : flags'[c] = flags[c] /\ bno'[c] = bno[c]
          /\ io' = io /\ (panic # "none" => panic' # "none")
      BY DEF TypeOK
    <3>3. \A q \in Procs : pc[q] \in {"wrwait", "hold"} => bp[q] # NoBuf
      BY DEF ProcessesOK
    <3> HIDE DEF Brelse, Return, b, f
    <3> QED BY <3>1, <3>2, <3>3 DEF AssociationsOK
  <2>3. ContentsOK' BY DEF TypeOK, ContentsOK
  <2>4. SuperOK' BY DEF TypeOK, SuperOK
  <2>5. ~IOErrors => NoPanic' BY <1>1 DEF NoPanic, PanicUmount
  <2>6. NoClose => SyncWriteDurable'
    BY DEF TypeOK, SyncWriteDurable, ProcessesOK, OwnersOK
  <2>7. NoClose /\ Healthy => CleanMatchesDisk'
    BY DEF TypeOK, Healthy, CleanMatchesDisk, Hit, Holders, ContentsOK, OwnersOK
  <2> QED BY <2>1, <2>2, <2>3, <2>4, <2>5, <2>6, <2>7
<1>3. CASE /\ Strategy(b, WriteFlags(f), "write") /\ panic' = PanicUnpin(b)
           /\ Goto(p, "wrwait")
           /\ UNCHANGED <<bno, freeWanted, chan, req, want, cand, bp>>
  <2>0. bno[b] = NoBlock => panic' # "none" BY <1>3, Panicking
  <2> USE <1>0, <1>3, <2>0 DEF Strategy, WriteFlags, Goto
  <2>1. RequestsOK' BY DEF TypeOK, RequestsOK, LooksAhead
  <2>2. AssociationsOK'
    BY DEF TypeOK, RequestsOK, AssociationsOK, ProcessesOK, OwnersOK
  <2>3. ContentsOK' BY DEF TypeOK, ContentsOK
  <2>4. SuperOK' BY DEF TypeOK, SuperOK
  <2>5. ~IOErrors => NoPanic' BY <1>1 DEF NoPanic, PanicUnpin, PanicAt
  <2>6. NoClose => SyncWriteDurable'
    BY DEF TypeOK, SyncWriteDurable, ProcessesOK, OwnersOK
  <2>7. NoClose /\ Healthy => CleanMatchesDisk'
    BY DEF TypeOK, Healthy, CleanMatchesDisk, Hit, Holders, ContentsOK, OwnersOK
  <2> QED BY <2>1, <2>2, <2>3, <2>4, <2>5, <2>6, <2>7
<1> QED BY <1>0, <1>2, <1>3 DEF Unpin

\* A sleep ends early.
LEMMA PrematureReturnData ==
  ASSUME CInv, IInv', NEW p \in Procs, PrematureReturn(p)
  PROVE  CInv'
<1> USE DEF CInv, IInv, PrematureReturn, Sleep, bufVars
<1>1. RequestsOK' BY DEF RequestsOK, LooksAhead
<1>2. AssociationsOK' BY DEF AssociationsOK
<1>3. ContentsOK' BY DEF ContentsOK
<1>4. SuperOK' BY DEF SuperOK
<1>5. ~IOErrors => NoPanic' BY DEF NoPanic
<1>6. NoClose => SyncWriteDurable' BY DEF SyncWriteDurable
<1>7. NoClose /\ Healthy => CleanMatchesDisk' BY DEF CleanMatchesDisk, Hit, Holders
<1> QED BY <1>1, <1>2, <1>3, <1>4, <1>5, <1>6, <1>7

\* getblk gives a free buffer to a caller of any kind.
LEMMA ClaimData ==
  ASSUME CInv, NEW p \in Procs, NEW b \in Bufs, NEW f \in SUBSET Flags,
         NEW w \in Blocks \cup {NoBlock},
         panic = "none", pc[p] \in {"scan", "test"}, avail[b] # "none",
         "BUSY" \in f, "ASYNC" \notin f,
         cand' \in {cand, [cand EXCEPT ![p] = NoBuf]},
         \A q \in Procs \ {p} : pc[q] # "test",
         UNCHANGED <<data, disk, super, ops>>,
         w = want[p] \/ (IOErrors /\ w = NoBlock),
         "INVAL" \in f => want[p] = NoBlock,
         \/ /\ w = bno[b] /\ f = flags[b] \cup {"BUSY"}
         \/ /\ Hit(want[p]) = {} /\ avail[b] = "reusable" /\ "DELWRI" \notin flags[b]
            /\ f \subseteq {"BUSY", "INVAL"} /\ w = want[p],
         Claim(p, b, f, w)
  PROVE  /\ RequestsOK' /\ AssociationsOK' /\ ContentsOK' /\ SuperOK'
         /\ ~IOErrors => NoPanic'
         /\ NoClose => SyncWriteDurable'
         /\ NoClose /\ Healthy => CleanMatchesDisk'
<1> USE DEF CInv, IInv
<1>0. /\ "BUSY" \notin flags[b] /\ "ASYNC" \notin flags[b] /\ io[b] = "none"
      /\ \A q \in Procs : bp[q] # b
      /\ flags[b] \in SUBSET Flags
      /\ ~IOErrors => "ERROR" \notin f
  BY DEF BuffersOK, OwnersOK, TypeOK, ContentsOK
<1>1. ~IOErrors /\ super # NoBuf /\ b = super => "DONE" \in f
  BY <1>0 DEF SuperOK
<1>2. CASE ClaimAhead(p, b, f, w) /\ "DONE" \in f
  <2> USE <1>0, <1>2 DEF ClaimAhead, Brelse, AfterAhead, Goto
  <2>1. RequestsOK'
    <3>1. \/ /\ pc'[p] = "scan" /\ req'[p].op = "read"
             /\ req'[p].blk = req[p].blk /\ want'[p] = req[p].blk
          \/ pc'[p] = "iowait" /\ req' = req
      BY DEF TypeOK
    <3>2. \A q \in Procs \ {p} : req'[q] = req[q] /\ want'[q] = want[q] /\ pc'[q] = pc[q]
      BY DEF TypeOK
    <3>3. RequestsOK!(p)' BY <3>1 DEF RequestsOK, LooksAhead
    <3>4. ASSUME NEW q \in Procs \ {p} PROVE RequestsOK!(q)'
      <4> HIDE DEF Brelse
      <4> QED BY <3>2 DEF RequestsOK, LooksAhead
    <3> QED BY <3>3, <3>4 DEF RequestsOK
  <2>2. AssociationsOK' BY DEF TypeOK, RequestsOK, AssociationsOK, ProcessesOK
  <2>3. ContentsOK' BY DEF TypeOK, ContentsOK
  <2>4. SuperOK'
    <3>1. \A q \in Procs : \/ req'[q].op = req[q].op /\ pc'[q] = pc[q]
                           \/ req'[q].op \in {"read", "readahead"}
      BY DEF TypeOK, LooksAhead
    <3>2. ASSUME ~IOErrors, super = b
          PROVE  f = flags[b] \cup {"BUSY"} /\ "INVAL" \notin flags[b]
                 /\ "LOCKED" \in flags[b] /\ bno[b] = Super
      BY <3>2 DEF SuperOK
    <3>3. ASSUME ~IOErrors, super = b
          PROVE  /\ bno'[b] = bno[b] /\ avail'[b] = "locked"
                 /\ "LOCKED" \in flags'[b] /\ "INVAL" \notin flags'[b]
                 /\ "DONE" \in flags'[b]
      BY <3>2, <3>3 DEF TypeOK
    <3>4. ASSUME super # b, super # NoBuf
          PROVE  /\ bno'[super] = bno[super] /\ avail'[super] = avail[super]
                 /\ flags'[super] = flags[super] /\ io'[super] = io[super]
      BY <3>4 DEF TypeOK
    <3> HIDE DEF ClaimAhead, Brelse, AfterAhead, Goto
    <3> QED BY <3>1, <3>3, <3>4 DEF SuperOK
  <2>5. ~IOErrors => NoPanic' BY DEF NoPanic
  <2>6. NoClose => SyncWriteDurable'
    BY DEF TypeOK, SyncWriteDurable, ProcessesOK
  <2>7. NoClose /\ Healthy => CleanMatchesDisk'
    BY DEF TypeOK, Healthy, CleanMatchesDisk, Hit, Holders, ContentsOK
  <2> QED BY <2>1, <2>2, <2>3, <2>4, <2>5, <2>6, <2>7
<1>3. CASE ClaimAhead(p, b, f, w) /\ "DONE" \notin f
  <2> USE <1>0, <1>3 DEF ClaimAhead, Strategy, AfterAhead, Goto
  <2>1. RequestsOK' BY DEF TypeOK, RequestsOK, LooksAhead
  <2>2. AssociationsOK' BY DEF TypeOK, RequestsOK, AssociationsOK, ProcessesOK
  <2>3. ContentsOK' BY DEF TypeOK, ContentsOK
  <2>4. SuperOK'
    <3>1. \A q \in Procs : \/ req'[q].op = req[q].op /\ pc'[q] = pc[q]
                           \/ req'[q].op \in {"read", "readahead"}
      BY DEF TypeOK, LooksAhead
    <3>2. ASSUME ~IOErrors, super # NoBuf PROVE super # b
      BY <1>1, <3>2
    <3>3. ASSUME super # b, super # NoBuf
          PROVE  /\ bno'[super] = bno[super] /\ avail'[super] = avail[super]
                 /\ flags'[super] = flags[super] /\ io'[super] = io[super]
      BY <3>3 DEF TypeOK
    <3> HIDE DEF ClaimAhead, Strategy, AfterAhead, Goto
    <3> QED BY <3>1, <3>2, <3>3 DEF SuperOK
  <2>5. ~IOErrors => NoPanic'
    BY DEF NoPanic, PanicAt, LooksAhead, RequestsOK
  <2>6. NoClose => SyncWriteDurable'
    BY DEF TypeOK, SyncWriteDurable, ProcessesOK
  <2>7. NoClose /\ Healthy => CleanMatchesDisk'
    BY DEF TypeOK, Healthy, CleanMatchesDisk, Hit, Holders, ContentsOK
  <2> QED BY <2>1, <2>2, <2>3, <2>4, <2>5, <2>6, <2>7
<1>4. CASE ClaimRead(p, b, f, w)
  <2> USE <1>0, <1>4 DEF ClaimRead, Strategy, Goto
  <2>1. RequestsOK' BY DEF TypeOK, RequestsOK, LooksAhead
  <2>2. AssociationsOK' BY DEF TypeOK, RequestsOK, AssociationsOK, ProcessesOK
  <2>3. ContentsOK' BY DEF TypeOK, ContentsOK
  <2>4. SuperOK' BY DEF TypeOK, SuperOK
  <2>5. ~IOErrors => NoPanic' BY DEF NoPanic, PanicAt, RequestsOK
  <2>6. NoClose => SyncWriteDurable'
    BY DEF TypeOK, SyncWriteDurable, ProcessesOK
  <2>7. NoClose /\ Healthy => CleanMatchesDisk'
    BY DEF TypeOK, Healthy, CleanMatchesDisk, Hit, Holders, ContentsOK
  <2> QED BY <2>1, <2>2, <2>3, <2>4, <2>5, <2>6, <2>7
<1>5. CASE ClaimWhole(p, b, f, w)
  <2> USE <1>0, <1>5 DEF ClaimWhole, Goto
  <2>1. RequestsOK' BY DEF TypeOK, RequestsOK, LooksAhead
  <2>2. AssociationsOK' BY DEF TypeOK, RequestsOK, AssociationsOK, ProcessesOK, LooksAhead
  <2>3. ContentsOK' BY DEF TypeOK, ContentsOK
  <2>4. SuperOK' BY DEF TypeOK, SuperOK
  <2>5. ~IOErrors => NoPanic' BY DEF NoPanic
  <2>6. NoClose => SyncWriteDurable'
    BY DEF TypeOK, SyncWriteDurable, ProcessesOK
  <2>7. NoClose /\ Healthy => CleanMatchesDisk'
    BY DEF TypeOK, Healthy, CleanMatchesDisk, Hit, Holders, ContentsOK
  <2> QED BY <2>1, <2>2, <2>3, <2>4, <2>5, <2>6, <2>7
<1> QED BY <1>2, <1>3, <1>4, <1>5 DEF Claim

\* getblk found no buffer for the block and takes a free one.
LEMMA ReassignData ==
  ASSUME CInv, IInv', NEW p \in Procs, NEW v \in Bufs, Reassign(p, v)
  PROVE  CInv'
<1> DEFINE f == IF want[p] = NoBlock THEN {"BUSY", "INVAL"} ELSE {"BUSY"}
<1>1. /\ f \in SUBSET Flags /\ want[p] \in Blocks \cup {NoBlock}
      /\ "BUSY" \in f /\ "ASYNC" \notin f /\ avail[v] = "reusable"
      /\ f \subseteq {"BUSY", "INVAL"} /\ ("INVAL" \in f => want[p] = NoBlock)
      /\ Hit(want[p]) = {} /\ "DELWRI" \notin flags[v]
  BY DEF Reassign, Reusable, Flags, CInv, IInv, TypeOK
<1>2. /\ panic = "none" /\ pc[p] = "scan"
      /\ \A q \in Procs \ {p} : pc[q] # "test"
      /\ UNCHANGED <<data, disk, super, cand, ops>>
      /\ Claim(p, v, f, want[p])
  BY DEF Reassign, Running
<1> HIDE DEF f
<1>3. /\ RequestsOK' /\ AssociationsOK' /\ ContentsOK' /\ SuperOK'
      /\ ~IOErrors => NoPanic'
      /\ NoClose => SyncWriteDurable'
      /\ NoClose /\ Healthy => CleanMatchesDisk'
  <2>1. /\ avail[v] # "none" /\ cand' \in {cand, [cand EXCEPT ![p] = NoBuf]}
        /\ pc[p] \in {"scan", "test"}
    BY <1>1, <1>2
  <2> QED BY <1>1, <1>2, <2>1, ClaimData
<1> QED BY <1>3 DEF CInv

\* getblk found the block in a buffer that is not busy.
LEMMA TakeFoundData ==
  ASSUME CInv, IInv', NEW p \in Procs, TakeFound(p)
  PROVE  CInv'
<1> DEFINE b == cand[p]
           f == flags[b] \cup {"BUSY"}
<1>1. /\ panic = "none" /\ pc[p] = "test" /\ "BUSY" \notin flags[b]
      /\ \A q \in Procs \ {p} : pc[q] # "test"
      /\ cand' = [cand EXCEPT ![p] = NoBuf]
      /\ UNCHANGED <<data, disk, super, ops>>
      /\ Claim(p, b, f, bno[b])
  BY DEF TakeFound, Running
<1>2. b \in Bufs BY <1>1 DEF CInv, IInv, TypeOK, ProcessesOK
<1>3. /\ avail[b] # "none" /\ "ASYNC" \notin f /\ "BUSY" \in f
      /\ f \in SUBSET Flags /\ bno[b] \in Blocks \cup {NoBlock}
      /\ f = flags[b] \cup {"BUSY"}
  BY <1>1, <1>2 DEF CInv, IInv, TypeOK, BuffersOK, Flags
<1>4. /\ bno[b] = want[p] \/ (IOErrors /\ bno[b] = NoBlock)
      /\ "INVAL" \notin flags[b]
  <2>1. pc[p] = "test" /\ AssociationsOK!(p) BY <1>1 DEF CInv, AssociationsOK
  <2> HIDE DEF f
  <2> QED BY <2>1
<1>5. "INVAL" \notin f BY <1>4
<1> HIDE DEF b, f
<1>6. /\ RequestsOK' /\ AssociationsOK' /\ ContentsOK' /\ SuperOK'
      /\ ~IOErrors => NoPanic'
      /\ NoClose => SyncWriteDurable'
      /\ NoClose /\ Healthy => CleanMatchesDisk'
  BY <1>1, <1>2, <1>3, <1>4, <1>5, ClaimData
<1> QED BY <1>6 DEF CInv

\* A transfer ends.
LEMMA IodoneData ==
  ASSUME CInv, IInv', NEW b \in Bufs, NEW err \in BOOLEAN, Iodone(b, err)
  PROVE  CInv'
<1> DEFINE f == flags[b] \cup {"DONE"} \cup (IF err THEN {"ERROR"} ELSE {})
<1> USE DEF CInv, IInv
<1>1. /\ panic = "none" /\ io[b] # "none" /\ (err => IOErrors)
      /\ panic' = PanicIodone(b)
      /\ io' = [io EXCEPT ![b] = "none"]
      /\ UNCHANGED <<super, pc, req, want, cand, bp, ops>>
  BY DEF Iodone
<1>2. /\ f \in SUBSET Flags /\ bno[b] \in Blocks /\ "DONE" \in f
      /\ \A flag \in {"INVAL", "LOCKED", "DELWRI", "ASYNC"} :
           flag \in f <=> flag \in flags[b]
      /\ "DONE" \notin flags[b] /\ "BUSY" \in flags[b]
      /\ "ERROR" \in f <=> err \/ "ERROR" \in flags[b]
  BY <1>1 DEF TypeOK, BuffersOK, Flags
<1>3. /\ \A c \in Bufs \ {b} : data'[c] = data[c]
      /\ io[b] = "write" => data' = data
      /\ io[b] = "read" => disk' = disk
      /\ \A x \in Blocks \ {bno[b]} : disk'[x] = disk[x]
      /\ ~err => disk'[bno[b]] = data'[b]
      /\ data' \in [Bufs -> Values] /\ disk' \in [Blocks -> Values]
  BY <1>1, <1>2 DEF Iodone, TypeOK
<1>4. /\ \A c \in Bufs \ {b} : /\ flags'[c] = flags[c] /\ bno'[c] = bno[c]
                                /\ avail'[c] = avail[c]
      /\ flags'[b] \in {f \ {"WANTED"}, f \ {"WANTED", "BUSY", "ASYNC"},
                        f \ {"ERROR", "WANTED", "BUSY", "ASYNC"}}
      /\ bno'[b] # bno[b] => /\ bno'[b] = NoBlock /\ "ASYNC" \in f
                             /\ "ERROR" \in f /\ "LOCKED" \notin f
      /\ "ASYNC" \notin f => flags'[b] = f \ {"WANTED"} /\ bno' = bno /\ avail' = avail
      /\ "LOCKED" \in f /\ "INVAL" \notin f
           => avail'[b] # "reusable" \/ avail'[b] = avail[b]
  <2>1. CASE "ASYNC" \in f
    <3>1. Brelse(b, f) BY <2>1 DEF Iodone
    <3> HIDE DEF f
    <3> QED BY <2>1, <3>1, <1>2 DEF Brelse, TypeOK
  <2>2. CASE "ASYNC" \notin f
    <3>1. /\ flags' = [flags EXCEPT ![b] = f \ {"WANTED"}]
          /\ UNCHANGED <<bno, avail, freeWanted>>
      BY <2>2 DEF Iodone
    <3> HIDE DEF f
    <3> QED BY <2>2, <3>1, <1>2 DEF TypeOK
  <2> QED BY <2>1, <2>2
<1> HIDE DEF f
<1> USE <1>1, <1>2, <1>3, <1>4
<1>5. RequestsOK' BY DEF RequestsOK, LooksAhead
<1>6. AssociationsOK'
  <2> SUFFICES ASSUME NEW q \in Procs PROVE AssociationsOK!(q)'
    BY DEF AssociationsOK
  <2>1. /\ "INVAL" \in flags'[b] <=> "INVAL" \in flags[b]
        /\ "DONE" \in flags'[b]
        /\ bno'[b] = bno[b] \/ (IOErrors /\ bno'[b] = NoBlock)
        /\ "ASYNC" \notin flags[b] => bno'[b] = bno[b]
    <3>1. "INVAL" \in f <=> "INVAL" \in flags[b] OBVIOUS
    <3>2. "ASYNC" \in f <=> "ASYNC" \in flags[b] OBVIOUS
    <3>3. "INVAL" \in flags'[b] <=> "INVAL" \in flags[b] BY <3>1
    <3>4. "DONE" \in flags'[b] OBVIOUS
    <3>5. bno'[b] = bno[b] \/ (IOErrors /\ bno'[b] = NoBlock) BY DEF ContentsOK
    <3> QED BY <3>2, <3>3, <3>4, <3>5
  <2>2. pc[q] = "test" => cand[q] \in Bufs BY DEF TypeOK, ProcessesOK
  <2>3. bp[q] # NoBuf => bp[q] \in Bufs /\ "ASYNC" \notin flags[bp[q]]
    BY DEF TypeOK, OwnersOK
  <2>4. pc[q] \in {"wrwait", "hold"} => bp[q] # NoBuf BY DEF ProcessesOK
  <2>5. io'[b] = "none" /\ \A c \in Bufs \ {b} : io'[c] = io[c] BY DEF TypeOK
  <2>6. AssociationsOK!(q) BY DEF AssociationsOK
  <2> QED BY <2>1, <2>2, <2>3, <2>4, <2>5, <2>6
<1>7. ContentsOK' BY DEF TypeOK, ContentsOK
<1>8. SuperOK'
  <2>1. ASSUME ~IOErrors, super = b
        PROVE  /\ bno[b] = Super /\ avail[b] # "reusable"
               /\ "LOCKED" \in flags[b] /\ "INVAL" \notin flags[b]
    BY <2>1 DEF SuperOK
  <2>2. ASSUME ~IOErrors, super = b
        PROVE  /\ bno'[b] = bno[b] /\ avail'[b] # "reusable"
               /\ "LOCKED" \in flags'[b] /\ "INVAL" \notin flags'[b]
               /\ "DONE" \in flags'[b]
    BY <2>1, <2>2
  <2>3. super # NoBuf => super \in Bufs BY DEF TypeOK
  <2>4. \A c \in Bufs \ {b} : io'[c] = io[c] BY DEF TypeOK
  <2> QED BY <2>1, <2>2, <2>3, <2>4 DEF SuperOK
<1>9. ~IOErrors => NoPanic' BY DEF NoPanic, PanicIodone
<1>10. NoClose => SyncWriteDurable'
  <2> SUFFICES ASSUME NoClose, NEW q \in Procs, pc[q] = "wrwait",
                      "DONE" \in flags'[bp[q]], "ERROR" \notin flags'[bp[q]]
               PROVE  disk'[req[q].blk] = data'[bp[q]]
    BY DEF SyncWriteDurable
  <2>1. /\ bp[q] \in Bufs /\ "ASYNC" \notin flags[bp[q]]
        /\ bno[bp[q]] = req[q].blk /\ req[q].blk \in Blocks
    <3>1. bp[q] \in Bufs /\ "ASYNC" \notin flags[bp[q]]
      BY DEF TypeOK, OwnersOK, ProcessesOK
    <3>2. bno[bp[q]] = req[q].blk BY <3>1 DEF AssociationsOK
    <3>3. req[q].blk \in Blocks BY DEF TypeOK, RequestsOK, Requests
    <3> QED BY <3>1, <3>2, <3>3
  <2>2. CASE bp[q] = b BY <2>1, <2>2
  <2>3. CASE bp[q] # b
    <3>1. bno[bp[q]] # bno[b]
      BY <2>1, <2>3 DEF ContentsOK, OneBufferPerBlock
    <3> QED BY <2>1, <2>3, <3>1 DEF SyncWriteDurable
  <2> QED BY <2>2, <2>3
<1>11. NoClose /\ Healthy => CleanMatchesDisk'
  BY DEF TypeOK, Healthy, CleanMatchesDisk, Hit, Holders, ContentsOK,
         OneBufferPerBlock
<1> QED BY <1>5, <1>6, <1>7, <1>8, <1>9, <1>10, <1>11
-----------------------------------------------------------------------------
(***************************************************************************)
(* The theorems about the contents.                                        *)
(***************************************************************************)

\* binit: no buffer has data, no process has begun.
LEMMA InitData == Init => CInv
<1> SUFFICES ASSUME Init PROVE CInv
  OBVIOUS
<1>1. IInv BY InitInv
<1> USE DEF Init
<1>2. RequestsOK BY DEF RequestsOK, NoReq, LooksAhead
<1>3. AssociationsOK /\ ContentsOK BY DEF AssociationsOK, ContentsOK
<1>4. SuperOK BY DEF SuperOK, NoReq
<1>5. NoPanic /\ SyncWriteDurable /\ CleanMatchesDisk
  BY DEF NoPanic, SyncWriteDurable, CleanMatchesDisk, Hit
<1> QED BY <1>1, <1>2, <1>3, <1>4, <1>5 DEF CInv

\* Steps that change nothing.
LEMMA StutterData ==
  ASSUME CInv, IInv', UNCHANGED vars
  PROVE  CInv'
<1> USE DEF CInv, vars, bufVars, procVars
<1>1. RequestsOK' BY DEF RequestsOK, LooksAhead
<1>2. AssociationsOK' /\ ContentsOK' BY DEF AssociationsOK, ContentsOK
<1>3. SuperOK' BY DEF SuperOK
<1>4. (~IOErrors => NoPanic') /\ (NoClose => SyncWriteDurable')
  BY DEF NoPanic, SyncWriteDurable
<1>5. NoClose /\ Healthy => CleanMatchesDisk'
  BY DEF CleanMatchesDisk, Hit, Holders
<1> QED BY <1>1, <1>2, <1>3, <1>4, <1>5

\* Every step keeps the invariant.
LEMMA NextData == CInv /\ [Next]_vars => CInv'
<1> SUFFICES ASSUME CInv, [Next]_vars PROVE CInv'
  OBVIOUS
<1>0. IInv' BY NextInv DEF CInv
<1>1. ASSUME NEW p \in Procs, Call(p) PROVE CInv'
  BY <1>0, <1>1, BeginData, SyncData, CloseData, BeginUmountData DEF Call
<1>2. ASSUME NEW p \in Procs, Proceed(p) PROVE CInv'
  <2>1. CASE Walk(p) \/ WaitFree(p) \/ WaitBusy(p) \/ TakeFound(p) \/ Ahead(p)
    BY <1>0, <2>1, WalkData, WaitFreeData, WaitBusyData, TakeFoundData, AheadData
  <2>2. CASE \E v \in Bufs : WriteVictim(p, v) \/ Reassign(p, v)
    BY <1>0, <2>2, WriteVictimData, ReassignData
  <2>3. CASE SleepIo(p) \/ ReadDone(p) \/ Release(p) \/ Fill(p) \/ Fault(p)
    BY <1>0, <2>3, SleepIoData, ReadDoneData, ReleaseData, FillData
  <2>4. CASE Bwrite(p) \/ Bawrite(p) \/ Bdwrite(p) \/ WriteDone(p)
    BY <1>0, <2>4, BwriteData, BawriteData, BdwriteData, ReleaseData
  <2>5. CASE Pin(p) \/ Mounted(p) \/ MountFailed(p) \/ Unpin(p)
    BY <1>0, <2>5, PinData, MountedData, MountFailedData, UnpinData
  <2> QED BY <1>2, <2>1, <2>2, <2>3, <2>4, <2>5 DEF Proceed
<1>3. CASE Interrupt BY <1>0, <1>3, IodoneData DEF Interrupt
<1>4. CASE Finished \/ UNCHANGED vars BY <1>0, <1>4, StutterData DEF Finished
<1> QED BY <1>0, <1>1, <1>2, <1>3, <1>4, PrematureReturnData DEF Next

\* CInv holds in every state the program reaches.
THEOREM DataSound == Spec => []CInv
BY InitData, NextData, PTL DEF Spec

\* On a disk without errors getblk never hands out a buffer whose name has
\* been taken away, fsoff always finds the buffer fson pinned, and no transfer
\* is reported done twice: whatever is mounted, closed or flushed in between.
THEOREM NeverPanics ==
  ASSUME ~IOErrors
  PROVE  Spec => []NoPanic
<1>1. CInv => NoPanic BY DEF CInv
<1> QED BY <1>1, DataSound, PTL

\* A synchronous write that ends without an error is on the disk, even on a
\* disk that reports errors, unless binval, at the last close, threw out a
\* buffer of the block whose write is still queued and may come last.
THEOREM WritesReachTheDisk ==
  ASSUME NoClose
  PROVE  Spec => []SyncWriteDurable
<1>1. CInv => SyncWriteDurable BY DEF CInv
<1> QED BY <1>1, DataSound, PTL

\* A buffer that may be taken away without being written, or read without
\* asking the disk, holds what the disk holds.
THEOREM CacheCoherent ==
  ASSUME NoClose, Healthy
  PROVE  Spec => []CleanMatchesDisk
<1>1. CInv => CleanMatchesDisk BY DEF CInv
<1> QED BY <1>1, DataSound, PTL

-----------------------------------------------------------------------------
(***************************************************************************)
(* The buffer cache implements BlockStore: for any number of processes,    *)
(* buffers and blocks each block behaves as one variable that one process  *)
(* uses at a time, on a disk without errors and a device that is not       *)
(* closed while the system runs.                                           *)
(*                                                                         *)
(* The mapping is the one of BufCache: the value of a block is in its      *)
(* buffer if that has data, on the disk otherwise.  CInv makes it a        *)
(* mapping: a block has one buffer, a buffer one owner, and a buffer that  *)
(* loses its name or its data was clean (CleanMatchesDisk).  The first     *)
(* lemmas say when a step leaves values, owners and copies alone, and what *)
(* a step has to do to be a ReadBlock, TakeBlock, Store or LetGo of the    *)
(* store; the others say which actions do that.  Every other step stutters.*)
(***************************************************************************)
\* v is the value of block x: one of its buffers has it or, if none has data,
\* the disk does.
Has(x, v) == \/ \E b \in Hit(x) : Current(b) /\ data[b] = v
             \/ (\A b \in Hit(x) : ~Current(b)) /\ disk[x] = v

\* The owner of a block, and the copy a process has, as Store has them.
OwnerOf(x) == IF \E p \in Procs : Owns(p, x)
              THEN CHOOSE p \in Procs : Owns(p, x) ELSE NoProc
CopyOf(p)  == IF pc[p] = "hold" /\ req[p].op \in {"read", "readahead", "update"}
              THEN data[bp[p]] ELSE NoValue

\* A block has one value.
LEMMA ValueIs ==
  CInv => \A x \in Blocks : /\ Has(x, BlockValue(x))
                            /\ \A v : Has(x, v) => BlockValue(x) = v
<1> SUFFICES ASSUME CInv, NEW x \in Blocks
             PROVE  /\ Has(x, BlockValue(x))
                    /\ \A v : Has(x, v) => BlockValue(x) = v
  OBVIOUS
<1>1. \A b, c \in Hit(x) : b = c
  BY DEF CInv, IInv, OneBufferPerBlock, Hit
<1>2. CASE \E b \in Hit(x) : Current(b)
  <2>1. PICK b \in Hit(x) : Current(b) BY <1>2
  <2>2. BlockValue(x) = data[b]
    <3> HIDE DEF Hit, Current
    <3> QED BY <1>1, <2>1 DEF BlockValue
  <2> QED BY <1>1, <2>1, <2>2 DEF Has
<1>3. CASE \A b \in Hit(x) : ~Current(b)
  <2>1. BlockValue(x) = disk[x] BY <1>3 DEF BlockValue
  <2> QED BY <1>3, <2>1 DEF Has
<1> QED BY <1>2, <1>3

\* A block has one owner, and a process owns one block.
LEMMA OwnerIs ==
  CInv /\ Healthy =>
    /\ \A p \in Procs, x \in Blocks : Owns(p, x) => OwnerOf(x) = p /\ x = req[p].blk
    /\ \A x \in Blocks : (\A p \in Procs : ~Owns(p, x)) => OwnerOf(x) = NoProc
<1> SUFFICES ASSUME CInv, Healthy
             PROVE  /\ \A p \in Procs, x \in Blocks :
                         Owns(p, x) => OwnerOf(x) = p /\ x = req[p].blk
                    /\ \A x \in Blocks :
                         (\A p \in Procs : ~Owns(p, x)) => OwnerOf(x) = NoProc
  OBVIOUS
<1>1. ASSUME NEW p \in Procs, NEW q \in Procs, NEW x \in Blocks, Owns(p, x), Owns(q, x)
      PROVE  p = q
  <2>1. bp[p] \in Bufs /\ bp[p] = bp[q]
    BY <1>1 DEF Owns, Hit, CInv, IInv, OneBufferPerBlock
  <2> QED BY <2>1 DEF CInv, IInv, OwnersOK
<1>2. ASSUME NEW p \in Procs, NEW x \in Blocks, Owns(p, x)
      PROVE  OwnerOf(x) = p /\ x = req[p].blk
  <2>1. OwnerOf(x) = p
    <3> HIDE DEF Owns
    <3> QED BY <1>1, <1>2 DEF OwnerOf
  <2>2. x = req[p].blk
    BY <1>2 DEF Owns, Hit, CInv, IInv, ProcessesOK, AssociationsOK, Healthy
  <2> QED BY <2>1, <2>2
<1>3. \A x \in Blocks : (\A p \in Procs : ~Owns(p, x)) => OwnerOf(x) = NoProc
  BY DEF OwnerOf
<1> QED BY <1>2, <1>3

\* Values after a step.
LEMMA ValuesAre ==
  ASSUME CInv'
  PROVE  \A x \in Blocks : \A v : Has(x, v)' => BlockValue(x)' = v
<1>1. (CInv => \A x \in Blocks : /\ Has(x, BlockValue(x))
                                 /\ \A v : Has(x, v) => BlockValue(x) = v)'
  BY ValueIs, PTL
<1> QED BY <1>1

\* Values that a step keeps.
LEMMA ValuesKept ==
  ASSUME CInv, CInv', NEW B \in SUBSET Blocks,
         \A x \in B : \A v : Has(x, v) => Has(x, v)'
  PROVE  \A x \in B : BlockValue(x)' = BlockValue(x)
<1> SUFFICES ASSUME NEW x \in B PROVE BlockValue(x)' = BlockValue(x)
  OBVIOUS
<1>1. Has(x, BlockValue(x)) BY ValueIs
<1>2. \A v : Has(x, v)' => BlockValue(x)' = v BY ValuesAre
<1> QED BY <1>1, <1>2

\* Owners after a step, from who owns what.
LEMMA OwnersAre ==
  ASSUME CInv', Healthy
  PROVE  /\ \A p \in Procs, x \in Blocks : Owns(p, x)' => OwnerOf(x)' = p
         /\ \A x \in Blocks : (\A p \in Procs : ~Owns(p, x)') => OwnerOf(x)' = NoProc
<1>1. (CInv /\ Healthy =>
    /\ \A p \in Procs, x \in Blocks : Owns(p, x) => OwnerOf(x) = p /\ x = req[p].blk
    /\ \A x \in Blocks : (\A p \in Procs : ~Owns(p, x)) => OwnerOf(x) = NoProc)'
  BY OwnerIs, PTL
<1>2. Healthy' BY DEF Healthy
<1> QED BY <1>1, <1>2

\* Owners that a step keeps.
LEMMA OwnersKept ==
  ASSUME CInv, CInv', Healthy, NEW B \in SUBSET Blocks,
         \A p \in Procs, x \in B : Owns(p, x)' <=> Owns(p, x)
  PROVE  \A x \in B : OwnerOf(x)' = OwnerOf(x)
<1> SUFFICES ASSUME NEW x \in B PROVE OwnerOf(x)' = OwnerOf(x)
  OBVIOUS
<1> HIDE DEF Owns, OwnerOf
<1>1. CASE \E p \in Procs : Owns(p, x) BY <1>1, OwnerIs, OwnersAre
<1>2. CASE \A p \in Procs : ~Owns(p, x) BY <1>2, OwnerIs, OwnersAre
<1> QED BY <1>1, <1>2

\* A step that changes nothing a caller can see.
LEMMA Stutters ==
  ASSUME CInv, CInv', Healthy,
         \A x \in Blocks : \A v : Has(x, v) => Has(x, v)',
         \A p \in Procs, x \in Blocks : Owns(p, x)' <=> Owns(p, x),
         \A p \in Procs : CopyOf(p)' = CopyOf(p)
  PROVE  UNCHANGED Store!storeVars
<1>1. \A x \in Blocks : BlockValue(x)' = BlockValue(x) BY ValuesKept
<1>2. \A x \in Blocks : OwnerOf(x)' = OwnerOf(x) BY OwnersKept
<1>3. /\ [x \in Blocks |-> BlockValue(x)]' = [x \in Blocks |-> BlockValue(x)]
      /\ [x \in Blocks |-> OwnerOf(x)]' = [x \in Blocks |-> OwnerOf(x)]
      /\ [p \in Procs |-> CopyOf(p)]' = [p \in Procs |-> CopyOf(p)]
  BY <1>1, <1>2
<1> HIDE DEF Has, OwnerOf, CopyOf
<1> QED BY <1>3 DEF Store!storeVars, OwnerOf, CopyOf

\* The owner of a block lets go.
LEMMA LetsGo ==
  ASSUME CInv, CInv', Healthy,
         \A x \in Blocks : \A v : Has(x, v) => Has(x, v)',
         NEW p \in Procs, NEW x \in Blocks, Owns(p, x),
         \A q \in Procs, y \in Blocks : Owns(q, y)' <=> Owns(q, y) /\ q # p,
         \A q \in Procs \ {p} : CopyOf(q)' = CopyOf(q),
         CopyOf(p)' = NoValue
  PROVE  Store!LetGo(p, x)
<1>1. \A y \in Blocks : BlockValue(y)' = BlockValue(y) BY ValuesKept
<1> HIDE DEF Has, Owns, OwnerOf, CopyOf
<1>2. OwnerOf(x) = p /\ \A y \in Blocks \ {x} : ~Owns(p, y) BY OwnerIs
<1>3. \A y \in Blocks \ {x} : OwnerOf(y)' = OwnerOf(y)
  <2>1. \A q \in Procs, y \in Blocks \ {x} : Owns(q, y)' <=> Owns(q, y) BY <1>2
  <2> QED BY <2>1, OwnersKept, Blocks \ {x} \in SUBSET Blocks
<1>4. OwnerOf(x)' = NoProc
  <2>1. \A q \in Procs : ~Owns(q, x)' BY <1>2, OwnerIs
  <2> QED BY <2>1, OwnersAre
<1>5. /\ [y \in Blocks |-> BlockValue(y)]' = [y \in Blocks |-> BlockValue(y)]
      /\ [y \in Blocks |-> OwnerOf(y)][x] = p
      /\ [y \in Blocks |-> OwnerOf(y)]'
           = [[y \in Blocks |-> OwnerOf(y)] EXCEPT ![x] = NoProc]
      /\ [q \in Procs |-> CopyOf(q)]'
           = [[q \in Procs |-> CopyOf(q)] EXCEPT ![p] = NoValue]
  BY <1>1, <1>2, <1>3, <1>4
<1> QED BY <1>5 DEF Store!LetGo, OwnerOf, CopyOf

\* A block that is nobody's becomes p's, who sees nothing of it ...
LEMMA Takes ==
  ASSUME CInv, CInv', Healthy,
         \A x \in Blocks : \A v : Has(x, v) => Has(x, v)',
         NEW p \in Procs, NEW x \in Blocks, \A q \in Procs : ~Owns(q, x),
         \A q \in Procs, y \in Blocks : Owns(q, y)' <=> Owns(q, y) \/ (q = p /\ y = x),
         \A q \in Procs : CopyOf(q)' = CopyOf(q)
  PROVE  Store!TakeBlock(p, x)
<1>1. \A y \in Blocks : BlockValue(y)' = BlockValue(y) BY ValuesKept
<1> HIDE DEF Has, Owns, OwnerOf, CopyOf
<1>2. OwnerOf(x) = NoProc BY OwnerIs
<1>3. \A y \in Blocks \ {x} : OwnerOf(y)' = OwnerOf(y)
  <2>1. \A q \in Procs, y \in Blocks \ {x} : Owns(q, y)' <=> Owns(q, y) OBVIOUS
  <2> QED BY <2>1, OwnersKept, Blocks \ {x} \in SUBSET Blocks
<1>4. OwnerOf(x)' = p BY OwnersAre
<1>5. /\ [y \in Blocks |-> BlockValue(y)]' = [y \in Blocks |-> BlockValue(y)]
      /\ [y \in Blocks |-> OwnerOf(y)][x] = NoProc
      /\ [y \in Blocks |-> OwnerOf(y)]'
           = [[y \in Blocks |-> OwnerOf(y)] EXCEPT ![x] = p]
      /\ [q \in Procs |-> CopyOf(q)]' = [q \in Procs |-> CopyOf(q)]
  BY <1>1, <1>2, <1>3, <1>4
<1> QED BY <1>5 DEF Store!TakeBlock, OwnerOf, CopyOf

\* ... or, from bread, its value.
LEMMA Reads ==
  ASSUME CInv, CInv', Healthy,
         \A x \in Blocks : \A v : Has(x, v) => Has(x, v)',
         NEW p \in Procs, NEW x \in Blocks, \A q \in Procs : ~Owns(q, x),
         \A q \in Procs, y \in Blocks : Owns(q, y)' <=> Owns(q, y) \/ (q = p /\ y = x),
         \A q \in Procs \ {p} : CopyOf(q)' = CopyOf(q),
         Has(x, CopyOf(p)')
  PROVE  Store!ReadBlock(p, x)
<1>1. \A y \in Blocks : BlockValue(y)' = BlockValue(y) BY ValuesKept
<1>0. CopyOf(p)' = BlockValue(x) BY ValueIs
<1> HIDE DEF Has, Owns, OwnerOf, CopyOf
<1>2. OwnerOf(x) = NoProc BY OwnerIs
<1>3. \A y \in Blocks \ {x} : OwnerOf(y)' = OwnerOf(y)
  <2>1. \A q \in Procs, y \in Blocks \ {x} : Owns(q, y)' <=> Owns(q, y) OBVIOUS
  <2> QED BY <2>1, OwnersKept, Blocks \ {x} \in SUBSET Blocks
<1>4. OwnerOf(x)' = p BY OwnersAre
<1>5. /\ [y \in Blocks |-> BlockValue(y)]' = [y \in Blocks |-> BlockValue(y)]
      /\ [y \in Blocks |-> OwnerOf(y)][x] = NoProc
      /\ [y \in Blocks |-> OwnerOf(y)]'
           = [[y \in Blocks |-> OwnerOf(y)] EXCEPT ![x] = p]
      /\ [q \in Procs |-> CopyOf(q)]'
           = [[q \in Procs |-> CopyOf(q)] EXCEPT ![p] = BlockValue(x)]
      /\ [y \in Blocks |-> BlockValue(y)][x] = BlockValue(x)
  BY <1>0, <1>1, <1>2, <1>3, <1>4
<1> QED BY <1>5 DEF Store!ReadBlock, OwnerOf, CopyOf

\* The owner changes its block.
LEMMA Stores ==
  ASSUME CInv, CInv', Healthy, NEW p \in Procs, NEW x \in Blocks, NEW w \in Values,
         \A y \in Blocks \ {x} : \A v : Has(y, v) => Has(y, v)',
         Has(x, w)', Owns(p, x),
         \A q \in Procs, y \in Blocks : Owns(q, y)' <=> Owns(q, y),
         \A q \in Procs \ {p} : CopyOf(q)' = CopyOf(q),
         CopyOf(p)' = NoValue
  PROVE  Store!Store(p, x)
<1>1. \A y \in Blocks \ {x} : BlockValue(y)' = BlockValue(y)
  BY ValuesKept, Blocks \ {x} \in SUBSET Blocks
<1>0. BlockValue(x)' = w BY ValuesAre
<1> HIDE DEF Has, Owns, OwnerOf, CopyOf
<1>2. OwnerOf(x) = p BY OwnerIs
<1>3. \A y \in Blocks : OwnerOf(y)' = OwnerOf(y) BY OwnersKept
<1>5. /\ [y \in Blocks |-> BlockValue(y)]'
           = [[y \in Blocks |-> BlockValue(y)] EXCEPT ![x] = w]
      /\ [y \in Blocks |-> OwnerOf(y)][x] = p
      /\ [y \in Blocks |-> OwnerOf(y)]' = [y \in Blocks |-> OwnerOf(y)]
      /\ [q \in Procs |-> CopyOf(q)]'
           = [[q \in Procs |-> CopyOf(q)] EXCEPT ![p] = NoValue]
  BY <1>0, <1>1, <1>2, <1>3
<1> QED BY <1>5 DEF Store!Store, OwnerOf, CopyOf

-----------------------------------------------------------------------------
(***************************************************************************)
(* The steps of the cache, as Store sees them.                             *)
(***************************************************************************)

\* A buffer a process has after bread or getblk is associated with its block.
LEMMA Associated ==
  ASSUME CInv, Healthy, NEW p \in Procs, bp[p] # NoBuf, req[p].op # "empty"
  PROVE  bp[p] \in Bufs /\ req[p].blk \in Blocks /\ bp[p] \in Hit(req[p].blk)
BY DEF CInv, IInv, TypeOK, Requests, ProcessesOK, RequestsOK, AssociationsOK, Hit, Healthy

\* A step that neither ends nor begins anybody's use of a block, and moves no
\* contents: a delayed write that is started stays the block's value.
LEMMA QuietStep ==
  ASSUME CInv, CInv', Healthy,
         UNCHANGED <<bno, data, disk, bp>>,
         \A b \in Bufs :
           /\ "INVAL" \in flags'[b] <=> "INVAL" \in flags[b]
           /\ "DONE" \in flags'[b] \/ io'[b] = "write"
                <=> "DONE" \in flags[b] \/ io[b] = "write",
         \A p \in Procs : {pc[p], pc'[p]} \cap {"hold", "dirty", "wrwait"} # {}
           => pc'[p] = pc[p] /\ req'[p] = req[p]
  PROVE  UNCHANGED Store!storeVars
<1>1. \A p \in Procs : (pc'[p] = "dirty" <=> pc[p] = "dirty") OBVIOUS
<1>2. \A b \in Bufs : Current(b)' <=> Current(b)
  BY <1>1 DEF Current, Holders
<1>3. \A x \in Blocks : Hit(x)' = Hit(x) BY DEF Hit
<1>4. \A x \in Blocks : \A v : Has(x, v) => Has(x, v)'
  <2> HIDE DEF Current
  <2> QED BY <1>2, <1>3 DEF Has, Hit
<1>5. \A p \in Procs, x \in Blocks : Owns(p, x)' <=> Owns(p, x)
  BY <1>3 DEF Owns
<1>6. \A p \in Procs : CopyOf(p)' = CopyOf(p) BY DEF CopyOf
<1> QED BY <1>4, <1>5, <1>6, Stutters

\* A step that ends p's use of its block, the buffer having data.
LEMMA LetGoStep ==
  ASSUME CInv, CInv', Healthy, NEW p \in Procs, NEW b \in Bufs, bp[p] = b,
         pc[p] \in {"hold", "dirty", "wrwait"}, req[p].op # "empty",
         pc[p] = "dirty" \/ "DONE" \in flags[b],
         UNCHANGED <<bno, data, disk>>,
         bp' = [bp EXCEPT ![p] = NoBuf],
         \A c \in Bufs : "INVAL" \in flags'[c] <=> "INVAL" \in flags[c],
         "DONE" \in flags'[b] \/ io'[b] = "write",
         \A c \in Bufs \ {b} : flags'[c] = flags[c] /\ io'[c] = io[c],
         pc'[p] \notin {"hold", "dirty", "wrwait"},
         \A q \in Procs \ {p} : pc'[q] = pc[q] /\ req'[q] = req[q]
  PROVE  \E x \in Blocks : Store!LetGo(p, x)
<1>1. PICK x \in Blocks : x = req[p].blk /\ b \in Hit(x) BY Associated
<1>3. \A q \in Procs \ {p} : bp'[q] = bp[q] /\ bp[q] # b
  BY DEF CInv, IInv, TypeOK, OwnersOK
<1>4. Current(b) /\ Current(b)' BY DEF Current, Holders
<1>5. \A c \in Bufs \ {b} : Current(c)' <=> Current(c)
  <2> SUFFICES ASSUME NEW c \in Bufs \ {b} PROVE Current(c)' <=> Current(c)
    OBVIOUS
  <2>1. \A q \in Procs : bp'[q] = c /\ pc'[q] = "dirty" <=> bp[q] = c /\ pc[q] = "dirty"
    BY <1>3
  <2> QED BY <2>1 DEF Current, Holders
<1>6. \A y \in Blocks : Hit(y)' = Hit(y) BY DEF Hit
<1>7. \A y \in Blocks : \A v : Has(y, v) => Has(y, v)'
  <2> HIDE DEF Current
  <2>1. \A c \in Bufs : Current(c)' <=> Current(c) BY <1>4, <1>5
  <2> QED BY <2>1, <1>6 DEF Has, Hit
<1>8. Owns(p, x) BY <1>1 DEF Owns
<1>9. \A q \in Procs, y \in Blocks : Owns(q, y)' <=> Owns(q, y) /\ q # p
  BY <1>3, <1>6 DEF Owns
<1>10. \A q \in Procs \ {p} : CopyOf(q)' = CopyOf(q) BY <1>3 DEF CopyOf
<1>11. CopyOf(p)' = NoValue BY DEF CopyOf
<1>12. Store!LetGo(p, x)
  <2> HIDE DEF Has, Owns, CopyOf
  <2> QED BY <1>1, <1>7, <1>8, <1>9, <1>10, <1>11, LetsGo
<1> QED BY <1>12

\* What a process with a call to make does.
LEMMA CallStep ==
  ASSUME CInv, CInv', Healthy, NoClose, NEW p \in Procs, Call(p)
  PROVE  UNCHANGED Store!storeVars
<1>1. CASE \E name \in Ops, b, r \in Blocks \cup {NoBlock} : Begin(p, name, b, r)
  <2>1. PICK name \in Ops, b \in Blocks \cup {NoBlock}, r \in Blocks \cup {NoBlock} :
          Begin(p, name, b, r)
    BY <1>1
  <2>2. \A q \in Procs : {pc[q], pc'[q]} \cap {"hold", "dirty", "wrwait"} # {}
           => pc'[q] = pc[q] /\ req'[q] = req[q]
    BY <2>1 DEF Begin, Goto, CInv, IInv, TypeOK
  <2>3. UNCHANGED <<flags, io, bno, data, disk, bp>> BY <2>1 DEF Begin, bufVars
  <2> QED BY <2>2, <2>3, QuietStep
<1>2. ASSUME Bflush(DelayedWrites, {})
      PROVE  \A b \in Bufs :
               /\ "INVAL" \in flags'[b] <=> "INVAL" \in flags[b]
               /\ "DONE" \in flags'[b] \/ io'[b] = "write"
                    <=> "DONE" \in flags[b] \/ io[b] = "write"
  <2> SUFFICES ASSUME NEW b \in Bufs
               PROVE  /\ "INVAL" \in flags'[b] <=> "INVAL" \in flags[b]
                      /\ "DONE" \in flags'[b] \/ io'[b] = "write"
                           <=> "DONE" \in flags[b] \/ io[b] = "write"
    OBVIOUS
  <2>1. CASE b \in DelayedWrites
    <3>1. "DONE" \in flags[b] BY <2>1 DEF DelayedWrites, CInv, ContentsOK, Healthy
    <3>2. io'[b] = "write" BY <1>2, <2>1 DEF Bflush
    <3>3. "INVAL" \in flags'[b] <=> "INVAL" \in flags[b]
      BY <1>2, <2>1 DEF Bflush, WriteFlags
    <3> QED BY <3>1, <3>2, <3>3
  <2>2. CASE b \notin DelayedWrites
    BY <1>2, <2>2 DEF Bflush, CInv, IInv, TypeOK
  <2> QED BY <2>1, <2>2
<1>3. CASE Sync(p)
  <2>1. UNCHANGED <<bno, data, disk, bp, pc, req>> BY <1>3 DEF Sync
  <2> QED BY <1>2, <1>3, <2>1, QuietStep DEF Sync
<1>4. CASE BeginUmount(p)
  <2>1. \A q \in Procs : {pc[q], pc'[q]} \cap {"hold", "dirty", "wrwait"} # {}
           => pc'[q] = pc[q] /\ req'[q] = req[q]
    BY <1>4 DEF BeginUmount, Goto, CInv, IInv, TypeOK
  <2>2. UNCHANGED <<bno, data, disk, bp>> /\ Bflush(DelayedWrites, {})
    BY <1>4 DEF BeginUmount
  <2> QED BY <1>2, <2>1, <2>2, QuietStep
<1>5. ~Close(p) BY DEF Close, NoClose
<1> QED BY <1>1, <1>3, <1>4, <1>5 DEF Call

\* A step in which p becomes the owner of the block of buffer b.
LEMMA GainStep ==
  ASSUME CInv, CInv', Healthy, NEW p \in Procs, NEW b \in Bufs, NEW x \in Blocks,
         b \in Hit(x)', UNCHANGED data,
         \A y \in Blocks : \A v : Has(y, v) => Has(y, v)',
         \A c \in Bufs \ {b}, y \in Blocks : c \in Hit(y)' <=> c \in Hit(y),
         bp'[p] = b, pc'[p] = "hold", pc[p] \notin {"hold", "dirty", "wrwait"},
         \A q \in Procs \ {p} : pc'[q] = pc[q] /\ req'[q] = req[q] /\ bp'[q] = bp[q],
         req'[p].op \in {"read", "readahead", "update"} => Has(x, data[b])
  PROVE  \E y \in Blocks : Store!TakeBlock(p, y) \/ Store!ReadBlock(p, y)
<1>1. \A q \in Procs \ {p} : bp[q] # b /\ (bp[q] # NoBuf => bp[q] \in Bufs)
  BY DEF CInv, IInv, TypeOK, OwnersOK
<1>2. \A q \in Procs \ {p}, y \in Blocks : Owns(q, y)' <=> Owns(q, y)
  <2> SUFFICES ASSUME NEW q \in Procs \ {p}, NEW y \in Blocks
               PROVE  Owns(q, y)' <=> Owns(q, y)
    OBVIOUS
  <2>1. bp'[q] \in Hit(y)' <=> bp[q] \in Hit(y)
    <3>1. CASE bp[q] \in Bufs BY <1>1, <3>1
    <3>2. CASE bp[q] \notin Bufs BY <3>2 DEF Hit
    <3> QED BY <3>1, <3>2
  <2> QED BY <2>1 DEF Owns
<1>3. \A y \in Blocks : ~Owns(p, y) /\ (Owns(p, y)' <=> y = x)
  BY DEF Owns, Hit
<1>4. \A q \in Procs : ~Owns(q, x)
  <2>1. ASSUME NEW q \in Procs \ {p}, Owns(q, x) PROVE FALSE
    <3>1. bp[q] \in Hit(x)' BY <1>1, <2>1 DEF Owns, Hit
    <3>2. bp[q] = b BY <3>1 DEF CInv, IInv, OneBufferPerBlock, Hit
    <3> QED BY <1>1, <3>2
  <2> QED BY <1>3, <2>1
<1>5. \A q \in Procs, y \in Blocks : Owns(q, y)' <=> Owns(q, y) \/ (q = p /\ y = x)
  BY <1>2, <1>3
<1>6. \A q \in Procs \ {p} : CopyOf(q)' = CopyOf(q) BY DEF CopyOf
<1>7. CopyOf(p) = NoValue BY DEF CopyOf
<1>8. CASE req'[p].op \in {"read", "readahead", "update"}
  <2>1. Has(x, CopyOf(p)') BY <1>8 DEF CopyOf
  <2> HIDE DEF Has, Owns, CopyOf
  <2> QED BY <1>4, <1>5, <1>6, <2>1, Reads
<1>9. CASE req'[p].op \notin {"read", "readahead", "update"}
  <2>1. CopyOf(p)' = CopyOf(p) BY <1>7, <1>9 DEF CopyOf
  <2> HIDE DEF Has, Owns, CopyOf
  <2> QED BY <1>4, <1>5, <1>6, <2>1, Takes
<1> QED BY <1>8, <1>9

\* getblk gives a free buffer to a caller: what the buffer had for its old
\* block the disk has too, or the block keeps it.
LEMMA ClaimStep ==
  ASSUME CInv, CInv', Healthy, NoClose, NEW p \in Procs, NEW b \in Bufs,
         NEW f \in SUBSET Flags, NEW w \in Blocks \cup {NoBlock},
         pc[p] \in {"scan", "test"}, avail[b] # "none", "BUSY" \in f,
         UNCHANGED <<data, disk>>, w = want[p],
         \/ /\ w = bno[b] /\ f = flags[b] \cup {"BUSY"}
            /\ "INVAL" \notin flags[b] /\ w # NoBlock
         \/ /\ Hit(want[p]) = {} /\ avail[b] = "reusable" /\ "DELWRI" \notin flags[b]
            /\ f = IF w = NoBlock THEN {"BUSY", "INVAL"} ELSE {"BUSY"},
         Claim(p, b, f, w)
  PROVE  \/ UNCHANGED Store!storeVars
         \/ \E y \in Blocks : Store!TakeBlock(p, y) \/ Store!ReadBlock(p, y)
<1>1. /\ "BUSY" \notin flags[b] /\ "ASYNC" \notin flags[b] /\ io[b] = "none"
      /\ \A q \in Procs : bp[q] # b
      /\ "ERROR" \notin f
  BY DEF CInv, IInv, BuffersOK, OwnersOK, TypeOK, ContentsOK, Healthy
<1>2. /\ \A c \in Bufs \ {b} : flags'[c] = flags[c] /\ bno'[c] = bno[c] /\ io'[c] = io[c]
      /\ bno'[b] = w
      /\ "INVAL" \in flags'[b] <=> "INVAL" \in f
      /\ "DONE" \in flags'[b] <=> "DONE" \in f
      /\ io'[b] # "write"
      /\ \A q \in Procs \ {p} : bp'[q] = bp[q] /\ pc'[q] = pc[q] /\ req'[q] = req[q]
      /\ bp'[p] \in {bp[p], b}
      /\ pc'[p] \in {"scan", "iowait", "ahead"} \/ (pc'[p] = "hold" /\ bp'[p] = b)
      /\ pc'[p] = "hold" => req'[p] = req[p]
      /\ pc'[p] = "hold" /\ req[p].op \in {"read", "readahead", "update"} => "DONE" \in f
  <2>1. CASE ClaimAhead(p, b, f, w) /\ "DONE" \in f
    BY <1>1, <2>1 DEF ClaimAhead, Brelse, AfterAhead, Goto, CInv, IInv, TypeOK
  <2>2. CASE ClaimAhead(p, b, f, w) /\ "DONE" \notin f
    BY <1>1, <2>2 DEF ClaimAhead, Strategy, AfterAhead, Goto, CInv, IInv, TypeOK
  <2>3. CASE ClaimRead(p, b, f, w)
    BY <1>1, <2>3 DEF ClaimRead, Strategy, Goto, CInv, IInv, TypeOK
  <2>4. CASE ClaimWhole(p, b, f, w)
    BY <1>1, <2>4 DEF ClaimWhole, Goto, CInv, IInv, TypeOK
  <2> QED BY <2>1, <2>2, <2>3, <2>4 DEF Claim
<1>3. \A c \in Bufs \ {b} : (Current(c)' <=> Current(c))
  <2> SUFFICES ASSUME NEW c \in Bufs \ {b} PROVE Current(c)' <=> Current(c)
    OBVIOUS
  <2>1. \A q \in Procs : bp'[q] = c /\ pc'[q] = "dirty" <=> bp[q] = c /\ pc[q] = "dirty"
    BY <1>2
  <2> QED BY <1>2, <2>1 DEF Current, Holders
<1>4. Current(b) <=> "DONE" \in flags[b] BY <1>1 DEF Current, Holders
<1>5. Current(b)' <=> "DONE" \in f
  <2>1. \A q \in Procs : ~(bp'[q] = b /\ pc'[q] = "dirty") BY <1>1, <1>2
  <2> QED BY <1>2, <2>1 DEF Current, Holders
<1>6. \A c \in Bufs \ {b}, y \in Blocks : c \in Hit(y)' <=> c \in Hit(y)
  BY <1>2 DEF Hit
<1>7. ASSUME w = bno[b], f = flags[b] \cup {"BUSY"}
      PROVE  \A y \in Blocks : \A v : Has(y, v) => Has(y, v)'
  <2>1. \A y \in Blocks : b \in Hit(y)' <=> b \in Hit(y) BY <1>2, <1>7 DEF Hit
  <2>2. Current(b)' <=> Current(b) BY <1>4, <1>5, <1>7
  <2>3. \A y \in Blocks : Hit(y)' = Hit(y) /\ Hit(y) \subseteq Bufs
    BY <1>6, <2>1 DEF Hit
  <2> HIDE DEF Current, Hit
  <2> QED BY <1>3, <2>2, <2>3 DEF Has
<1>8. ASSUME Hit(want[p]) = {}, avail[b] = "reusable", "DELWRI" \notin flags[b],
             f = IF w = NoBlock THEN {"BUSY", "INVAL"} ELSE {"BUSY"}
      PROVE  \A y \in Blocks : \A v : Has(y, v) => Has(y, v)'
  <2> SUFFICES ASSUME NEW y \in Blocks, NEW v, Has(y, v) PROVE Has(y, v)'
    OBVIOUS
  <2>1. ~Current(b)' BY <1>5, <1>8
  <2>2. b \in Hit(y) /\ Current(b) => data[b] = disk[y]
    BY <1>1, <1>4, <1>8 DEF CInv, CleanMatchesDisk, Holders, Healthy
  <2>3. /\ \A c \in Hit(y) : c = b \/ (c \in Hit(y)' /\ c \in Bufs \ {b})
        /\ \A c \in Hit(y)' : c = b \/ (c \in Hit(y) /\ c \in Bufs \ {b})
    BY <1>6 DEF Hit
  <2>4. \A c, d \in Hit(y) : c = d BY DEF Hit, CInv, IInv, OneBufferPerBlock
  <2>5. b \in Hit(y)' => Hit(y) = {} BY <1>2, <1>8 DEF Hit
  <2> HIDE DEF Current, Hit
  <2>6. CASE b \in Hit(y)'
    <3>1. \A c \in Hit(y)' : c = b BY <2>3, <2>5, <2>6
    <3>2. \A c \in Hit(y)' : ~Current(c)' BY <2>1, <3>1
    <3>3. disk[y] = v BY <2>5, <2>6 DEF Has
    <3> QED BY <3>2, <3>3 DEF Has
  <2>7. CASE b \notin Hit(y)' /\ b \in Hit(y)
    <3>1. \A c \in Hit(y)' : FALSE BY <2>3, <2>4, <2>7
    <3> QED BY <2>2, <2>4, <2>7, <3>1 DEF Has
  <2>8. CASE b \notin Hit(y)' /\ b \notin Hit(y)
    BY <1>3, <2>3, <2>8 DEF Has
  <2> QED BY <2>6, <2>7, <2>8
<1>9. \A y \in Blocks : \A v : Has(y, v) => Has(y, v)' BY <1>7, <1>8
<1>10. CASE pc'[p] = "hold" /\ w # NoBlock
  <2>1. w \in Blocks /\ b \in Hit(w)' BY <1>2, <1>10 DEF Hit
  <2>2. req'[p].op \in {"read", "readahead", "update"} => Has(w, data[b])
    <3> SUFFICES ASSUME req'[p].op \in {"read", "readahead", "update"} PROVE Has(w, data[b])
      OBVIOUS
    <3>1. "DONE" \in f BY <1>2, <1>10
    <3>2. w = bno[b] /\ "INVAL" \notin flags[b] /\ "DONE" \in flags[b] BY <3>1
    <3> QED BY <1>4, <1>10, <3>2 DEF Has, Hit
  <2>3. bp'[p] = b /\ pc[p] \notin {"hold", "dirty", "wrwait"} BY <1>2, <1>10
  <2> HIDE DEF Has
  <2> QED BY <1>2, <1>6, <1>9, <1>10, <2>1, <2>2, <2>3, GainStep
<1>11. CASE pc'[p] # "hold" \/ w = NoBlock
  <2>1. \A q \in Procs, y \in Blocks : Owns(q, y)' <=> Owns(q, y)
    <3> SUFFICES ASSUME NEW q \in Procs, NEW y \in Blocks PROVE Owns(q, y)' <=> Owns(q, y)
      OBVIOUS
    <3>1. CASE q = p BY <1>2, <1>11, <3>1 DEF Owns, Hit
    <3>2. CASE q # p
      <4>1. bp[q] \in Hit(y)' <=> bp[q] \in Hit(y) BY <1>1, <1>6, <3>2 DEF Hit
      <4> QED BY <1>2, <3>2, <4>1 DEF Owns
    <3> QED BY <3>1, <3>2
  <2>2. \A q \in Procs : CopyOf(q)' = CopyOf(q)
    <3>1. pc'[p] = "hold" => req[p].op \notin {"read", "readahead", "update"}
      BY <1>2, <1>11
    <3> QED BY <1>2, <3>1 DEF CopyOf
  <2> HIDE DEF Has, Owns, CopyOf
  <2> QED BY <1>9, <2>1, <2>2, Stutters
<1> QED BY <1>10, <1>11

\* getblk, when it finds no buffer and when it finds one.
LEMMA GetblkStep ==
  ASSUME CInv, CInv', Healthy, NoClose, NEW p \in Procs,
         TakeFound(p) \/ \E v \in Bufs : Reassign(p, v)
  PROVE  \/ UNCHANGED Store!storeVars
         \/ \E y \in Blocks : Store!TakeBlock(p, y) \/ Store!ReadBlock(p, y)
<1>1. CASE TakeFound(p)
  <2> DEFINE b == cand[p]
             f == flags[b] \cup {"BUSY"}
  <2>1. pc[p] = "test" /\ Claim(p, b, f, bno[b]) /\ UNCHANGED <<data, disk>>
        /\ "BUSY" \notin flags[b]
    BY <1>1 DEF TakeFound
  <2>2. /\ b \in Bufs /\ bno[b] = want[p] /\ want[p] # NoBlock
        /\ "INVAL" \notin flags[b]
    BY <2>1 DEF CInv, IInv, TypeOK, ProcessesOK, AssociationsOK, Healthy
  <2>3. /\ f \in SUBSET Flags /\ bno[b] \in Blocks \cup {NoBlock}
        /\ avail[b] # "none" /\ "BUSY" \in f /\ f = flags[b] \cup {"BUSY"}
    BY <2>1, <2>2 DEF CInv, IInv, TypeOK, BuffersOK, Flags
  <2>4. PICK c \in Bufs, g \in SUBSET Flags, w \in Blocks \cup {NoBlock} :
          c = b /\ g = f /\ w = bno[b]
    BY <2>2, <2>3
  <2> HIDE DEF b, f
  <2>5. /\ pc[p] \in {"scan", "test"} /\ avail[c] # "none" /\ "BUSY" \in g
        /\ w = want[p] /\ w = bno[c] /\ g = flags[c] \cup {"BUSY"}
        /\ "INVAL" \notin flags[c] /\ w # NoBlock
        /\ Claim(p, c, g, w)
    BY <2>1, <2>2, <2>3, <2>4
  <2> QED BY <2>1, <2>5, ClaimStep
<1>2. ASSUME NEW v \in Bufs, Reassign(p, v)
      PROVE  \/ UNCHANGED Store!storeVars
             \/ \E y \in Blocks : Store!TakeBlock(p, y) \/ Store!ReadBlock(p, y)
  <2>1. want[p] \in Blocks \cup {NoBlock} BY DEF CInv, IInv, TypeOK
  <2>2. PICK w \in Blocks \cup {NoBlock} : w = want[p] BY <2>1
  <2> DEFINE f == IF w = NoBlock THEN {"BUSY", "INVAL"} ELSE {"BUSY"}
  <2>3. /\ pc[p] = "scan" /\ UNCHANGED <<data, disk>> /\ Claim(p, v, f, w)
        /\ Hit(want[p]) = {} /\ avail[v] = "reusable" /\ "DELWRI" \notin flags[v]
    BY <1>2, <2>2 DEF Reassign, Reusable
  <2>4. f \in SUBSET Flags /\ "BUSY" \in f
        /\ f = IF w = NoBlock THEN {"BUSY", "INVAL"} ELSE {"BUSY"}
    BY DEF Flags
  <2> HIDE DEF f
  <2>5. avail[v] # "none" /\ pc[p] \in {"scan", "test"} BY <2>3
  <2> QED BY <2>2, <2>3, <2>4, <2>5, ClaimStep
<1> QED BY <1>1, <1>2

\* The steps of a process that wait, look or account.
LEMMA WaitStep ==
  ASSUME CInv, CInv', Healthy, NEW p \in Procs,
         \/ Walk(p) \/ WaitFree(p) \/ WaitBusy(p) \/ Ahead(p) \/ SleepIo(p)
         \/ Mounted(p) \/ MountFailed(p) \/ PrematureReturn(p)
         \/ \E v \in Bufs : WriteVictim(p, v)
  PROVE  UNCHANGED Store!storeVars
<1>1. CASE Walk(p) \/ Ahead(p) \/ Mounted(p)
  <2>1. \A q \in Procs : {pc[q], pc'[q]} \cap {"hold", "dirty", "wrwait"} # {}
           => pc'[q] = pc[q] /\ req'[q] = req[q]
    BY <1>1 DEF Walk, Ahead, AfterAhead, Mounted, Goto, Return, CInv, IInv, TypeOK
  <2>2. UNCHANGED <<flags, io, bno, data, disk>>
    BY <1>1 DEF Walk, Ahead, Mounted, bufVars
  <2>3. UNCHANGED bp
    BY <1>1 DEF Walk, Ahead, Mounted, Return, CInv, IInv, TypeOK, ProcessesOK
  <2> QED BY <2>1, <2>2, <2>3, QuietStep
<1>2. CASE WaitFree(p) \/ SleepIo(p) \/ PrematureReturn(p)
  <2>1. UNCHANGED <<flags, io, bno, data, disk, bp, pc, req>>
    BY <1>2 DEF WaitFree, SleepIo, PrematureReturn, bufVars
  <2> QED BY <2>1, QuietStep
<1>3. CASE WaitBusy(p) \/ MountFailed(p)
  <2>1. \A q \in Procs : {pc[q], pc'[q]} \cap {"hold", "dirty", "wrwait"} # {}
           => pc'[q] = pc[q] /\ req'[q] = req[q]
    BY <1>3 DEF WaitBusy, MountFailed, Goto, Return, CInv, IInv, TypeOK
  <2>2. UNCHANGED <<io, bno, data, disk>>
    BY <1>3 DEF WaitBusy, MountFailed
  <2>3. UNCHANGED bp
    BY <1>3 DEF WaitBusy, MountFailed, Return, CInv, IInv, TypeOK, ProcessesOK
  <2>4. \A b \in Bufs : /\ "INVAL" \in flags'[b] <=> "INVAL" \in flags[b]
                        /\ "DONE" \in flags'[b] <=> "DONE" \in flags[b]
    BY <1>3 DEF WaitBusy, MountFailed, CInv, IInv, TypeOK
  <2> QED BY <2>1, <2>2, <2>3, <2>4, QuietStep
<1>4. ASSUME NEW v \in Bufs, WriteVictim(p, v) PROVE UNCHANGED Store!storeVars
  <2>1. UNCHANGED <<bno, data, disk, bp, pc, req>>
    BY <1>4 DEF WriteVictim, procVars
  <2>2. "DONE" \in flags[v] BY <1>4 DEF WriteVictim, CInv, ContentsOK, Healthy
  <2>3. /\ io'[v] = "write" /\ ("INVAL" \in flags'[v] <=> "INVAL" \in flags[v])
        /\ \A b \in Bufs \ {v} : flags'[b] = flags[b] /\ io'[b] = io[b]
    BY <1>4 DEF WriteVictim, Strategy, WriteFlags, CInv, IInv, TypeOK
  <2>4. \A b \in Bufs :
          /\ "INVAL" \in flags'[b] <=> "INVAL" \in flags[b]
          /\ "DONE" \in flags'[b] \/ io'[b] = "write"
               <=> "DONE" \in flags[b] \/ io[b] = "write"
    BY <2>2, <2>3
  <2> QED BY <2>1, <2>4, QuietStep
<1> QED BY <1>1, <1>2, <1>3, <1>4

\* bread returns.
LEMMA ReadDoneStep ==
  ASSUME CInv, CInv', Healthy, NEW p \in Procs, ReadDone(p)
  PROVE  \E y \in Blocks : Store!TakeBlock(p, y) \/ Store!ReadBlock(p, y)
<1>1. /\ pc[p] = "iowait" /\ "DONE" \in flags[bp[p]] /\ bp[p] # NoBuf
      /\ req[p].op # "empty"
  BY DEF ReadDone, CInv, IInv, ProcessesOK, RequestsOK
<1>2. PICK b \in Bufs, x \in Blocks : b = bp[p] /\ b \in Hit(x)
  BY <1>1, Associated
<1>3. /\ UNCHANGED <<flags, bno, io, data, disk, bp, req>>
      /\ pc'[p] = "hold" /\ \A q \in Procs \ {p} : pc'[q] = pc[q]
  BY <1>1, <1>2 DEF ReadDone, Goto, bufVars, CInv, IInv, TypeOK, ContentsOK, Healthy
<1>4. \A c \in Bufs : Current(c)' <=> Current(c)
  <2>1. \A q \in Procs : pc'[q] = "dirty" <=> pc[q] = "dirty" BY <1>1, <1>3
  <2> QED BY <1>3, <2>1 DEF Current, Holders
<1>5. \A y \in Blocks : Hit(y)' = Hit(y) /\ Hit(y) \subseteq Bufs BY <1>3 DEF Hit
<1>6. \A y \in Blocks : \A v : Has(y, v) => Has(y, v)'
  <2> HIDE DEF Current, Hit
  <2> QED BY <1>3, <1>4, <1>5 DEF Has
<1>7. Has(x, data[b]) BY <1>1, <1>2 DEF Has, Current
<1>8. b \in Hit(x)' /\ \A c \in Bufs \ {b}, y \in Blocks : c \in Hit(y)' <=> c \in Hit(y)
  BY <1>2, <1>5
<1>9. bp'[p] = b /\ pc[p] \notin {"hold", "dirty", "wrwait"} BY <1>1, <1>2, <1>3
<1> HIDE DEF Has, Hit
<1> QED BY <1>3, <1>6, <1>7, <1>8, <1>9, GainStep

\* brelse and bdwrite, bwrite's end, and fson's brelse of the super block.
LEMMA ReleaseStep ==
  ASSUME CInv, CInv', Healthy, NEW p \in Procs,
         Release(p) \/ WriteDone(p) \/ Pin(p) \/ Bdwrite(p) \/ Bawrite(p)
  PROVE  UNCHANGED Store!storeVars \/ \E x \in Blocks : Store!LetGo(p, x)
<1>1. PICK b \in Bufs : b = bp[p]
  BY DEF Release, WriteDone, Pin, Bdwrite, Bawrite, CInv, IInv, TypeOK, ProcessesOK
<1>2. "ERROR" \notin flags[b] BY DEF CInv, ContentsOK, Healthy
<1>3. /\ pc[p] \in {"hold", "dirty", "wrwait"}
      /\ pc[p] = "dirty" \/ "DONE" \in flags[b] \/ req[p].op = "empty"
  BY <1>1 DEF Release, WriteDone, Pin, Bdwrite, Bawrite, CInv, RequestsOK,
              AssociationsOK, Healthy
<1>4. /\ UNCHANGED <<bno, data, disk>>
      /\ bp' = [bp EXCEPT ![p] = NoBuf]
      /\ "INVAL" \in flags'[b] <=> "INVAL" \in flags[b]
      /\ "DONE" \in flags[b] \/ pc[p] = "dirty" => "DONE" \in flags'[b] \/ io'[b] = "write"
      /\ \A c \in Bufs \ {b} : flags'[c] = flags[c] /\ io'[c] = io[c]
      /\ pc'[p] \in {"idle", "mounting"}
      /\ \A q \in Procs \ {p} : pc'[q] = pc[q] /\ req'[q] = req[q]
  <2>1. CASE Release(p) \/ WriteDone(p)
    <3>1. /\ Brelse(b, flags[b]) /\ Return(p) /\ UNCHANGED <<data, io, disk>>
          /\ pc[p] # "dirty"
      BY <1>1, <2>1 DEF Release, WriteDone
    <3> QED BY <1>1, <1>2, <3>1 DEF Brelse, Return, CInv, IInv, TypeOK
  <2>2. CASE Pin(p)
    BY <1>1, <1>2, <1>3, <2>2 DEF Pin, Brelse, Goto, CInv, IInv, TypeOK
  <2>3. CASE Bdwrite(p)
    BY <1>1, <1>2, <1>3, <2>3 DEF Bdwrite, Brelse, Return, CInv, IInv, TypeOK
  <2>4. CASE Bawrite(p)
    BY <1>1, <1>3, <2>4 DEF Bawrite, Strategy, WriteFlags, Return, CInv, IInv, TypeOK
  <2> QED BY <2>1, <2>2, <2>3, <2>4
<1>5. \A c \in Bufs : "INVAL" \in flags'[c] <=> "INVAL" \in flags[c] BY <1>4
<1>6. CASE req[p].op # "empty"
  BY <1>1, <1>3, <1>4, <1>5, <1>6, LetGoStep
<1>7. CASE req[p].op = "empty"
  <2>1. pc[p] \in {"hold", "wrwait"} /\ bno[b] = NoBlock
    BY <1>1, <1>3, <1>7 DEF CInv, RequestsOK, AssociationsOK, Healthy
  <2>2. \A c \in Bufs \ {b} : Current(c)' <=> Current(c)
    <3> SUFFICES ASSUME NEW c \in Bufs \ {b} PROVE Current(c)' <=> Current(c)
      OBVIOUS
    <3>1. \A q \in Procs : bp'[q] = c /\ pc'[q] = "dirty" <=> bp[q] = c /\ pc[q] = "dirty"
      BY <1>1, <1>4, <2>1 DEF CInv, IInv, TypeOK
    <3> QED BY <1>4, <3>1 DEF Current, Holders
  <2>3. \A y \in Blocks : Hit(y)' = Hit(y) /\ Hit(y) \subseteq Bufs \ {b}
    BY <1>4, <1>5, <2>1 DEF Hit
  <2>4. \A y \in Blocks : \A v : Has(y, v) => Has(y, v)'
    <3> HIDE DEF Current, Hit
    <3> QED BY <1>4, <2>2, <2>3 DEF Has
  <2>5. \A q \in Procs, y \in Blocks : Owns(q, y)' <=> Owns(q, y)
    <3>1. \A q \in Procs \ {p} : bp'[q] = bp[q] BY <1>4
    <3> QED BY <1>1, <1>4, <2>3, <3>1 DEF Owns
  <2>6. \A q \in Procs : CopyOf(q)' = CopyOf(q)
    <3>1. \A q \in Procs \ {p} : bp'[q] = bp[q] BY <1>4
    <3> QED BY <1>4, <1>7, <3>1 DEF CopyOf
  <2> HIDE DEF Has, Owns, CopyOf
  <2> QED BY <2>4, <2>5, <2>6, Stutters
<1> QED BY <1>6, <1>7

\* fswrite fills the buffer.
LEMMA FillStep ==
  ASSUME CInv, CInv', Healthy, NEW p \in Procs, Fill(p)
  PROVE  \E y \in Blocks : Store!Store(p, y)
<1>1. /\ pc[p] = "hold" /\ req[p].op \in {"update", "overwrite"} /\ bp[p] # NoBuf
      /\ UNCHANGED <<flags, bno, io, disk, bp, req>>
  BY DEF Fill, CInv, IInv, ProcessesOK
<1>2. PICK b \in Bufs, x \in Blocks : b = bp[p] /\ b \in Hit(x)
  BY <1>1, Associated
<1>3. PICK w \in Values : data' = [data EXCEPT ![b] = w] BY <1>2 DEF Fill
<1>4. /\ pc'[p] = "dirty" /\ \A q \in Procs \ {p} : pc'[q] = pc[q] /\ bp[q] # b
      /\ data'[b] = w /\ \A c \in Bufs \ {b} : data'[c] = data[c]
  BY <1>1, <1>2, <1>3 DEF Fill, Goto, CInv, IInv, TypeOK, OwnersOK
<1>5. Current(b)' BY <1>1, <1>2, <1>4 DEF Current, Holders
<1>6. \A c \in Bufs \ {b} : Current(c)' <=> Current(c)
  BY <1>1, <1>2, <1>4 DEF Current, Holders
<1>7. \A y \in Blocks : Hit(y)' = Hit(y) /\ Hit(y) \subseteq Bufs BY <1>1 DEF Hit
<1>8. \A y \in Blocks \ {x} : b \notin Hit(y) BY <1>2 DEF Hit
<1>9. \A y \in Blocks \ {x} : \A v : Has(y, v) => Has(y, v)'
  <2> HIDE DEF Current, Hit
  <2> QED BY <1>1, <1>4, <1>6, <1>7, <1>8 DEF Has
<1>10. Has(x, w)'
  <2> HIDE DEF Current, Hit
  <2> QED BY <1>2, <1>4, <1>5, <1>7 DEF Has
<1>11. Owns(p, x) BY <1>1, <1>2 DEF Owns
<1>12. \A q \in Procs, y \in Blocks : Owns(q, y)' <=> Owns(q, y)
  <2> HIDE DEF Hit
  <2> QED BY <1>1, <1>4, <1>7 DEF Owns
<1>13. \A q \in Procs \ {p} : CopyOf(q)' = CopyOf(q)
  BY <1>1, <1>4 DEF CopyOf, CInv, IInv, TypeOK, ProcessesOK
<1>14. CopyOf(p)' = NoValue BY <1>4 DEF CopyOf
<1> HIDE DEF Has, Owns, CopyOf
<1> QED BY <1>9, <1>10, <1>11, <1>12, <1>13, <1>14, Stores

\* bwrite, from fswrite or from fsoff, starts a transfer and keeps the buffer.
LEMMA BwriteStep ==
  ASSUME CInv, CInv', Healthy, NEW p \in Procs, NEW b \in Bufs, bp[p] = b,
         pc[p] = "dirty" \/ (pc[p] = "hold" /\ "DONE" \in flags[b]),
         req[p].op \in {"update", "overwrite", "umount"},
         pc[p] = "hold" => req[p].op = "umount",
         UNCHANGED <<bno, data, disk, bp, req>>,
         "INVAL" \in flags'[b] <=> "INVAL" \in flags[b],
         io' = [io EXCEPT ![b] = "write"],
         \A c \in Bufs \ {b} : flags'[c] = flags[c],
         pc' = [pc EXCEPT ![p] = "wrwait"]
  PROVE  UNCHANGED Store!storeVars
<1>1. /\ pc'[p] = "wrwait" /\ \A q \in Procs \ {p} : pc'[q] = pc[q] /\ bp[q] # b
      /\ io'[b] = "write" /\ \A c \in Bufs \ {b} : io'[c] = io[c]
  BY DEF CInv, IInv, TypeOK, OwnersOK
<1>2. Current(b) /\ Current(b)' BY <1>1 DEF Current, Holders
<1>3. \A c \in Bufs \ {b} : Current(c)' <=> Current(c)
  BY <1>1 DEF Current, Holders
<1>4. \A y \in Blocks : Hit(y)' = Hit(y) /\ Hit(y) \subseteq Bufs BY DEF Hit
<1>5. \A y \in Blocks : \A v : Has(y, v) => Has(y, v)'
  <2> HIDE DEF Current, Hit
  <2>1. \A c \in Bufs : Current(c)' <=> Current(c) BY <1>2, <1>3
  <2> QED BY <1>4, <2>1 DEF Has
<1>6. \A q \in Procs, y \in Blocks : Owns(q, y)' <=> Owns(q, y)
  <2> HIDE DEF Hit
  <2> QED BY <1>1, <1>4 DEF Owns
<1>7. \A q \in Procs : CopyOf(q)' = CopyOf(q) BY <1>1 DEF CopyOf
<1> HIDE DEF Has, Owns, CopyOf
<1> QED BY <1>5, <1>6, <1>7, Stutters

\* fsoff gives the super block back.
LEMMA UnpinStep ==
  ASSUME CInv, CInv', Healthy, NEW p \in Procs, Unpin(p)
  PROVE  UNCHANGED Store!storeVars \/ \E x \in Blocks : Store!LetGo(p, x)
<1>1. PICK b \in Bufs : b = bp[p]
  BY DEF Unpin, CInv, IInv, TypeOK, ProcessesOK
<1>2. pc[p] = "hold" /\ req[p].op = "umount" /\ io[b] = "none"
  BY <1>1 DEF Unpin, CInv, IInv, ProcessesOK
<1>3. b = super
  <2>1. /\ super \in Bufs /\ bno[super] = Super /\ "INVAL" \notin flags[super]
    BY <1>2 DEF CInv, IInv, TypeOK, SuperOK, Healthy
  <2>2. bno[b] = Super /\ "INVAL" \notin flags[b]
    BY <1>1, <1>2 DEF CInv, AssociationsOK, RequestsOK, Healthy
  <2> QED BY <2>1, <2>2 DEF CInv, IInv, OneBufferPerBlock
<1>4. "DONE" \in flags[b] /\ "ERROR" \notin flags[b]
  BY <1>2, <1>3 DEF CInv, SuperOK, ContentsOK, Healthy
<1> DEFINE f == flags[b] \ {"LOCKED", "ASYNC"}
<1>5. CASE Brelse(b, f) /\ Return(p) /\ UNCHANGED <<data, disk, io>>
  <2>1. /\ UNCHANGED bno /\ bp' = [bp EXCEPT ![p] = NoBuf]
        /\ \A c \in Bufs : "INVAL" \in flags'[c] <=> "INVAL" \in flags[c]
        /\ "DONE" \in flags'[b]
        /\ \A c \in Bufs \ {b} : flags'[c] = flags[c] /\ io'[c] = io[c]
        /\ pc'[p] = "idle"
        /\ \A q \in Procs \ {p} : pc'[q] = pc[q] /\ req'[q] = req[q]
    BY <1>4, <1>5 DEF Brelse, Return, CInv, IInv, TypeOK
  <2>2. /\ UNCHANGED <<bno, data, disk>> /\ pc[p] \in {"hold", "dirty", "wrwait"}
        /\ pc'[p] \notin {"hold", "dirty", "wrwait"} /\ req[p].op # "empty"
    BY <1>2, <1>5, <2>1
  <2> QED BY <1>1, <1>4, <2>1, <2>2, LetGoStep
<1>6. CASE /\ Strategy(b, WriteFlags(f), "write") /\ Goto(p, "wrwait")
           /\ UNCHANGED <<bno, data, disk, bp, req>>
  <2>1. /\ "INVAL" \in flags'[b] <=> "INVAL" \in flags[b]
        /\ \A c \in Bufs \ {b} : flags'[c] = flags[c]
        /\ io' = [io EXCEPT ![b] = "write"] /\ pc' = [pc EXCEPT ![p] = "wrwait"]
    BY <1>6 DEF Strategy, WriteFlags, Goto, CInv, IInv, TypeOK
  <2> QED BY <1>1, <1>2, <1>4, <1>6, <2>1, BwriteStep
<1> QED BY <1>1, <1>5, <1>6 DEF Unpin

\* The disk's interrupt: the transfer makes the buffer and the disk equal.
LEMMA IodoneStep ==
  ASSUME CInv, CInv', Healthy, NoClose, NEW b \in Bufs, NEW err \in BOOLEAN,
         Iodone(b, err)
  PROVE  UNCHANGED Store!storeVars
<1>1. /\ io[b] # "none" /\ ~err /\ bno[b] \in Blocks /\ "ERROR" \notin flags[b]
      /\ "DONE" \notin flags[b] /\ "INVAL" \notin flags[b]
      /\ UNCHANGED <<pc, req, bp>>
      /\ io'[b] = "none" /\ \A c \in Bufs \ {b} : io'[c] = io[c]
  BY DEF Iodone, CInv, IInv, TypeOK, BuffersOK, ContentsOK, Healthy, NoPanic
<1>2. /\ "DONE" \in flags'[b] /\ "INVAL" \notin flags'[b]
      /\ UNCHANGED bno /\ \A c \in Bufs \ {b} : flags'[c] = flags[c]
  <2> DEFINE f == flags[b] \cup {"DONE"}
  <2>1. f = flags[b] \cup {"DONE"} \cup (IF err THEN {"ERROR"} ELSE {}) BY <1>1
  <2>2. "ERROR" \notin f /\ "DONE" \in f /\ "INVAL" \notin f BY <1>1
  <2>3. CASE "ASYNC" \in f
    <3>1. Brelse(b, f) BY <2>1, <2>3 DEF Iodone
    <3> HIDE DEF f
    <3> QED BY <2>2, <3>1 DEF Brelse, CInv, IInv, TypeOK
  <2>4. CASE "ASYNC" \notin f
    <3>1. flags' = [flags EXCEPT ![b] = f \ {"WANTED"}] /\ UNCHANGED bno
      BY <2>1, <2>4 DEF Iodone
    <3> HIDE DEF f
    <3> QED BY <2>2, <3>1 DEF CInv, IInv, TypeOK
  <2> QED BY <2>3, <2>4
<1>3. /\ \A c \in Bufs \ {b} : data'[c] = data[c]
      /\ \A y \in Blocks \ {bno[b]} : disk'[y] = disk[y]
      /\ io[b] = "write" => data'[b] = data[b]
      /\ io[b] = "read" => data'[b] = disk[bno[b]]
      /\ io[b] \in {"read", "write"}
  BY <1>1 DEF Iodone, CInv, IInv, TypeOK
<1>4. Current(b)' BY <1>2 DEF Current
<1>5. Current(b) <=> io[b] = "write"
  <2>1. \A q \in Procs : bp[q] = b => pc[q] # "dirty"
    BY <1>1 DEF CInv, IInv, ProcessesOK
  <2> QED BY <1>1, <2>1 DEF Current, Holders
<1>6. \A c \in Bufs \ {b} : Current(c)' <=> Current(c)
  BY <1>1, <1>2 DEF Current, Holders
<1>7. \A y \in Blocks : Hit(y)' = Hit(y) /\ Hit(y) \subseteq Bufs
  BY <1>1, <1>2 DEF Hit
<1>8. Hit(bno[b]) = {b}
  BY <1>1 DEF Hit, CInv, IInv, OneBufferPerBlock
<1>9. \A y \in Blocks \ {bno[b]} : b \notin Hit(y) BY DEF Hit
<1>10. \A y \in Blocks : \A v : Has(y, v) => Has(y, v)'
  <2> SUFFICES ASSUME NEW y \in Blocks, NEW v, Has(y, v) PROVE Has(y, v)'
    OBVIOUS
  <2> HIDE DEF Current, Hit
  <2>1. CASE y = bno[b]
    <3>1. Hit(y) = {b} /\ Hit(y)' = {b} BY <1>7, <1>8, <2>1
    <3>2. CASE io[b] = "write"
      <4>1. data[b] = v BY <1>5, <3>1, <3>2 DEF Has
      <4> QED BY <1>3, <1>4, <3>1, <3>2, <4>1 DEF Has
    <3>3. CASE io[b] = "read"
      <4>1. disk[y] = v BY <1>5, <3>1, <3>3 DEF Has
      <4> QED BY <1>3, <1>4, <2>1, <3>1, <3>3, <4>1 DEF Has
    <3> QED BY <1>3, <3>2, <3>3
  <2>2. CASE y # bno[b]
    BY <1>3, <1>6, <1>7, <1>9, <2>2 DEF Has
  <2> QED BY <2>1, <2>2
<1>11. \A q \in Procs, y \in Blocks : Owns(q, y)' <=> Owns(q, y)
  <2> HIDE DEF Hit
  <2> QED BY <1>1, <1>7 DEF Owns
<1>12. \A q \in Procs : CopyOf(q)' = CopyOf(q)
  <2>1. \A q \in Procs : pc[q] = "hold" => bp[q] \in Bufs \ {b}
    BY <1>1 DEF CInv, IInv, TypeOK, ProcessesOK
  <2> QED BY <1>1, <1>3, <2>1 DEF CopyOf
<1> HIDE DEF Has, Owns, CopyOf
<1> QED BY <1>10, <1>11, <1>12, Stutters

-----------------------------------------------------------------------------
\* Every step of the cache is a step of Store, or one that Store does not see.
LEMMA StoreSteps ==
  ASSUME Healthy, NoClose, CInv, CInv', [Next]_vars
  PROVE  [Store!StoreNext]_(Store!storeVars)
<1>1. ASSUME NEW p \in Procs, Proceed(p) PROVE [Store!StoreNext]_(Store!storeVars)
  <2>1. CASE TakeFound(p) \/ \E v \in Bufs : Reassign(p, v)
    BY <2>1, GetblkStep DEF Store!StoreNext
  <2>2. CASE \/ Walk(p) \/ WaitFree(p) \/ WaitBusy(p) \/ Ahead(p) \/ SleepIo(p)
             \/ Mounted(p) \/ MountFailed(p) \/ \E v \in Bufs : WriteVictim(p, v)
    BY <2>2, WaitStep
  <2>3. CASE ReadDone(p) BY <2>3, ReadDoneStep DEF Store!StoreNext
  <2>4. CASE Release(p) \/ WriteDone(p) \/ Pin(p) \/ Bdwrite(p) \/ Bawrite(p)
    BY <2>4, ReleaseStep DEF Store!StoreNext
  <2>5. CASE Fill(p) BY <2>5, FillStep DEF Store!StoreNext
  <2>6. ~Fault(p) BY DEF Fault, Healthy
  <2>7. CASE Bwrite(p)
    <3>1. PICK b \in Bufs : b = bp[p]
      BY <2>7 DEF Bwrite, CInv, IInv, TypeOK, ProcessesOK
    <3>2. /\ pc[p] = "dirty" /\ req[p].op \in {"update", "overwrite", "umount"}
          /\ UNCHANGED <<bno, data, disk, bp, req>>
          /\ "INVAL" \in flags'[b] <=> "INVAL" \in flags[b]
          /\ io' = [io EXCEPT ![b] = "write"]
          /\ \A c \in Bufs \ {b} : flags'[c] = flags[c]
          /\ pc' = [pc EXCEPT ![p] = "wrwait"]
      BY <2>7, <3>1 DEF Bwrite, Strategy, WriteFlags, Goto, CInv, IInv, TypeOK, RequestsOK
    <3> QED BY <3>1, <3>2, BwriteStep
  <2>8. CASE Unpin(p) BY <2>8, UnpinStep DEF Store!StoreNext
  <2> QED BY <1>1, <2>1, <2>2, <2>3, <2>4, <2>5, <2>6, <2>7, <2>8 DEF Proceed
<1>2. ASSUME NEW p \in Procs, Call(p) PROVE UNCHANGED Store!storeVars
  BY <1>2, CallStep
<1>3. ASSUME NEW p \in Procs, PrematureReturn(p) PROVE UNCHANGED Store!storeVars
  BY <1>3, WaitStep
<1>4. CASE Interrupt BY <1>4, IodoneStep DEF Interrupt
<1>5. CASE Finished \/ UNCHANGED vars
  <2>1. UNCHANGED <<flags, io, bno, data, disk, bp, pc, req>>
    BY <1>5 DEF Finished, vars, bufVars, procVars
  <2> QED BY <2>1, QuietStep
<1> QED BY <1>1, <1>2, <1>3, <1>4, <1>5 DEF Next

\* The cache begins as the disk, and nobody has a block.
LEMMA StoreFirst == Init => Store!StoreInit
<1> SUFFICES ASSUME Init PROVE Store!StoreInit
  OBVIOUS
<1>1. CInv BY InitData
<1>2. \A x \in Blocks : Hit(x) = {} BY DEF Init, Hit
<1>3. \A x \in Blocks : BlockValue(x) \in Values BY <1>2 DEF BlockValue, Init
<1>4. \A x \in Blocks, p \in Procs : ~Owns(p, x) BY DEF Init, Owns
<1>5. \A p \in Procs : CopyOf(p) = NoValue BY DEF Init, CopyOf
<1>6. \A x \in Blocks : OwnerOf(x) = NoProc BY <1>4 DEF OwnerOf
<1>7. /\ [x \in Blocks |-> BlockValue(x)] \in [Blocks -> Values]
      /\ [x \in Blocks |-> OwnerOf(x)] = [x \in Blocks |-> NoProc]
      /\ [p \in Procs |-> CopyOf(p)] = [p \in Procs |-> NoValue]
  BY <1>3, <1>5, <1>6
<1> HIDE DEF Init
<1> QED BY <1>7 DEF Store!StoreInit, OwnerOf, CopyOf

\* Every block behaves as one variable that one process uses at a time:
\* bread shows what was last stored in it, whichever buffer held it then, and
\* what leaves the cache, ahead of time or late, is not lost.
THEOREM StoreImplemented ==
  ASSUME Healthy, NoClose
  PROVE  Spec => ImplementsBlockStore
<1>1. CInv /\ CInv' /\ [Next]_vars => [Store!StoreNext]_(Store!storeVars)
  BY StoreSteps
<1> QED BY <1>1, StoreFirst, DataSound, PTL DEF Spec, ImplementsBlockStore, Store!StoreSpec
=============================================================================
