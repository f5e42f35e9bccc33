----------------------------- MODULE BlockStore -----------------------------
(***************************************************************************)
(* What the block buffer cache (v10/sys/io/bio.c) promises its callers:    *)
(* between bread or getblk and the release of the buffer a process has     *)
(* the block to itself, bread shows it the last value anyone stored in     *)
(* the block, and nothing but a store changes that value.  Buffers, the    *)
(* free list, the disk and its interrupts do not appear here.              *)
(***************************************************************************)
CONSTANTS Procs, Blocks, Values,
          NoProc,       \* "nobody owns the block"
          NoValue       \* "the process has read no block"

VARIABLES value,        \* the value of each block
          owner,        \* the process that has the block, or NoProc
          copy          \* the value bread showed to each process, or NoValue

storeVars == <<value, owner, copy>>

StoreTypeOK ==
  /\ value \in [Blocks -> Values]
  /\ owner \in [Blocks -> Procs \cup {NoProc}]
  /\ copy  \in [Procs -> Values \cup {NoValue}]

StoreInit ==
  /\ value \in [Blocks -> Values]
  /\ owner = [b \in Blocks |-> NoProc]
  /\ copy = [p \in Procs |-> NoValue]

\* bread: the owner sees the block's value.
ReadBlock(p, b) ==
  /\ owner[b] = NoProc
  /\ owner' = [owner EXCEPT ![b] = p]
  /\ copy' = [copy EXCEPT ![p] = value[b]]
  /\ UNCHANGED value

\* getblk, by a caller that overwrites the whole block.
TakeBlock(p, b) ==
  /\ owner[b] = NoProc
  /\ owner' = [owner EXCEPT ![b] = p]
  /\ UNCHANGED <<value, copy>>

\* The owner stores a new value.
Store(p, b) ==
  /\ owner[b] = p
  /\ \E v \in Values : value' = [value EXCEPT ![b] = v]
  /\ copy' = [copy EXCEPT ![p] = NoValue]
  /\ UNCHANGED owner

\* brelse, bwrite, bawrite or bdwrite: the owner lets go.
LetGo(p, b) ==
  /\ owner[b] = p
  /\ owner' = [owner EXCEPT ![b] = NoProc]
  /\ copy' = [copy EXCEPT ![p] = NoValue]
  /\ UNCHANGED value

StoreNext ==
  \E p \in Procs, b \in Blocks :
     ReadBlock(p, b) \/ TakeBlock(p, b) \/ Store(p, b) \/ LetGo(p, b)

StoreSpec == StoreInit /\ [][StoreNext]_storeVars
=============================================================================
