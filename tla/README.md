# The Tenth Edition kernel in TLA+

The repository is a snapshot of Research Unix, Tenth Edition, as it stood in
the Computing Science Research Center in 1995.  Most of its 20,000 files are
user programs, manuals and fonts; the program with shared state, interrupts and
sleeping processes is the kernel, `src/v10/sys` (about 60,000 lines of C for the
VAX).  The other concurrent program in it is `mux`, the window system of the
Teletype 5620 terminal in `src/jerq`, whose two halves talk over a serial line.
This project specifies parts of the kernel, and the protocol and flow control of
`mux`, in TLA+, checks them with TLC and proves central invariants with TLAPS.

Contents: [the system](#the-system) · [modules](#the-modules) ·
[runs](#the-runs) · [proofs](#the-proofs) · [what the runs found](#what-the-runs-found) ·
[not modelled](#not-modelled) · [plan](#plan)

To check: `tlc -workers 2 -config MC_BufCache_cache.cfg MC_BufCache` and so on
for each run of `PROJECT.json`; `tlapm BufCacheProofs.tla`, and likewise
`ProcProofs`, `PacketProofs`, `MuxProofs`, `InodeLemmas`, `InodeStepProofs`,
`InodePathProofs` and `InodeProofs`, for the proofs (`PacketProofs` takes some seven
minutes, each of the last four up to a quarter of an hour).

## The system

### How the kernel runs

One processor.  A process in the kernel keeps it until it calls `sleep`, stops,
or leaves; there is no preemption.  Interrupts come at any point where the
priority level allows it (`spl0` … `spl6`) and run to completion: they call
`iodone`, `wakeup`, `setrun`, `psignal`, `selwakeup`, never `sleep`.  So every
hard question is of two kinds:

* what another process may have done while this one was in `sleep`;
* what an interrupt may do between a look at some state at `spl0` and the test
  or sleep at `spl6` that relies on it.

All models of the kernel here have the same step: *what one process does between two points at
which it may sleep or at which an interrupt can matter*.  An operator `Running(p)`
holds the CPU for a process that is in a window between the two, so that other
processes cannot run there, and interrupts can (in `InodeCache` and `Streams`,
where no interrupt matters inside such a window, the window is one step).

### Inventory

Each part with its state, its operations, those it interacts with, what is hard,
and what makes it correct.  `PROJECT.json` lists the same parts with their files
and status.

| Part | State | Operations | Interacts with | Hard | Correct if |
|---|---|---|---|---|---|
| Block buffers `io/bio.c` | buffer headers (`b_flags`, `b_dev`, `b_blkno`), hash chains, free lists | `getblk bread breada bwrite bawrite bdwrite brelse bflush binval iowait iodone` | drivers by `d_strategy` and the interrupt's `iodone`; file system above; `sleep`/`wakeup` | search, sleep, search again; errors in flight; asynchronous release by an interrupt | one buffer per block, one master per buffer, clean = disk, no lost wakeup, operations end |
| Mount and whole-block I/O `fs/fs.c`, `fs/alloc.c`, `os/fio.c` | `i_bufp` of the mounted root, the super block's buffer | `fson fsoff fsread fswrite update closei` | buffers | a buffer locked in core over arbitrary histories; failure half-way | the pinned buffer is still the super block's at unmount |
| Processes `os/slp.c`, `os/sys1.c` | process table, sleep queues | `sleep tsleep wakeup setrun newproc exit wait1` | everything | stop and continue of sleepers; exit against wait | no parent misses a child, orphans go to init, sleeps end |
| Signals `os/sig.c`, `os/sys4.c`, `os/trap.c` | `p_sig`, `p_cursig`, `p_siga0/1`, `u_signal` | `gsignal psignal issig stop psig ssig kill` | sleepers, parents | `psignal`'s table of cases from any interrupt; two copies of each action | stops only end by SIGCONT or SIGKILL, a taken signal is delivered, held ones wait |
| Clock `os/clock.c` | `p_tsleep`, callout list | `softclock timeout` | `tsleep`, drivers | timeouts racing the event | a timed sleep ends, and says truly why |
| Select `os/sys2.c`, `os/streamio.c` | `rsel`, `RSEL`, `nselcoll`, `SSEL` | `select selwakeup stselect` | streams, clock, signals | data between the scan and the sleep; collisions | nobody sleeps for data that are there |
| Inode cache `os/iget.c`, inodes in `fs/fs.c`, `fs/alloc.c` | inode table, hash, `i_count`, `ILOCK`, `IWANT`; free inode numbers, `s_ilock` | `iget iput idec plock prele`; `fsiread fsiupdat fsput`, `ialloc ifree`, `update`, `fson fsoff` | names, text, mounts | found locked, then reused; counts dropped across sleeps; failing reads | one slot per file, count = references, a named file has its inode |
| Free blocks of a file system `fs/alloc.c` | super block, `s_flock`, `s_fmod` | `alloc free update` | buffers, inodes | sleeping `getblk` in the middle; crash order | no block free and in use |
| Names `os/nami.c`, `fs/fsnami.c` | locked inodes, mount table | `namei` and per-type `t_nami`, with `mkname`, `rmname` | inode cache | lock order, `..` across a mount | result locked, everything else released; inode on disk before its name |
| Shared text `os/text.c`, `vm/vmswap.c`, `vm/vmpage.c` | text table, `XLOCK`, `XWANT`, `x_count`, `x_ccount`, `x_poip` | `xalloc xfree xccdec xuntext xrele xumount`, swapper, pageout | inodes, swap space, exec, exit, fork | sleeping for a lock of an entry that is freed; five kinds of process at one entry | counts equal users, a running text is not written |
| Resource maps `os/rmap.c` | sorted list of free segments | `rmalloc rmfree rmget` | swap, page tables | merging, fragmentation limit | disjoint segments, nothing lost |
| Streams `io/stream.c`, `os/streamio.c`, `io/spipe.c`, `io/connld.c`, `io/mesg.c` | queues, flow-control flags, scheduling list, stream heads | `putq getq putbq flushq qenable queuerun`, `qattach qdetach`, `stread stwrite stioctl stselect stclose` | drivers, disciplines, processes | back pressure through two flags, modules pushed and popped under data, hangup behind data | no character lost or reordered, no sleeper forgotten, all gets through |
| Line disciplines `io/bufld.c`, `io/ttyld.c` … | buffers of characters, timers | put and service procedures | streams | characters held back until a timer | none stays behind |
| Datakit, URP `io/dkp.c` | window, sequence numbers, timers | put/service, timers | streams, lossy channels | loss, retransmission, resync | in-order, exactly-once delivery |
| Internet `inet/` | control blocks, reassembly, TCP states | input/output/timers | streams, drivers | 4.2BSD's TCP | RFC state machine |
| Network file systems `fs/neta.c`, `fs/netb.c` | request tags | RPC over a stream | inode cache, servers | server death | answers meet requests |
| `/proc`, pipes `fs/proca.c`, `fs/pipe.c` | inodes, traced processes | — | processes | tracer exits | — |
| Virtual memory `vm/` | core map, page tables, swap maps | `pagein pageout memall memfree swapin` | everything | page-in against page-out of one frame | a frame has one owner |
| Packet protocol of the terminal `src/jerq/src/mux/proto` | send and receive windows, sequence numbers, timers | `psend precv ptimeout` | a serial line that loses and garbles | late acknowledgments, retransmission | in order, exactly once |
| Output of a layer `src/jerq/src/mux/mux.c`, `mux/term` | which layers are read, the layer's buffer, promised `C_UNBLK`s | `sendchars receive creceive unblock`; `recvchars getchar muxublk` | packet protocol, the layer's program | a permission given once, as an acknowledgement or as a packet | nothing is read that cannot be sent; a layer is read again |
| Drivers `io/ra.c` … | device registers | `strategy`, interrupt | buffers | hardware | — |
| Machine-dependent `md/ ml/ boot/ mkconf/` | — | — | — | assembler | — |

Outside the kernel: `cmd`, `lib*`, `netfs`, `ipc`, `games` (user programs),
the rest of `src/jerq` (terminal software), `docs`, `r70`.

`PROJECT.json` "hazards" names, line by line, what in these parts is hard to
test; the properties below were written from that list.

## The modules

| Module | Models | Lines it is about |
|---|---|---|
| `BlockStore` | abstract: what the buffer cache promises | the comments and callers of `bio.c` |
| `BufCache` | `bio.c` with its callers `fsread`, `fswrite`, `fson`, `fsoff`, `closei`, `update` | `io/bio.c`, `fs/fs.c`, `fs/alloc.c`, `os/fio.c` |
| `BufCacheProofs` | theorems about `BufCache`: who has which buffer, what the buffers contain, and that it refines `BlockStore` | |
| `Proc` | processes, sleeping, signals, select, exit and wait | `os/slp.c`, `sig.c`, `sys1.c`, `sys2.c`, `sys4.c`, `clock.c`, `trap.c`; the sleeps of `io/streamio.c`'s and `connld.c`'s callers |
| `ProcProofs` | theorems about `Proc` | |
| `InodeCache` | the inode table, path names, creat and unlink, sync, mount and unmount | `os/iget.c`, `fs/fsnami.c`, `fs/fs.c`, `fs/alloc.c`, `os/sys2.c`, `sys4.c`, `fio.c`, `mount.c` |
| `TextTable` | extends `InodeCache` with shared text, exec, exit, fork, the swapper, the pageout daemon | `os/text.c`, `os/sys1.c`, `vm/vmswap.c`, `vmpage.c`, `vmsched.c`, `vmproc.c` |
| `InodeLemmas` | the invariant of `InodeCache`, and what keeps it | |
| `InodeStepProofs`, `InodePathProofs` | that the steps of `InodeCache` keep it: files and `iget`; path names and mounting | |
| `InodeProofs` | the same for unmounting and the initial states; the theorems about `InodeCache` | |
| `Streams` | a pipe: two stream heads, queues with flow control, the line discipline `bufld` | `io/stream.c`, `os/streamio.c`, `io/bufld.c`, `fs/pipe.c`, `os/sys2.c` |
| `PacketChannel` | abstract: what the packet protocol promises | the callers of `psend`, the receiver's function |
| `PacketProto` | the packet protocol at both ends of a bad line | `psend.c`, `precv.c`, `ptimeout.c`, `pinit.c` in `jerq/src/mux/proto` |
| `PacketProofs` | theorems about `PacketProto`: types and counters; what the channel promises | |
| `MuxLayer` | extends `PacketProto` with the two programs above it and the flow control of one layer | `mux/mux.c`, `mux/term/demux.c`, `boot.c`, `control.c` |
| `MuxProofs` | theorems about `MuxLayer` | |
| `MC_BufCache`, `MC_Proc`, `MC_Inode`, `MC_Streams`, `MC_Packet`, `MC_Mux` | instances for TLC | |

How they hang together: `TextTable` and `InodeCache` are checked as one system,
since a text holds a reference to its inode and gives it up under rules of its own;
`MuxLayer` is checked on top of the whole of `PacketProto`, whose own promise
(`PacketChannel`) is a separate run; `BufCache` is what `InodeCache` abstracts to
"a disk transfer, in which the process sleeps"; `Proc` is what all of them
abstract to "awake" and "asleep on a channel".

No module uses a RECURSIVE operator, so theorems can be stated about all of
them.  Mutated forms of some definitions (`Reassign_NoSearch` and the like, each
marked "Mutant" in its comment) stand next to the definitions they deform: each
is a plausible slip in that piece of C, and each breaks a property of a run.

### BufCache

State: one function per header field (`flags` for `b_flags`, `bno` for
`b_dev`+`b_blkno`, `avail` for the free list, `data`), the driver's queue as
`io` (a set of requests that complete in any order, as `ra.c` does), the `disk`,
`super` for the root inode's `i_bufp`, and for each process its place `pc`, its
request, `want` and `cand` (what `getblk` looks for and has found), `bp`, and
`chan` (`p_wchan`).

| Action | Code |
|---|---|
| `Begin` | the caller decides on `bread`, `breada`, `getblk` or `geteblk` |
| `Walk`, `WaitBusy`, `TakeFound` | `getblk`: hash chain at `spl0`, then `B_BUSY` at `spl6` |
| `WaitFree`, `WriteVictim`, `Reassign` | `getblk`: no buffer; a delayed write; a clean victim |
| `Ahead`, `AfterAhead` | `breada`'s second block |
| `SleepIo`, `ReadDone`, `WriteDone` | `iowait` and what follows |
| `Fill`, `Fault`, `Release` | `fswrite`'s `iomove` (which may page-fault and fail), `fsread`'s `brelse` |
| `Bwrite`, `Bawrite`, `Bdwrite` | the three writes |
| `Sync`, `Close` | `update`'s `bflush`; the last `closei`: `bflush`, then `binval` |
| `Pin`, `Mounted`, `MountFailed`, `BeginUmount`, `Unpin` | `fson`, `fsoff` |
| `Iodone` | the interrupt, with or without an error |
| `PrematureReturn` | a left-over `p_tsleep` ends a sleep that is not its own (`softclock` calls `setrun`) |

Abstractions: the free lists are sets ("locked", "reusable"), so `getblk` may
take any reusable buffer and the results hold for any replacement order; block
contents are a few values; one device; `B_AGE`, tapes, byte counts and
statistics do not appear.  A jump through `bdevsw[major(NODEV)]` and the three
panics stop the model in a state with `panic` set.

### Proc

State: `proc`, a table of records with `p_stat`, `p_wchan`, `p_sig`, `p_cursig`,
the two action bits of each signal (`siga`), `p_tsleep`, `STIMO`, `SSEL`,
`SWTED`, `p_pptr` and the exit code; `usig` for `u_signal`; `pc`, `call` and the
locals of `wait1`; `ready`, `rsel`, `coll` for the streams and `stale` (the
processes whose `ncoll` is out of date).  `timer` is history: whether
the time of a process's *last* `tsleep` runs or has run out.

Operators on a table entry (`Setrun`, `Wakeup`, `Posted`, `Stopped`, `Look`)
are the functions of the same name; `Posted` is `psignal`'s switch as a table of
named cases (`Interrupted`, `DefaultStop`, `KilledInstead`, …), `Look` is
`issig`'s loop up to its next `swtch`.  Actions: `Call`, `Await`/`Take` (the
loops of `stread`, `stioctl`, a driver's uninterruptible wait, `conn_open`),
`Sleep`/`Awake` with `Interrupt`, `SelScan`/`SelSleep`/`SelOver`, `WaitLook`
(one slot)/`WaitSleep`/`WaitNoChild`, `Fork`/`ForkEnd`, `Exit`, `ExitZomb`,
`ExitChild` (one slot), `ExitDone`, `Ssig`, `Kill`, `Trap`, `Ret`, and the
interrupts `Data` (`strput`), `TtySignal` (`gsignal`) and `Second`
(`softclock`).

Abstractions: the signals that occur are HUP (dies), KILL, STOP, TSTP (stands
for TTIN and TTOU), CONT and CHLD; `sleep` is interruptible or not;
scheduling among runnable processes is arbitrary; any process may be signalled;
no tracing.  `kill` is never sent to init, and init does nothing but wait.

### InodeCache and TextTable

State: `node`, the inode table (a record per slot with number, `i_count`,
`ILOCK`, `IWANT`, `ITEXT`, mode, link count, "changed", what is mounted there and
where it is mounted), `freel` (`ifreel`), `fs` (the disk's inodes, one directory,
the list of free inode numbers with `s_ilock`, `updlock`, the mount table), and
`u`: what each process has in hand.  `u[p].pc` is a stack of routines, so that
`iput`, which may sleep while it writes or frees an inode, returns to whoever
called it: `iput(k, p, s, rest)` continues with `rest`.  `TextTable` adds `text`,
the text table, and `pt`, a process's part in it (`p_textp`, on `x_caddr`'s list or
not, `SLOAD`, `SKEEP`).

A step is the code between two places where a process may sleep: a lock that is
taken, a disk transfer, a wait for pageouts.  Functions of the C code that run
inside a step are operators on a record `K` of the whole state (`Iput`, `Prele`,
`Iget`, `Xuntext`); `AtOnce` lists the routines that follow without a sleep, and
while a process is at one of them no other runs.

| Action | Code |
|---|---|
| `Namei`, `Dir`, `More`, `Got`, `PlockDirAgain` | `fsnami`: a walk of `/mp`, `/mp/<name>`, `/mp/sub/<name>`, `/mp/..`, locks taken and given up on the way |
| `IgetAgain`, `Fsiread` | `iget`'s sleep for a locked inode and new search; the read of a new one, which may fail |
| `Fstrunc`, `Fsiupdat` | `idec` of the last reference: the file freed, the inode written |
| `Open1`, `Trunc`, `Close`, `CloseLater`, `PutLast` | `open`, `creat`, `closef` |
| `Ialloc`, `Ialloc2`, `Restock`, `Domkfile`, `Mkinode`, `Mkname` | a new file: `ialloc` with its list of free numbers, `dupinod`, the scan of the i-list; inode before name |
| `Dormfile`, `Rmname`, `Putdir` | `unlink` |
| `Sync`, `Update0`, `Update`, `Upput` | `update`'s walk over all inodes |
| `Fson`…, `Funmount`, `Fsoff`, `UnhangLater`, `Iputrip`, `Fsoffend` | `mount`, `unmount` |
| `Getxfile`, `XallocFirst`, `Xwait`, `Xload`, `Xscan0`, `Xscan`, `XlockAgain`, `Xaccess` | `exec`'s search for writers, `xalloc`; `xrele`, `xumount`, `xuntext` |
| `Exit`, `Xfree`, `Xpoip`, `Xdone`, `Xswapped`, `Fork` | leaving and sharing a text |
| `Swapout`, `SwapoutText`, `Swapin`, `SwapinAgain`, `Swapin2` | the swapper |
| `Pageout`, `Cleanup` | the pageout daemon starts and ends a push of a text's page |

`run` is the scenario: what each process does over and over, whether the file
system is mounted at the start, which transfers may fail (`fails`), whether the
pageout daemon runs.  Inode numbers are names; one mounted file system with a root
and one subdirectory; file contents are not there.

### Streams

State: `q` (flags and blocks of each queue), `next` (`q->next`), `qrun` (the list
`qhead`), `head` (`struct stdata`: `HUNGUP`, `RSLEEP`, `WSLEEP`, `IOCWAIT`, `WSEL`,
`iocblk`, `wsel`, `count`), `buf` (bufld's `rnchar`, `btime`, its bit in `bufldact`)
and `u`, what a process has in hand.  Queues are named `<<"R", n>>` and `<<"W", n>>`
for the heads `A` and `B`, the module `m`, and the black holes `xA` and `xB` that
`stclose` leaves before a closed end.  `sent` and `got` are history.

Put procedures run through as many queues as they reach without a sleep, at
`spl6` or unharmed by interrupts, so `Put` is an operator on the whole state; it
goes from queue to queue without recursion because a path has at most one module
that holds blocks back, and only an answer to an ioctl turns round.
`queuerun` is a software interrupt: it comes as soon as the priority drops, before
the process that enabled a queue goes on; so `Become`, which ends every action,
runs the enabled queues to the end.

| Action | Code |
|---|---|
| `Write`, `WriteAgain`, `WritePut` | `stwrite`: the test of `QFULL`, the block that is put after `iomove` |
| `Read`, `ReadAgain`, `ReadMove` | `stread`: `getq` or sleep; `iomove`, and `putbq` of what is left |
| `Select`, `SelectAgain` | `stselect` for writing |
| `Ioctl`, `IoctlAgain` | `stioctl`: wait for one's turn, send, wait for the answer |
| `Flush`, `Push`, `Pop` | `TIOCFLUSH`, `FIOPUSHLD`, `FIOPOPLD` with `qattach` and `qdetach` |
| `Close`, `Drain` | the last close: a minute for output to drain, hangup, black hole |
| `Interrupt` | `tsleep` ends by a signal, or in an ioctl by its time |
| `Buftimo` | the clock's `buftimo` |

Abstractions: characters are numbers, a data block holds two, and a queue is full
with two such blocks; `bufld` waits for two characters and one tick (three and
more ticks differ only in how long they take).  Blocks that `putq` would append to
the last one are whole blocks here.

### PacketChannel and PacketProto

State of each end: `pconvs`, a record per channel as in `proto.h` (the two packet
buffers with state, timer and sequence number, `nextpkt`, `freepkts`, `rseq`,
`xseq`, the control data returned for each sequence number); `line`, the frames
under way; `precvpkt`, whether the receiver is inside a packet, with its timer;
`Ptflag`.  Both ends run the same code, as they do in the repository.

| Action | Code |
|---|---|
| `psend`, `psendFull` | `psend` |
| `Accept`, `Refuse`, `OutOfOrder` | `precv`, `Retry`, `Reply`: the receiver's function takes the packet, is busy, or it is not the one expected |
| `Acked`, `Naked` | `Control` |
| `Swallow` | `precv` inside a packet that was cut short: the next bytes complete it wrongly |
| `ptimeout` | `ptimeout`: one scan of all timers |
| `Lose`, `Truncate` | the line |
| `Calm` | the line gets better (for liveness) |

The check sum is taken to find all damage, so a damaged frame is a lost one; a
truncated frame is not, since it leaves the receiver in the middle of a packet.

### MuxLayer

Adds to the state `enabled` (mux reads the layer), `nchars` (in the layer's buffer),
`user` (how many `C_UNBLK` are still promised) and `at` (where the layer's program
is).  `sendchars`, `receive`, `creceive` are the host's, `recvchars`, `getchar`,
`muxublk`, `Psend` the terminal's; each is an action of `PacketProto` with what the
program does on top of it.

## The runs

Twelve runs: ten pass, two show a place where the code does not do what it says.

| Run | Instance | Checks |
|---|---|---|
| `bufcache_cache` | 2 processes, 3 buffers, 2 blocks, 2 values, 3 operations of all kinds but close | `TypeOK`, `OneBufferPerBlock`, `Exclusive`, `CleanMatchesDisk`, refinement `ImplementsBlockStore` |
| `bufcache_errors` | the same with disk errors and faults, 3 operations | `SyncWriteDurable` |
| `bufcache_live` | 2 processes, 3 buffers, 1 block, 5 operations among updates, `geteblk`, closes, mounts, unmounts; fairness | `NoLostWakeup`, `NoPanic`, `OperationsEnd` |
| `proc_signals` | init and 2 processes, one stream `ioctl` (a timed, interruptible sleep), 2 kills among KILL, TSTP, CONT, HUP, one signal set to be caught or held, one fork | `TypeOK` (with no panic), `StopsDontKill`, `TimedSleepEnds`, `StoppedUntilContinued`, `TakenSignalKept`, `HeldKept` |
| `proc_select` | 3 calls among select, an open through `connld`, a stream `ioctl`; one hangup from the terminal; one fork | `NoLostEvent` |
| `proc_live` | one call of wait or of a driver's uninterruptible wait; 2 kills among KILL, STOP, CONT; one fork; fairness | `WaitsForSomething`, `ParentLives`, `KilledDies`, `OrphansReaped` |
| `packet_channel` | one channel, 6 packets from host to terminal, a line that loses and truncates, 3 frames in flight; fairness | `FreeExact`, refinement `IsChannel` (with its liveness) |
| `mux_layer` | one layer, 3 packets of two sizes, a line that loses; fairness | `MuxTypeOK`, `TextIsSent`, `ResumesOnCleanLine` |
| `mux_unblk` | 2 packets | violated: `IdleLayerIsRead` |
| `inode_text` | 3 processes and the swapper, 4 inodes, 2 texts, 2 files, 15 scenarios | `TextTypeOK` (with no panic), `OneSlotPerInode`, `CountsExact`, `LocksHaveOneOwner`, `NoInodeSleeperForgotten`, `SomeoneMoves`, `NamedFilesLive`, `UnmountedIsGone`, `UseKeepsInode`, `RunningTextIsNotWritten` |
| `text_unmount` | exec, exit and unmount | violated: `NoTextSleeperForgotten` |
| `streams_flow` | 3 processes at the ends of a pipe, 6 characters, 15 scenarios, mostly with `bufld`; fairness | `StreamTypeOK` (with no panic), `PathInOrder`, `NoStreamSleeperForgotten`, `HangupArrives`, `FlowGoesOn` |

What the properties say, by kind:

* *Refinements.*  `ImplementsBlockStore`: seen through `bread`, every block is one
  variable that one process has at a time and that only a store changes; buffers,
  delayed writes, evictions and read-ahead cannot be told from outside.
  `IsChannel`: whatever the line loses, packets come out once each and in order, a
  buffer is free only after its packet was delivered, and once the line is good
  everything is delivered and every buffer comes back.
* *Data.*  `CleanMatchesDisk`, `SyncWriteDurable`: a buffer may be dropped if it is
  not `B_DELWRI`, and `bwrite` without an error means written.  `PathInOrder`: what
  has been read and what is on its way is what was written, in order.
  `NamedFilesLive`: a file with a name has its inode on the disk, and no other name
  has it.  `TextIsSent`: mux reads a layer only when it can send what it reads.
* *Sleepers.*  `NoLostWakeup`, `NoLostEvent`, `WaitsForSomething`,
  `NoInodeSleeperForgotten`, `NoTextSleeperForgotten`, `SomeoneMoves`,
  `NoStreamSleeperForgotten`: no sleep whose event has gone by, and none whose event
  nobody is left to announce: each names the chain of flags that will bring the
  wakeup.
* *Books.*  `OneBufferPerBlock`, `Exclusive`, `OneSlotPerInode`, `CountsExact`,
  `LocksHaveOneOwner`, `FreeExact`, `ParentLives`: tables, counts and locks agree
  with who uses what, over any interleaving.
* *Promises between parts.*  `UseKeepsInode`, `RunningTextIsNotWritten`,
  `UnmountedIsGone`, `HangupArrives`.
* *Signals.*  `TakenSignalKept`, `HeldKept`, `StoppedUntilContinued`,
  `StopsDontKill`, `TimedSleepEnds`: a signal is neither lost nor invented between
  `psignal`, `issig` and `psig`.
* *Something good happens.*  `OperationsEnd`, `KilledDies`, `OrphansReaped`,
  `ResumesOnCleanLine`, `FlowGoesOn`, and the fairness part of `IsChannel`.

### Bounds, and why they are enough

*Buffers and processes.*  Two processes give every pair of operations; a third
buffer lets one be pinned by a mount, or held by `breada` while it wants another,
while a second process still finds one.  The number of buffers is a real limit
of the code: `breada` holds one buffer while it waits for a second, so two readers
with two buffers and three blocks wait for each other.  `bufcache_live` leaves
read-ahead out; with `Ops = {"readahead"}`, `Bufs = {b1, b2}`,
`Blocks = {sb, x, y}` and `MaxOps = 2` it shows `OperationsEnd` violated, and with a
third buffer satisfied.  The kernel has dozens; the claim is for more buffers than
are held at once.  The run has one block, the super block, so that every two
operations want the same buffer or a free one, and five operations, so that a device
can be mounted, unmounted, closed, and used again; what an operation on one block may
do to another is in the other two runs and in the proofs, for any number.

*Operations* are bounded by `MaxOps`, `MaxCalls`, `MaxKills`, `MaxTty`,
`MaxForks`, `MaxSets`; every pair, and in most runs every triple, of operations
meets.  `MaxSecs` is 1: a timed sleep has "time left" and "time over"; that more
seconds change nothing but the number of `Second`s is visible in `Tick`.
The clock itself is not bounded.

*Inodes.*  Calls are not bounded: processes repeat them for ever, and the state
space is finite.  Four slots hold the mount point, the root and two files, so that
a slot is reused and, with `sub`, the table runs full; `NICINOD = 1` makes the list
of free numbers empty after every use, so that restocking and the race for its last
number happen.  Two names and two numbers let a freed number go to another name;
two texts let the table run full.  The fifteen scenarios put together every two
operations that meet at one inode or one text, and those three that sync or the
swapper makes of them.

*Streams.*  Six characters at each end make three full blocks, one more than a
queue takes, so both queues of a path fill, block the writer and drain.  Reads of
one character leave part of a block for `putbq`, reads of four join blocks;
writes of one character stay in `bufld`, writes of three are two blocks.
`MaxIoctls` bounds requests abandoned in the module.  A scenario has at most
three processes, in pairs that contend at one end or across.

*Packets.*  With a window of two and sequence numbers modulo four, six packets go
once round the numbers and one window further, so a frame can meet the next
packet of its own number; three frames in flight are a window and an
acknowledgement.  One channel: channels share only the line and the alarm, and
`ptimeout`'s scan over several is in the model (`NChannels`).  `mux_layer` has two
frames in flight and three packets: one that blocks, one that is to follow, one that
may be read early.

*Waiting for ever.*  TLC's deadlock check is on in `bufcache_cache` and
`bufcache_live`, where a behaviour that has used its bounds may only stutter when
every process is idle and the disk quiet (`Finished`).  It says little there: a
sleep may end early (`PrematureReturn`), so a process that waits for ever goes
round in a loop and is no deadlock.  The property that catches it is
`OperationsEnd`, under fairness.  The check is off in `bufcache_errors`, where the
kernel may have panicked; in the runs of `Proc`, where every process may
rightly be asleep or stopped when the bounds are used up; in those of the packet
protocol and of `Streams`, which end when everything has been sent and read and all
ends are closed; and in those of `TextTable`, whose violation run stops.  There the
properties about sleepers, `SomeoneMoves`, `FlowGoesOn`, `ResumesOnCleanLine` and
`IsChannel` say what deadlock freedom would.

*What passing runs leave out because of the findings*: `proc_signals` has no
`select` and no `accept`, `proc_select` no stop signals, `bufcache_cache` no close
and no errors; in `proc_live` stops come from `kill` by another process, not from a
terminal during `wait1`.  `inode_text` has no `..` beside an unmount, no unlink
beside a failing read or directory write, no unmount of a text while it is left, no
creat beside the swapper and an exec.  `streams_flow` pushes no module while someone else
writes, interrupts ioctls at an end with one process only, has one reader per end
and no close beside a select.  [What the runs found](#what-the-runs-found) says
what each of these would show.

### Fairness

`BufCache`: weak fairness of the disk (`Iodone` of every queued transfer; `ra.c`
and `hp.c` time out and report an error rather than stay silent), and strong
fairness of each process's own steps.  A process that is awake stays on the run
queue until it runs, and `swtch` takes the best priority, which ages; strong
rather than weak only because the model withdraws the CPU while another process
is between `spl0` and `spl6`.  Beginning an operation is never fair.

`Proc`: weak fairness of each process's steps in the kernel (`Step`), of the
clock for each process, of data on each stream (whoever waits uninterruptibly
waits for a device that answers: without it even SIGKILL could wait for ever,
as it may in the kernel), and of init's next `wait`.  What a program asks for
(`User`) is not fair.

`PacketProto`: weak fairness of each receiver, of `ptimeout` at each end (the alarm
is set again by every scan that leaves something to wait for), and of `Calm`: the
line loses frames and receivers refuse for a while, not for ever.
`MuxLayer`: weak fairness of both receivers and of the layer's program, which reads
on.

`Streams`: no process that is awake in the kernel waits for ever for the
processor, and the clock goes on; a process that does nothing but read reads again.
`StreamFairness` says so directly (`CanGo`, `CanTick`: the condition under which
something runs is false again and again, or its state changes again and again)
rather than by `WF`, since the enabling condition of the actions is what the
condition says, and TLC would compute it from whole puts and closes.

## The proofs

`BufCacheProofs` proves, for any sets of processes, buffers, blocks and values,
with or without errors, and any bound on operations:

| Theorem | States |
|---|---|
| `TypeCorrect` | `Spec => []TypeOK` |
| `NoAliases` | `Spec => []OneBufferPerBlock` |
| `MutualExclusion` | `Spec => []Exclusive` |
| `WakeupsNotLost` | `Spec => []NoLostWakeup` |
| `Invariance` | `Spec => []IInv`, from which the others follow |

Assumption: `ConstantsOK` only (the markers are not members of the sets they
stand beside).

*The inductive invariant.*  `OneBufferPerBlock` is not inductive: a step that
gives a name to a buffer must know that the buffer was free and that no process
is just about to use it under its old name.  `IInv` adds what the code relies on
but never says:

* `BuffersOK` — `B_BUSY` means off the free lists; `B_ASYNC` means the driver
  has it; a transfer in flight is never `B_DONE`.
* `OwnersOK` — a busy buffer that is not the driver's alone has exactly one
  process.
* `ProcessesOK` — where a process is says what it owns: only `breada` owns a
  buffer while it searches for another, and then the transfer is begun or done.
* `NoLostWakeup` — also needed, since the owner of the buffer slept on is what
  keeps it busy.

`Exclusive` follows from `BuffersOK` and `OwnersOK`.  The proof has one lemma
per action (`WalkInv` … `IodoneInv`), in it a step per conjunct the action can
disturb; `ClaimInv` serves all three ways a buffer is claimed.

Its second part goes on to the contents of the blocks:

| Theorem | States | Assuming |
|---|---|---|
| `DataSound` | `Spec => []CInv`, from which the others follow | |
| `NeverPanics` | `Spec => []NoPanic` | `~IOErrors` |
| `WritesReachTheDisk` | `Spec => []SyncWriteDurable` | `NoClose` |
| `CacheCoherent` | `Spec => []CleanMatchesDisk` | `NoClose`, `Healthy` |

`NoClose` (`"close"` is not in `Ops`) and `Healthy` (`~IOErrors /\ ~Faults`) restrict
the constants; every other choice of operations, processes, buffers and blocks is
covered.  Each is needed where it stands, and what it excludes is what the code does:
after an error `brelse` takes the buffer's name away, and a driver panics when it is
handed a buffer without one (finding 3); a close throws out buffers whose
writes are still queued, so that the block can be read again before it is written
(finding 4), or written again through a second buffer, and a driver free to do the
two in either order leaves the older contents on the disk; a fault in `fswrite`'s `iomove` releases a buffer that was changed and is not
marked for writing.  TLC finds each of the properties violated where its restriction
is dropped.  A synchronous write needs no disk without errors: one that ends
without `B_ERROR` is on the disk all the same.

*The inductive invariant*, `CInv`, is `IInv` and these, whose parts carry the
restrictions they need as hypotheses, so that one induction serves all four theorems:

* `RequestsOK` — where a process is in the kernel fits what it was asked for.
* `AssociationsOK` — the buffer a process found, or owns, is still its block's; after
  `bread` it has data; while its own write is under way nobody reads into it.
* `ContentsOK` — without closes a `B_INVAL` buffer has no name; without errors no buffer is
  `B_ERROR`, and a delayed write has data and a name.
* `SuperOK` — one process at a time mounts or unmounts, and the buffer that `fson` pinned
  stays named, locked and off the list `getblk` takes from.

TLC found `CInv` true on five instances (the cache run's, and four with every
operation, errors, faults and closes in turn) before it was proved.

Its third part proves the refinement:

| Theorem | States | Assuming |
|---|---|---|
| `StoreImplemented` | `Spec => ImplementsBlockStore` | `NoClose`, `Healthy` |

A block's value is in its buffer if that has data, and on the disk otherwise; `CInv` makes
that one value.  `ValuesAre` and `ValuesKept`, `OwnersAre` and `OwnersKept` say when a step
leaves the abstract variables alone.  A step that gives up a buffer keeps the block's
value because the buffer was clean (`CleanMatchesDisk`); the end of a transfer because
the disk takes the buffer's contents or the buffer the disk's.  `Takes`, `Reads`, `Stores`
and `LetsGo` are the four steps of `BlockStore`, and each action of the cache is one of
them or changes nothing there: `breada`'s second buffer, delayed and asynchronous writes,
`bflush` and interrupts are not seen.

`ProcProofs` proves about processes, for any set of processes, streams, signals,
system calls and settings of signals, and any bounds:

| Theorem | States |
|---|---|
| `TableSound` | `Spec => []IInv`, the invariant the others follow from |
| `TypeCorrect` | `Spec => []TypeOK`, with `NoPanic` |
| `NoEventLost` | `Spec => []NoLostEvent` |
| `NobodyIsOrphaned` | `Spec => []ParentLives` |
| `TimeRunsOut` | `Spec => []TimedSleepEnds` |
| `HeldSignalStays` | `Spec => HeldKept`, an action property |

Assumption: `Proc`'s `ConstantsOK` only (init and the first process are two, the
channels and markers differ from the processes and streams, nobody sets the action
of SIGKILL or SIGSTOP).

*The argument.*  An entry of the process table is changed by its own process, and by
everybody else through five functions only: `wakeup`, `setrun`, `psignal`, `stop`'s
message to the parent and `selwakeup`.  `Touch(r, x)` is what these may do to an entry,
however often and in whatever order: end a sleep or a stop, take a sleeper off its
channel, leave a stop signal in `p_cursig`, post signals and take away all but held
ones.  One lemma per function shows that it does no more; `TouchedTableOK` and
`TouchedRemembered` show that nothing of the invariant depends on more.  So each
action needs a proof only of what its own process does to its own entry (`OwnTable`),
and the interrupts need almost none.  The invariant:

* `ProcOK` — what the place of a process in the kernel says about its entry: only
  at a sleep or a stop is it anything but runnable; `p_siga0/1` agrees with `u_signal`
  until it exits; what stands in `p_cursig` is a signal to act on; a timed sleeper
  whose clock runs has time left.
* `OneCPU` — at most one process is in a window between two points where it might sleep.
* `ForkingIn`, `OrphansIn`, `ParentsIn` — an entry being filled has its parent in
  `newproc`, alone; a dying process still owns the children its loop has not come
  to; everybody else's parent lives.  `wait1` may free a zombie because, with one CPU,
  no other process is within `exit` then.
* `RememberedIn` — nobody's channel is a stream with data.  Whoever sleeps in select,
  or is about to with `SSEL` and `nselcoll` unchanged, is in the `rsel` of every stream, or
  the stream's `RSEL` says that somebody else is too.  A stream with `RSEL` has an `rsel`:
  this is why `selwakeup`'s test of `rsel` alone is enough.

`PacketProofs` proves, for any number of channels, any timeouts, control data and
numbers of packets:

| Theorem | States |
|---|---|
| `TypeCorrect` | `PacketSpec => []PacketTypeOK` |
| `FreeCounterExact` | `PacketSpec => []FreeExact` |

Assumption: `PacketConstantsOK` only (there is a channel, timeouts are positive, no
control data is 0).  `freepkts` is what `mux` trusts when it decides to read a
layer, and it is kept in two ways: `psend` counts afresh, `Control` adds what an
acknowledgement hit.  The two agree only if `Control` never counts a buffer twice
and never one that does not wait, with stale and repeated acknowledgements too.
That is `ScanFinds`: the scan steps to the other buffer after each match, so its
hits are distinct and all wait.  The invariant (`PacketTypeOK /\ FreeExact`) is
inductive as it stands; it is used as `ConvsGood`, a statement about one
conversation at a time.  `SentGood`, `ReleasedGood` and `TimersGood` show that what
`psend`, `Control` and `ptimeout` do to a conversation keeps it, and there is one
lemma per action (those that touch only the line share one).

Its second part proves, under the same assumption, that the protocol keeps its
promise on a line that loses, damages and repeats:

| Theorem | States |
|---|---|
| `SequenceNumbersSuffice` | `PacketSpec => []DirectionsOK`, the invariant the others follow from |
| `ExactlyOnceInOrder` | `PacketSpec => []DeliveredInOrder` |
| `ImplementsChannel` | `PacketSpec => Channel!ChannelSafety`: `PacketProto` refines `PacketChannel`, all but its liveness |

*The invariant.*  A frame carries its number modulo 4 only, and old frames and
acknowledgements stay about; the receiver must never take one for a later one.
`DirectionsOK` says for each conversation and each direction, with S for the
packets sent and R for those received, why that cannot happen:

* `SenderOK` — the unacknowledged packets are the last ones of 1..S, at most two;
  the buffers from `nextpkt` on hold them in this order, with their numbers;
  `xseq` is the number of the next.
* `Timers` — a timer runs for waiting buffers only, so only those are sent again.
* the receiver has got 1..R in order, `rseq` is R's number, and
  S - 2 <= S - unacknowledged <= R <= S.
* `DataOK` — a packet on the line is one of R-1..S, and S is at most R+2: the line
  keeps its order, so a frame is never more than one behind one that comes after it,
  and none was sent before its predecessor's predecessor was delivered.  Four
  consecutive packets are the only candidates, and their numbers modulo 4 tell
  them apart.
* `AcksOK` — likewise for acknowledgements, at most one behind what the sender knows.

`JoinedData`, `JoinedAcks`, `PacketTaken` and their like move these bounds when S or R
grows;
`AckHits` shows that an acknowledgement releases exactly the packets up to its
number, `WaitingIsNew` that what is sent again is still among the four.  For the
refinement, `CreditOf` (free buffers) is two minus the unacknowledged, and each
action maps to one step of the channel: `psend` to `Give`, the data the receiver
accepts to `Deliver`, an acknowledgement to as many `GiveBack` as it frees; what
the line or a timer does leaves the channel alone (`Quiet`).

`MuxProofs` proves about the layer on top, from `PacketConstantsOK` and
`MuxConstantsOK`:

| Theorem | States |
|---|---|
| `MuxTypeCorrect` | `MuxSpec => []MuxTypeOK` |
| `TextNeverLost` | `MuxSpec => []TextIsSent` |
| `MuxImplementsChannel` | `MuxSpec => Channel!ChannelSafety` |

`TextIsSent` (whatever `mux` reads from the program fits into a free packet, since
it reads only when `psend` will not refuse) needs that permission to read, `enabled`,
implies a free buffer.  Only the layer's own `psend` takes buffers and only
acknowledgements give them back, so the invariant is `DirectionsOK`
with `enabled => HasRoom`.

`InodeProofs`, with the three modules it extends, proves about the inode cache, for
any finite set of processes, any finite set of files, any number of slots, any names
and scenarios:

| Theorem | States | Assuming |
|---|---|---|
| `InodeInvariant` | `Spec => []InodeInv`, from which the others follow | `Separate` |
| `InodeOneSlot` | `Spec => []OneSlotPerInode` | `Separate` |
| `InodeSleepers` | `Spec => []NoInodeSleeperForgotten` | `Separate` |
| `InodeUnmounted` | `Spec => []UnmountedIsGone` | `Separate` |

Assumptions on the constants, named in `InodeCache` and evaluated by its runs:
`InodeAssumption` (the table has slots, file numbers are not directories); `ProcAssumption` and `FiniteAssumption` (the process table and a disk are
finite: references are counted, and `ialloc` takes the lowest free number);
`ScenarioAssumption` (a file system mounted at the start has two slots).
`Separate` is the hypothesis that no process takes `..` of a root while another one may
unmount.  The code needs it: on its way from a root to the directory above, a process
waits for that directory's lock before it has a reference to it, and an unmount
meanwhile frees the inode (finding 12: with the scenario `DotDot` of `MC_Inode`,
`OneSlotPerInode` fails).  The scenarios of the runs satisfy it.

`Spec` is `InodeCache`'s own specification: everything the kernel does to inodes but
shared text.  The runs check the properties of `TextSpec`, which adds the steps of
`TextTable`; there they are model-checked only.  The lemmas do not know the
difference: they speak of a kernel `k`, the record of all the variables, in which texts
have *some* references `X` to inodes, so that they hold for the steps of `InodeCache`
taken beside those of `TextTable` too.

*The inductive invariant.*  `OneSlotPerInode` says nothing of processes, and every step
that could break it is one of a process that has found out, before it slept, that it
may.  What it relies on is that nobody else can have taken the inode from under it,
hence on counts, and these on who has what in hand.  `Good` has three parts:

* `Core`, the books.  `HandOK`: the place of a process, the routine at the bottom
  of its stack and the one on top, tells which of `ip`, `dip`, `put`, `up`, `rip`, `mip`
  and the open file it has (and an `iget` was called for a number its caller may
  ask for).  `CountInv`: `i_count` is the number of these hands, plus what mounts and
  texts have.  `LockInv`: `ILOCK` is set exactly in the inodes some process has to
  unlock, and each has one such process.  `SleepInv`: who sleeps for an inode sleeps for
  a locked one with `IWANT` set.  `TableInv`: an inode number is in one slot, and
  the slots with none, those with count 0, are the free list, unlocked.
* `Mounts`: root and directory mounted on point at each other; one process at a
  time mounts or unmounts (`s_ilock` and the mount table say so only in part); a root
  that is not mounted is in that process's hands; a process on its way from a directory
  to a file has inodes of the mounted file system in hand (`PathOK`), and an unmount that
  has found nothing else in core can rely on it until the root is off.
* `PutOK`: the inode that `iput` truncates or writes at its last reference has that one
  reference.  It is locked meanwhile, so nobody finds it free to take; that is what
  makes the look at `i_count` before the sleep good after it.

*The argument.*  `InodeLemmas` first says what each operator of `InodeCache` does
(`IgetEff`: one of four outcomes; `IputEff`, `IdecEff`; `PreleEff`, …), then what
it takes to keep the invariant, in terms of one process: its counts, locks and wakeups
balance (`Ledger`, `Locking`, `Waking`), and it mounts nothing (`StepGood`); it gives up a
reference (`GiveGood`); it locks or unlocks (`GripGood`).  One lemma per action,
`NameiGood` … `FsoffendGood`, applies these.  Mounting and unmounting, which change
`Mounts` itself, are done apart (`MountGood`, `UnhungGood`).  That the hypothesis of the
last one, nobody on the way across (`NoneCrosses`), follows from `Separate` is a second,
small invariant, `OpsOK`: who unmounts or takes `..` was asked to.

*Only model-checked*: liveness, which is beyond the prover (`BufCache`'s and `Proc`'s
liveness runs, the liveness half of `IsChannel`, `HangupArrives`); everything about
texts and streams; of inodes `NamedFilesLive`, and all of them beside texts.  Of the
properties of `Proc`, `StopsDontKill`, `StoppedUntilContinued`, `TakenSignalKept` and
`WaitsForSomething` are false for some choices of the constants (findings 7 to 9): the
runs say for which system calls and signals they were found true, no theorem can be
had for all.

## What the runs found

Two runs must be found violated by TLC, with a finding in `PROJECT.json` giving
the lines in full:

1. `mux_unblk` — `unblock` looks for a free packet buffer when `C_UNBLK` arrives;
   when both are still unacknowledged the permission is forgotten and, after the
   acknowledgements, nobody looks again: a layer whose program has read everything
   is not read until it is touched otherwise (`src/jerq/src/mux/mux.c:564`).
2. `text_unmount` — `xfree` opens the lock of a text entry without a wakeup, so an
   unmount that came to wait for that lock sleeps for ever, with the root of the
   file system locked (`os/text.c:42`).

The others were met while the models were written.  Each is described with
what to change in a run to see it.

In the buffer cache:

3. `getblk` walks the hash chain at `spl0` and tests `B_BUSY` at `spl6`; when an
   asynchronous transfer of that block fails in between, `brelse` takes the buffer's
   name away and `getblk` hands it out for the block all the same
   (`io/bio.c:363`).  `bufcache_live` with `IOErrors = TRUE`: `NoPanic` fails, a
   buffer without a device is written.
4. `closei` does not wait for the writes it starts; after `binval` a reopened
   device can be read before they land, and the cache keeps the old contents as clean
   (`io/bio.c:836`).  `bufcache_cache` with `Ops = {"update", "read", "close"}`:
   `CleanMatchesDisk` fails.
5. A mount that fails after the super block was read clears `B_LOCKED` but leaves
   the buffer on `bfreelist[BQ_LOCKED]`, which `getblk` never searches
   (`fs/fs.c:137`).  `bufcache_live` with `Bufs = {b1, b2}` and
   `Ops = {"empty", "close", "mount"}`: a failed mount, the last close and a second
   mount that succeeds leave both buffers on that list; the next process that wants
   one waits for ever, and `OperationsEnd` fails.

Among processes and signals:

6. A `tsleep` ended by a signal leaves `p_tsleep` counting, and none clears `STIMO`
   before it sleeps, so a later `tsleep` may return `TS_TIME` for the earlier one
   (`os/slp.c:95`).  `Proc` has the step; no property speaks of the result.
7. `selwakeup` sets a *stopped* process running, and the stop signal left in
   `p_cursig` then kills it (`os/sys2.c:366`).  `proc_signals` with
   `Calls = {"select"}` and `MaxTty = 1`: `StopsDontKill` fails.  So it does without
   select: `psignal` stops a sleeper at once and leaves the signal in `p_cursig`
   (`os/sig.c:132`); SIGCONT makes it sleep on; data wake it, and before it runs another
   SIGTSTP comes and its parent exits, which clears that one from `p_sig`
   (`os/sys4.c:660`).  `sleep` then sees no reason to call `issig`, which would have
   cleared `p_cursig`, and `psig` at the end of the call exits with the old stop
   signal.  `proc_signals` with `Sigs = {"TSTP", "CONT"}`, `Calls = {"read"}`,
   `MaxKills = 2`, `MaxTty = 1`, `MaxSets = 0`, `MaxForks = 1`.
8. A child stopped by an interrupt behind `wait1`'s scan is not reported
   (`os/sys1.c:713`).  `proc_live` with `Sigs = {"TSTP"}`,
   `Calls = {"wait", "ioctl"}`, `MaxCalls = 2`, `MaxKills = 0`, `MaxTty = 1`:
   `WaitsForSomething` fails.
9. `conn_open` lets `stclose` sleep again after `TS_SIG`; a second signal then
   wipes out the first, SIGKILL included (`io/connld.c:69`).  `proc_signals` with
   `Calls = {"accept"}`: `TakenSignalKept` fails.

Among inodes and texts (scenarios of `MC_Inode` to be put in place of
`AllScenarios`):

10. `ReadFails` — `fsiread` gives a half-filled inode to `iput` when the disk cannot
    read it; `i_nlink` is that of the slot's last file, and if it was 0, `iput` frees
    the file that could not be read (`fs/fs.c:273`).  `NamedFilesLive` fails.
11. `UnlinkFails` — `unlink` looks at no error of `writei`: the link count goes down
    though the name stays (`fs/fsnami.c:371`).  `NamedFilesLive` fails.
    Likewise `domkfile` enters the name of an inode whose own write failed.
12. `DotDot` — across a mount point `..` waits for the lock of the directory above
    before it has counted a reference to it; an unmount frees that inode meanwhile
    (`fs/fsnami.c:115`).  `OneSlotPerInode` fails, and with it `LocksHaveOneOwner`.
13. `SwapLeft` — a creat sleeps in `xuntext` for a text that is being swapped out;
    before it runs, the text is swapped in again and left by its last user, and it
    wakes up to a free entry: `panic("xuntext")`.  `TextTypeOK` fails.
14. `namei` unlocks a directory before it locks the file found there
    (`fs/fsnami.c:130`): an unlink in between frees the file, and the opener gets an
    inode without mode.  The model takes the step; no property forbids it.

In streams (scenarios that are one line in `MC_Streams`):

15. A module pushed while a writer sleeps comes between the writer and the full
    queue; when that drains it is the module that is enabled, and the writer sleeps on
    (`os/streamio.c:657`).  `Pipe({"push"}, {"write"}, {"read"})`:
    `NoStreamSleeperForgotten` fails.
16. An ioctl that times out or is interrupted clears `IOCWAIT` without a wakeup, so
    a second ioctl that waits for its turn sleeps on (`os/streamio.c:783`).
    `May(With(Pipe({"ioctl"}, {"read"}, {"ioctl", "write"})), {"timeout"})`:
    `NoStreamSleeperForgotten` fails.  The late answer to the first is taken for that
    of the next ioctl; no property speaks of it.
17. A hangup wakes readers, writers, ioctls and who selects for reading, but not
    who selects for writing (`os/streamio.c:385`); `NoStreamSleeperForgotten` does not
    ask for it.
18. Smaller ones, allowed by the properties: a pop loses what the next queue has no
    room for; of two readers at one end the one whose `iomove` waits for a page puts
    the rest of its block back behind the other's (`PathInOrder` is stated for one
    reader); a close whose neighbour also closed waits its full minute for data in
    `bufld` that have nowhere to go.

## Not modelled

* Swap and raw transfers (`physio`, `geteblk`'s other users): headers of their
  own, planned.
* Tracing, `/proc`, core dumps: one more state of stopping; they would double
  `Look`.  Traced texts (`XTRC`) likewise.
* Swapping in `Proc`: `SLOAD` only delays a process (`TextTable` has it, where it
  changes counts).
* Files: hard links, rename, mkdir and symbolic links, directories but the three,
  what a file contains and which blocks it has; `iuniq` and `ifsinacc`, which serve
  the network file systems and forced unmounts.
* Streams: allocation of blocks (`allocb` may fail), opens, passed files, `spipe`,
  `connld` and `mesgld` as modules, processing of characters by terminal
  disciplines, the reader's half of select (in `Proc`).
* `mux`: keyboard input, making and deleting layers, ioctls (`psend_hold`),
  scrolling; the rest of the terminal's software.
* Device registers, assembler, configuration: no shared algorithm to check.
* Text processing of any kind and user programs: each is a system of its own.
  They are nine tenths of the repository, which is why the models cover a small
  share of its lines.
* Crashes: nothing in the kernel recovers; the order of writes that `fsck` needs
  belongs to `FreeList` below (one case, inode before name, is in `NamedFilesLive`).

## Plan

In this order; done so far: 1–7, and of 8 what is marked.

1. `BlockStore`, `BufCache` and its runs — everything on disk goes through it.
2. `BufCacheProofs`.
3. `Proc` and its runs — every other part sleeps, wakes and is signalled by it.
4. `PacketChannel`, `PacketProto` — the one protocol against a bad line.
5. `MuxLayer` over it.
6. `InodeCache`, `TextTable`.
7. `Streams` with `bufld`.
8. Proofs.  Done: `PacketProofs` (types, counters, the invariant that ties the
   buffers' sequence numbers to the frames on the line, and the steps of `IsChannel`);
   `MuxProofs`; `ProcProofs`; the contents of buffers and the refinement in
   `BufCacheProofs`; `InodeProofs`.  To come: the steps of `TextTable` on top of
   `InodeLemmas`, `NamedFilesLive`, `Streams` (`PathInOrder`; the flags and the list agree).
9. `Callout` (`os/clock.c`, delta-coded list) against a set of absolute times;
   `Rmap` (`os/rmap.c`) against a set of free units, `rmalloc` and `rmfree` as
   functions, with lemmas.
10. `FreeList` (`fs/alloc.c`): `alloc` and `free` over `BlockStore`, with a crash
    between any two writes: no block both free and in use on the disk, once `bwrite`
    has returned.
11. `Urp` (`io/dkp.c`): window and retransmission over a channel that loses;
    abstract: `PacketChannel`.
12. `CoreMap` (`vm/vmmem.c`), `physio` and the swap headers as an extension of
    `BufCache`; last, TCP's connection states.
