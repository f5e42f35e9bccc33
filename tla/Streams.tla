------------------------------- MODULE Streams ------------------------------
(***************************************************************************)
(* Streams: the two heads of a pipe (src/v10/sys/os/streamio.c,            *)
(* fs/pipe.c), their queues with flow control and the list of queues to be *)
(* served (io/stream.c), and the buffering line discipline (io/bufld.c),   *)
(* which may be pushed on end A.                                           *)
(*                                                                         *)
(* A queue is <<"R", n>> or <<"W", n>>: n is a head "A" or "B", the module *)
(* "m", or "xA", "xB", the black hole that seals off what A or B has left. *)
(* Put procedures run to their end, through as many queues as they reach;  *)
(* a process is interrupted by servers and the clock only where it may     *)
(* sleep (in tsleep, or in iomove for a page).                             *)
(*                                                                         *)
(* Characters are numbered as they are written.  Blocks hold QBSIZE; since *)
(* a block that ends no write is full, putq never joins two.  Left out:    *)
(* select for reading (see Proc), passed files, opens.                     *)
(***************************************************************************)
EXTENDS Integers, Sequences, FiniteSets

CONSTANTS Proc, None,      \* processes; no process
          ReadSizes, WriteSizes,
          MaxChars,        \* bound: characters written at each end
          MaxIoctls,       \* bound: requests that wait in the module (they can be abandoned)
          Scenarios        \* what is run: see Init

ASSUME StreamAssumption == /\ None \notin Proc
                           /\ WriteSizes \subseteq Nat \ {0} /\ ReadSizes \subseteq Nat \ {0}
                           /\ MaxChars \in Nat /\ MaxIoctls \in Nat

VARIABLES q,         \* the queues: flags and blocks
          next,      \* where a queue passes its blocks on
          qrun,      \* qhead: the queues to be served
          head,      \* the stream heads
          buf,       \* bufld's part of the module's two queues
          u,         \* what a process has in hand
          sent, got, \* history: characters written at each end, and read of them
          run,       \* the scenario
          panic

Ends == {"A", "B"}
Peer(e) == IF e = "A" THEN "B" ELSE "A"
Seal(e) == IF e = "A" THEN "xA" ELSE "xB"
Queue == {"R", "W"} \X {"A", "B", "m", "xA", "xB"}
Nil == <<"-", "-">>
R(n) == <<"R", n>>
W(n) == <<"W", n>>
OTHERQ(i) == IF i[1] = "R" THEN W(i[2]) ELSE R(i[2])
IsHead(i) == i[2] \in Ends
IsMod(i) == i[2] = "m"
Served(i) == IsMod(i) \/ (IsHead(i) /\ i[1] = "W")     \* there is a srvp

QBSIZE == 2
NCHAR == 2                    \* characters bufld waits for; fewer stay until its time is over
Limit == 32                   \* two blocks of data
LoLimit == 16
Block == [t : {"data", "ioctl", "nak", "hangup", "flush"}, d : Seq(Nat), delim : BOOLEAN]
Ctl(t) == [t |-> t, d |-> <<>>, delim |-> FALSE]
NoBlock == Ctl("flush")
\* Mutant: a hangup is as urgent.
QPCTL_Hangup(b) == b.t \in {"nak", "flush", "hangup"}
\* Messages that go before others.
QPCTL(b) == b.t \in {"nak", "flush"}
Awake == <<"awake", "-">>

K == [q |-> q, next |-> next, qrun |-> qrun, head |-> head, buf |-> buf, u |-> u,
      sent |-> sent, got |-> got, panic |-> panic]
Panic(k, why) == [k EXCEPT !.panic = why]
Wakeup(k, c) == [k EXCEPT !.u = [p \in Proc |-> IF k.u[p].chan = c
                                                THEN [k.u[p] EXCEPT !.chan = Awake] ELSE k.u[p]]]
Flag(k, i, f) == f \in k.q[i].flags
Set(k, i, fs) == [k EXCEPT !.q[i].flags = @ \cup fs]
Clear(k, i, f) == [k EXCEPT !.q[i].flags = @ \ {f}]
Hungup(k, e) == "HUNGUP" \in k.head[e].flags

-----------------------------------------------------------------------------
(***************************************************************************)
(* Queues (io/stream.c)                                                    *)
(***************************************************************************)
\* q->count: a block of QBSIZE counts sixteen times a small one.
IsData(b) == b.t = "data"
Count(k, i) == Len(k.q[i].blocks) + 15 * Len(SelectSeq(k.q[i].blocks, IsData))

Backq(k, i) == OTHERQ(k.next[OTHERQ(i)])

Qenable(k, i) == IF Flag(k, i, "QENAB") \/ ~Served(i) THEN k
                 ELSE [Set(k, i, {"QENAB"}) EXCEPT !.qrun = Append(@, i)]

\* Whoever wanted to write may go on: in getq and flushq.
BackEnable(k, i) ==
  IF ~Flag(k, i, "QWANTW") \/ k.next[OTHERQ(i)] = Nil THEN k
  ELSE Qenable(Clear(k, i, "QWANTW"), Backq(k, i))

\* The block out of the queue, and the flags that follow from what is left.
NotFull(k, i) == IF Count(k, i) < Limit THEN Clear(k, i, "QFULL") ELSE k
Shorter(k, i) == IF k.q[i].blocks = <<>> THEN k ELSE NotFull([k EXCEPT !.q[i].blocks = Tail(@)], i)
Resume(k, i) == IF Count(k, i) <= LoLimit THEN BackEnable(k, i) ELSE k

\* Mutant: nobody looks behind a queue that is filled below its limit only.
Getq_FullOnly(k, i) == IF Flag(k, i, "QFULL") THEN Resume(Shorter(k, i), i) ELSE Shorter(k, i)

\* getq; its result is the first of the blocks that k has.
Getq(k, i) == Resume(Shorter(k, i), i)

\* Mutant: a queue is full when it holds more than its limit.
FullMark_Late(k, i) == IF Count(k, i) > Limit THEN Set(k, i, {"QFULL", "QWANTW"}) ELSE k

FullMark(k, i) == IF Count(k, i) >= Limit THEN Set(k, i, {"QFULL", "QWANTW"}) ELSE k

\* flushq: data and flushes go, other messages only if all.
Flushq(k, i, all) ==
  LET kept(b) == ~all /\ b.t \notin {"data", "flush"} IN
  BackEnable(FullMark(Clear([k EXCEPT !.q[i].blocks = SelectSeq(@, kept)], i, "QFULL"), i), i)

\* putq: priority messages go before the others.
Placed(bs, b) == LET pri == SelectSeq(bs, QPCTL) IN
  IF bs = <<>> \/ ~QPCTL(b) \/ QPCTL(bs[Len(bs)]) THEN Append(bs, b)
  ELSE pri \o <<b>> \o SubSeq(bs, Len(pri) + 1, Len(bs))
Putq(k, i, b) ==
  FullMark([(IF b.t = "flush" THEN Flushq(k, i, FALSE) ELSE k) EXCEPT !.q[i].blocks = Placed(@, b)], i)

\* Mutant: the block goes to the end.
Putbq_Last(k, i, b) == Putq(k, i, b)

\* putbq: b is first, but for priority messages (heads have none).
Putbq(k, i, b) == FullMark([k EXCEPT !.q[i].blocks = <<b>> \o @], i)

-----------------------------------------------------------------------------
(***************************************************************************)
(* Put procedures.  Only a message to be answered goes round a corner: it  *)
(* turns back at a head or a black hole, and its answer does not.          *)
(***************************************************************************)
\* Mutant: writers are not told of a hangup.
Hangup_Readers(k, e) ==
  Wakeup(Wakeup([k EXCEPT !.head[e].flags = @ \cup {"HUNGUP"}], <<"read", e>>), <<"ioctl", e>>)

\* strput: a hangup.
Hangup(k, e) ==
  Wakeup(Wakeup(Wakeup([k EXCEPT !.head[e].flags = @ \cup {"HUNGUP"}],
                <<"read", e>>), <<"write", e>>), <<"ioctl", e>>)

Strput(k, e, b) ==
  CASE b.t = "data" ->
         IF "RSLEEP" \notin k.head[e].flags THEN Putq(k, R(e), b)
         ELSE Wakeup([Putq(k, R(e), b) EXCEPT !.head[e].flags = @ \ {"RSLEEP"}], <<"read", e>>)
    [] b.t = "hangup" -> Hangup(k, e)
    [] b.t = "flush" -> Flushq(k, R(e), FALSE)
    [] b.t = "nak" -> IF "IOCWAIT" \notin k.head[e].flags \/ k.head[e].iocblk THEN k
                      ELSE Wakeup([k EXCEPT !.head[e].iocblk = TRUE], <<"ioctl", e>>)

\* Where a message other than M_IOCTL ends: at a head, or in nilput.
Arrive(k, i, b) == IF IsHead(i) THEN Strput(k, i[2], b) ELSE k

\* bufunload; P is the put procedure of the next queue.
PassOne(k, i, P(_, _, _)) ==
  IF Flag(k, k.next[i], "QFULL") \/ k.q[i].blocks = <<>> THEN k
  ELSE P([Getq(k, i) EXCEPT !.buf[i].rnchar = @ - Len(k.q[i].blocks[1].d)], k.next[i], k.q[i].blocks[1])
UnloadTo(k, i, P(_, _, _)) ==
  LET f[j \in Nat] == IF j = 0 THEN k ELSE PassOne(f[j - 1], i, P) IN f[Len(k.q[i].blocks)]

\* bufput: pass everything on once there is enough; else wait for the timer (one tick is as good as three).
IfEnough(k, i, b, P(_, _, _)) ==
  IF b.t # "data" \/ k.buf[i].rnchar >= NCHAR THEN UnloadTo(k, i, P) ELSE k
ForTimer(k, i) ==
  IF k.q[i].blocks # <<>> THEN [k EXCEPT !.buf[i].btime = 1, !.buf[i].act = TRUE]
  ELSE [k EXCEPT !.buf[i].btime = 0, !.buf[i].rnchar = 0]
BufputTo(k, i, b, P(_, _, _)) ==
  ForTimer(IfEnough([Putq(k, i, b) EXCEPT !.buf[i].rnchar = @ + Len(b.d)], i, b, P), i)

PutBack(k, i, b) == IF IsMod(i) THEN BufputTo(k, i, b, Arrive) ELSE Arrive(k, i, b)

\* The far end of a path: M_IOCTL is refused there, by qreply.
Turn(k, i, b) == IF b.t = "ioctl" THEN PutBack(k, k.next[OTHERQ(i)], Ctl("nak"))
                 ELSE Arrive(k, i, b)

Unload(k, i) == UnloadTo(k, i, Turn)
Bufput(k, i, b) == BufputTo(k, i, b, Turn)
\* (*q->qinfo->putp)(q, b)
Put(k, i, b) == IF IsMod(i) THEN Bufput(k, i, b) ELSE Turn(k, i, b)

-----------------------------------------------------------------------------
(***************************************************************************)
(* The service procedures, and queuerun.  Its soft interrupt comes before  *)
(* any process goes on; only the clock could tick in between, and with its *)
(* tick a server does at once what the tick would have it do later.        *)
(***************************************************************************)
Bufsrv(k, i) == IF k.q[i].blocks # <<>> /\ k.buf[i].btime = 0 THEN Unload(k, i) ELSE k

Selwakeup(k, p, coll) ==
  LET k1 == IF coll THEN Wakeup(k, <<"select", "-">>) ELSE k IN
  IF p # None /\ k.u[p].chan = <<"select", "-">> THEN [k1 EXCEPT !.u[p].chan = Awake] ELSE k1

Stwsrv(k, e) ==
  LET k1 == IF "WSLEEP" \in k.head[e].flags
            THEN Wakeup([k EXCEPT !.head[e].flags = @ \ {"WSLEEP"}], <<"write", e>>) ELSE k IN
  IF k.head[e].wsel = None THEN k1
  ELSE [Selwakeup(k1, k.head[e].wsel, "WSEL" \in k.head[e].flags)
          EXCEPT !.head[e].wsel = None, !.head[e].flags = @ \ {"WSEL"}]

Srvp(k, i) == IF IsMod(i) THEN Bufsrv(k, i) ELSE Stwsrv(k, i[2])
Serve(k) == IF k.qrun = <<>> THEN k
            ELSE Srvp(Clear([k EXCEPT !.qrun = Tail(@)], k.qrun[1], "QENAB"), k.qrun[1])

\* queuerun: to its end, each queue may be enabled once more by the others.
Queuerun(k) == LET f[n \in 0..8] == IF n = 0 THEN k ELSE Serve(f[n - 1]) IN f[8]

\* k comes next: what a process or the clock did, and then the queues it enabled.
Become(k0) == \E k \in {Queuerun(k0)} :
                /\ q' = k.q /\ next' = k.next /\ qrun' = k.qrun /\ head' = k.head
                /\ buf' = k.buf /\ u' = k.u /\ sent' = k.sent /\ got' = k.got
                /\ panic' = k.panic /\ run' = run

\* buftimo, for one queue and for all.
Tick(k0, i) ==
  IF ~k0.buf[i].act \/ k0.buf[i].btime = 0 THEN k0
  ELSE LET k == [k0 EXCEPT !.buf[i].btime = @ - 1] IN
       IF k.buf[i].btime = 0 /\ k.q[i].blocks # <<>>
       THEN Qenable([k EXCEPT !.buf[i].act = FALSE], i) ELSE k
Buftimo == /\ panic = "" /\ \E i \in {R("m"), W("m")} : buf[i].act /\ buf[i].btime > 0
           /\ Become(Tick(Tick(K, R("m")), W("m")))

-----------------------------------------------------------------------------
(***************************************************************************)
(* Putting modules in and taking them out (os/streamio.c)                  *)
(***************************************************************************)
\* qattach: a pair of queues above the read queue i and its partner.
Qattach(k, n, i) ==
  LET down == k.next[OTHERQ(i)]
      k1 == [k EXCEPT !.next[R(n)] = i, !.next[W(n)] = down, !.next[OTHERQ(i)] = W(n),
                      !.q[R(n)].flags = {}, !.q[W(n)].flags = {}] IN
  IF down = Nil THEN k1 ELSE [k1 EXCEPT !.next[OTHERQ(down)] = R(n)]

\* bufclose: what the next queues take is passed on.
Bufclose(k) == [Unload(Unload(k, R("m")), W("m")) EXCEPT !.buf[R("m")].btime = 0, !.buf[W("m")].btime = 0]

\* qdetach with the flag 1: what is left in the queues goes, and then they are out of the stream.
Bypass(k, i) == IF k.next[OTHERQ(i)] = Nil THEN k ELSE [k EXCEPT !.next[Backq(k, i)] = k.next[i]]
GiveUp(k, n) ==
  IF \E i \in {R(n), W(n)} : Flag(k, i, "QENAB") THEN Panic(k, "queue won't give up")
  ELSE [Bypass(Bypass(Flushq(Flushq(k, R(n), TRUE), W(n), TRUE), R(n)), W(n)) EXCEPT !.q[R(n)].flags = {}, !.q[W(n)].flags = {}]
Qdetach(k, n) == GiveUp(Queuerun(IF n = "m" THEN Bufclose(Queuerun(k)) ELSE Queuerun(k)), n)

\* stclose: hang up on the other end, and put a black hole before it.
SealOff(k, e, i) ==
  [Qattach(Put(k, i, Ctl("hangup")), Seal(e), i) EXCEPT !.next[W(Seal(e))] = Nil]

\* The rest of stclose, when there is nothing to wait for.
Below(k, e, i) ==
  IF i \in {Nil, R(Seal(e))} THEN k ELSE Queuerun(IF i[1] = "R" THEN SealOff(k, e, i) ELSE Qdetach(k, i[2]))
EmptyHead(k, e) ==
  [Queuerun(BackEnable([Flushq(k, W(e), TRUE) EXCEPT !.q[R(e)].blocks = <<>>], R(e)))
     EXCEPT !.q[R(e)].flags = {}, !.q[W(e)].flags = {}, !.head[e].open = FALSE]
Shut(k, e) == LET f[n \in 0..2] == IF n = 0 THEN k ELSE Below(f[n - 1], e, f[n - 1].next[W(e)]) IN
              EmptyHead(f[2], e)

-----------------------------------------------------------------------------
(***************************************************************************)
(* Processes in the routines of a stream head                              *)
(***************************************************************************)
Idle == [pc |-> "", fd |-> TRUE, chan |-> Awake, n |-> 0, nc |-> 0, b |-> NoBlock]

\* stexit, and back to the program.
Stexit(k, p) ==
  LET e == run.at[p]
      k1 == [k EXCEPT !.head[e].count = @ - 1, !.u[p] = [Idle EXCEPT !.fd = k.u[p].fd]] IN
  IF ~k.head[e].open THEN Panic(k1, "null stp in stexit")
  ELSE IF k1.head[e].count = 0 /\ Hungup(k1, e) /\ Count(k1, R(e)) = 0 THEN Shut(k1, e) ELSE k1

Ready(p, pc) == panic = "" /\ u[p].pc = pc /\ u[p].chan = Awake
\* A process calls; stenter.
Calls(p, op) == Ready(p, "") /\ op \in run.does[p] /\ u[p].fd /\ head[run.at[p]].open
Stenter(p) == [K EXCEPT !.head[run.at[p]].count = @ + 1]
Sleep(k, p, pc, what) == [k EXCEPT !.u[p].pc = pc, !.u[p].chan = <<what, run.at[p]>>]

\* stwrite: wait while the next queue is full.
WriteTest(k, p) ==
  LET e == run.at[p] IN
  IF Hungup(k, e) THEN Stexit(k, p)
  ELSE IF Flag(k, k.next[W(e)], "QFULL")
  THEN Sleep([k EXCEPT !.head[e].flags = @ \cup {"WSLEEP"}], p, "wtest", "write")
  ELSE [k EXCEPT !.u[p].pc = "wput"]
Write(p) ==
  /\ Calls(p, "write")
  /\ \E n \in WriteSizes : /\ sent[run.at[p]] + n <= MaxChars
                           /\ Become(WriteTest([Stenter(p) EXCEPT !.u[p].n = n], p))
WriteAgain(p) == Ready(p, "wtest") /\ Become(WriteTest(K, p))
WriteOn(k, p) == IF k.u[p].n = 0 THEN Stexit(k, p) ELSE WriteTest(k, p)
\* After iomove: a block goes down the stream, the last one with a delimiter.
WritePut(p) ==
  /\ Ready(p, "wput")
  /\ LET e == run.at[p]
         n == IF u[p].n < QBSIZE THEN u[p].n ELSE QBSIZE
         b == [t |-> "data", d |-> [j \in 1..n |-> sent[e] + j], delim |-> n = u[p].n]
     IN  Become(WriteOn(Put([K EXCEPT !.sent[e] = @ + n, !.u[p].n = @ - n], next[W(e)], b), p))

\* stread: the next block, or wait for one.
Delimits(k, e) == LET i == OTHERQ(k.next[W(e)]) IN IsHead(i) /\ i[1] = "W"
ReadGet(k0, p) ==
  LET e == run.at[p]
      k == Getq(k0, R(e))
      bs == k0.q[R(e)].blocks IN
  IF bs # <<>> THEN [k EXCEPT !.u[p].pc = "rmove", !.u[p].b = bs[1]]
  ELSE IF (k.u[p].nc > 0 /\ ~Delimits(k, e)) \/ Hungup(k, e) THEN Stexit(k, p)
  ELSE Sleep([k EXCEPT !.head[e].flags = @ \cup {"RSLEEP"}, !.u[p].b = NoBlock], p, "rget", "read")
Read(p) == /\ Calls(p, "read")
           /\ \E n \in ReadSizes : Become(ReadGet([Stenter(p) EXCEPT !.u[p].n = n], p))
ReadAgain(p) == Ready(p, "rget") /\ Become(ReadGet(K, p))
\* iomove to the user, and what becomes of the block.
ReadMove(p) ==
  /\ Ready(p, "rmove")
  /\ LET e == run.at[p]
         b == u[p].b
         n == IF u[p].n < Len(b.d) THEN u[p].n ELSE Len(b.d)
         k == [K EXCEPT !.got[Peer(e)] = @ \o SubSeq(b.d, 1, n),
                        !.u[p].n = @ - n, !.u[p].nc = @ + n, !.u[p].b = NoBlock] IN
     Become(IF n < Len(b.d)
            THEN Stexit(Putbq(k, R(e), [b EXCEPT !.d = SubSeq(@, n + 1, Len(@))]), p)
            ELSE IF b.delim THEN Stexit(k, p) ELSE ReadGet(k, p))

\* stselect for writing; the scan and the sleep are one step here (see Proc).
SelectScan(k, p) ==
  LET e == run.at[p]
      w == k.head[e].wsel IN
  IF ~k.head[e].open THEN [k EXCEPT !.u[p].pc = ""]
  ELSE IF ~Flag(k, k.next[W(e)], "QFULL") THEN [k EXCEPT !.u[p].pc = ""]
  ELSE LET k1 == IF w # None /\ k.u[w].chan = <<"select", "-">>
                 THEN [k EXCEPT !.head[e].flags = @ \cup {"WSEL"}] ELSE [k EXCEPT !.head[e].wsel = p] IN
       [k1 EXCEPT !.u[p].pc = "select", !.u[p].chan = <<"select", "-">>]
Select(p) == Calls(p, "select") /\ Become(SelectScan(K, p))
SelectAgain(p) == Ready(p, "select") /\ Become(SelectScan(K, p))

\* stioctl, for a command that goes down the stream.
IoctlEnd(k, p) ==
  LET e == run.at[p] IN
  Stexit([k EXCEPT !.head[e].iocblk = FALSE, !.head[e].flags = @ \ {"IOCWAIT"}], p)
IoctlWait(k, p) ==
  LET e == run.at[p] IN
  IF k.head[e].iocblk THEN IoctlEnd(Wakeup(k, <<"ioctl", e>>), p) ELSE Sleep(k, p, "iwait", "ioctl")
IoctlAsk(k, p) ==
  LET e == run.at[p] IN
  IF "IOCWAIT" \in k.head[e].flags THEN Sleep(k, p, "iask", "ioctl")
  ELSE IoctlWait(Put([k EXCEPT !.head[e].flags = @ \cup {"IOCWAIT"}], k.next[W(e)], Ctl("ioctl")), p)
Ioctl(p) ==
  /\ Calls(p, "ioctl")
  /\ Len(SelectSeq(q[W("m")].blocks, LAMBDA b : b.t = "ioctl")) < MaxIoctls
  /\ Become(IF Hungup(K, run.at[p]) THEN Stexit(Stenter(p), p) ELSE IoctlAsk(Stenter(p), p))
IoctlAgain(p) ==
  LET e == run.at[p] IN
  \/ Ready(p, "iask") /\ Become(IF Hungup(K, e) THEN Stexit(K, p) ELSE IoctlAsk(K, p))
  \/ Ready(p, "iwait") /\ Become(IF Hungup(K, e) THEN IoctlEnd(K, p) ELSE IoctlWait(K, p))

\* TIOCFLUSH, FIOPUSHLD of bufld, FIOPOPLD
Flush(p) ==
  /\ Calls(p, "flush") /\ ~Hungup(K, run.at[p])
  /\ LET e == run.at[p] IN
     Become(Stexit(Put(Queuerun(Flushq(Stenter(p), R(e), FALSE)), next[W(e)], Ctl("flush")), p))
Push(p) ==
  /\ Calls(p, "push") /\ ~Hungup(K, "A") /\ next[W("A")] # W("m")
  /\ Become([Qattach(Stexit(Stenter(p), p), "m", R("A")) EXCEPT
       !.buf = [i \in DOMAIN buf |-> [buf[i] EXCEPT !.rnchar = 0, !.btime = 0]]])
Pop(p) ==
  /\ Calls(p, "pop") /\ ~Hungup(K, "A") /\ next[W("A")] = W("m")
  /\ Become(Stexit(Qdetach(Stenter(p), "m"), p))

\* close; the last one shuts the stream down, but lets output drain first.
Close(p) ==
  LET e == run.at[p]
      k == [K EXCEPT !.u[p].fd = FALSE]
      last == \A o \in Proc \ {p} : run.at[o] = e => ~u[o].fd IN
  /\ Ready(p, "") /\ "close" \in run.does[p] /\ u[p].fd
  /\ Become(IF ~last \/ ~head[e].open THEN k
            ELSE IF head[e].count # 0 THEN Panic(k, "count in stclose")
            ELSE [k EXCEPT !.head[e].open = FALSE, !.u[p].pc = "drain", !.u[p].n = IF Hungup(K, e) THEN 0 ELSE 1])
\* All output has gone, or a minute is over.
Drained(p) ==
  LET i == next[W(run.at[p])] IN
  i # W("m") \/ u[p].n = 0 \/ q[i].blocks = <<>> \/ "slow" \in run.may
Drain(p) == /\ Ready(p, "drain") /\ Drained(p)
            /\ Become([Shut(K, run.at[p]) EXCEPT !.u[p].pc = "", !.u[p].n = 0])

\* tsleep returns TS_SIG, or in stioctl TS_TIME.
Interrupt(p) ==
  /\ panic = ""
  /\ \/ "signal" \in run.may /\ u[p].pc \in {"wtest", "rget", "iask"} /\ Become(Stexit(K, p))
     \/ "signal" \in run.may /\ u[p].pc = "select" /\ Become([K EXCEPT !.u[p].pc = "", !.u[p].chan = Awake])
     \/ run.may \cap {"signal", "timeout"} # {} /\ u[p].pc = "iwait" /\ Become(IoctlEnd(K, p))

-----------------------------------------------------------------------------
StreamInit ==
  /\ run \in Scenarios
  /\ q = [i \in Queue |-> [flags |-> {}, blocks |-> <<>>]]
  /\ qrun = <<>> /\ panic = ""
  /\ LET pipe == [i \in Queue |-> IF i = W("A") THEN R("B") ELSE IF i = W("B") THEN R("A") ELSE Nil] IN
     next = IF ~run.mod THEN pipe
            ELSE [pipe EXCEPT ![W("A")] = W("m"), ![W("m")] = R("B"), ![W("B")] = R("m"), ![R("m")] = R("A")]
  /\ head = [e \in Ends |-> [flags |-> {}, iocblk |-> FALSE, wsel |-> None, count |-> 0, open |-> TRUE]]
  /\ buf = [i \in {R("m"), W("m")} |-> [rnchar |-> 0, btime |-> 0, act |-> FALSE]]
  /\ u = [p \in Proc |-> [Idle EXCEPT !.fd = run.does[p] # {}]]
  /\ sent = [e \in Ends |-> 0] /\ got = [e \in Ends |-> <<>>]

User(p) == \/ Write(p) \/ Read(p) \/ Select(p) \/ Ioctl(p)
           \/ Flush(p) \/ Push(p) \/ Pop(p) \/ Close(p)
Step(p) == \/ WriteAgain(p) \/ WritePut(p) \/ ReadAgain(p) \/ ReadMove(p)
           \/ SelectAgain(p) \/ IoctlAgain(p) \/ Drain(p)
StreamNext == \/ \E p \in Proc : User(p) \/ Step(p) \/ Interrupt(p)
              \/ Buftimo

streamvars == <<q, next, qrun, head, buf, u, sent, got, run, panic>>
StreamSpec == StreamInit /\ [][StreamNext]_streamvars
(* No process is kept from running for ever, and the clock goes on.  This is *)
(* weak fairness of a step of p (only p changes what an awake p has in hand), *)
(* and of the tick of a buffer, or whatever else it gets.  Whoever does       *)
(* nothing but read does it again and again.                                  *)
CanGo(p) == /\ panic = "" /\ u[p].chan = Awake
            /\ u[p].pc = "" => run.does[p] = {"read"} /\ u[p].fd /\ head[run.at[p]].open
            /\ u[p].pc = "drain" => Drained(p)
CanTick(i) == panic = "" /\ buf[i].act /\ buf[i].btime > 0
StreamFairness ==
  /\ \A p \in Proc : []<>~CanGo(p) \/ []<><<CanGo(p)>>_(u[p])
  /\ \A i \in {R("m"), W("m")} : []<>~CanTick(i) \/ []<><<CanTick(i)>>_(buf[i])
FairStreamSpec == StreamSpec /\ StreamFairness

-----------------------------------------------------------------------------
(***************************************************************************)
(* Properties                                                              *)
(***************************************************************************)
\* The types; a queue that is over its limit is marked full, none stays marked as enabled without
\* being on the list (qdetach and stclose clear flags without looking at the list), no process is
\* still counted in a stream that is shut, and no panic is called.
StreamTypeOK ==
  /\ \A i \in Queue : /\ q[i].flags \subseteq {"QENAB", "QFULL", "QWANTW"}
                      /\ \A j \in DOMAIN q[i].blocks : q[i].blocks[j] \in Block
                      /\ Count(K, i) >= Limit => "QFULL" \in q[i].flags
  /\ next \in [Queue -> Queue \cup {Nil}]
  /\ \A e \in Ends : head[e].flags \subseteq {"RSLEEP", "WSLEEP", "HUNGUP", "IOCWAIT", "WSEL"}
                     /\ head[e].count \in 0..Cardinality(Proc)
  /\ qrun = <<>> /\ \A i \in Queue : "QENAB" \notin q[i].flags
  /\ \A e \in Ends : head[e].count = Cardinality({p \in Proc : run.at[p] = e /\ u[p].pc \notin {"", "select", "drain"}})
  /\ panic = ""

\* What may be lost of the characters written at e: what a program flushed or popped, what did not
\* drain in a minute, and what the other end did not wait for.
MayDrop(e) == \/ \E p \in Proc : run.does[p] \cap {"flush", "pop"} # {}
              \/ "slow" \in run.may \/ ~head[Peer(e)].open

\* The queues between e and the other end's reader, the nearest to the reader first.
Route(e) == LET a == next[W(e)]
                b == next[a]
                c == next[b] IN
            IF IsHead(a) THEN <<a>> ELSE IF IsHead(b) THEN <<b, a>> ELSE <<c, b, a>>
Chars(bs) == LET f[j \in 0..Len(bs)] == IF j = 0 THEN <<>> ELSE f[j - 1] \o bs[j].d IN f[Len(bs)]
Held(e) == LET r == {p \in Proc : run.at[p] = e /\ u[p].pc = "rmove"} IN
           IF r = {} THEN <<>> ELSE u[CHOOSE p \in r : TRUE].b.d
Stream(e) ==
  LET r == Route(e)
      f[j \in 0..Len(r)] == IF j = 0 THEN got[e] \o Held(Peer(e)) ELSE f[j - 1] \o Chars(q[r[j]].blocks) IN
  IF head[Peer(e)].open THEN f[Len(r)] ELSE got[e]

\* What has been read of the characters written at one end, and what is on its way, is what was
\* written, in order, none twice and, unless someone dropped them on purpose, none missing.
PathInOrder ==
  \A e \in Ends : LET s == Stream(e) IN
    /\ \A j \in 1..(Len(s) - 1) : s[j] < s[j + 1]
    /\ MayDrop(e) \/ Len(s) = sent[e]

Asleep(p, pc) == u[p].pc = pc /\ u[p].chan # Awake

\* Whoever sleeps in a stream head has an event to come that will wake him: a writer (by write or
\* select) the queue that is to drain, with the flags that pass this on, a reader data or a hangup,
\* an ioctl its answer, or the end of another ioctl.
Drains(e) == "QWANTW" \in q[next[W(e)]].flags
NoStreamSleeperForgotten ==
  \A p \in Proc : LET e == run.at[p]
                      f == head[e].flags IN
    /\ Asleep(p, "wtest") => "HUNGUP" \notin f /\ "WSLEEP" \in f /\ Drains(e)
    /\ Asleep(p, "select") => (head[e].wsel = p \/ "WSEL" \in f) /\ Drains(e)
    /\ Asleep(p, "rget") => "HUNGUP" \notin f /\ "RSLEEP" \in f /\ q[R(e)].blocks = <<>>
    /\ Asleep(p, "iask") => /\ "IOCWAIT" \in f
                            /\ \E o \in Proc \ {p} : run.at[o] = e /\ u[o].pc = "iwait"
    /\ Asleep(p, "iwait") =>
         /\ {"IOCWAIT", "HUNGUP"} \cap f = {"IOCWAIT"} /\ ~head[e].iocblk
         /\ \E i \in {R("m"), W("m")} : \E j \in DOMAIN q[i].blocks :
               \/ q[i].blocks[j].t = "nak" /\ i[1] = IF e = "A" THEN "R" ELSE "W"
               \/ q[i].blocks[j].t = "ioctl" /\ i[1] = IF e = "A" THEN "W" ELSE "R"

\* An end whose other end has been closed knows it or will: the hangup is not lost, and it does not
\* overtake data.
HangupArrives ==
  \A e \in Ends : next[W(Peer(e))] = R(Seal(Peer(e))) /\ head[e].open =>
    \/ "HUNGUP" \in head[e].flags /\ (e = "A" => Chars(q[R("m")].blocks) = <<>>)
    \/ e = "A" /\ \E j \in DOMAIN q[R("m")].blocks : /\ q[R("m")].blocks[j].t = "hangup"
                                                    /\ j = Len(q[R("m")].blocks)

\* While someone reads at the other end, no writer waits for ever, and all that is written is read.
Eager(e) == \E p \in Proc : run.at[p] = Peer(e) /\ run.does[p] = {"read"}
AllThrough(e) == /\ \A p \in Proc : run.at[p] = e => u[p].pc \notin {"wtest", "wput"}
                 /\ Len(got[e]) = sent[e] \/ MayDrop(e)
FlowGoesOn == \A e \in Ends : []<>(Eager(e) => AllThrough(e))
=============================================================================
