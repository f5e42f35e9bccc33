------------------------------ MODULE TextTable -----------------------------
(***************************************************************************)
(* Shared text (src/v10/sys/os/text.c) on top of the inode cache: the text *)
(* table with its counts and locks, exec, exit and fork, the swapper that  *)
(* takes text in and out of core (vm/vmswap.c), the pageout daemon that    *)
(* keeps a text busy (vm/vmpage.c), and what looks for unused text: open   *)
(* for writing, unlink and unmount.                                        *)
(*                                                                         *)
(* Swapper is the process 0.  A process that is swapped out does not run.  *)
(* Traced processes (XTRC), which have a text of their own, are left out.  *)
(***************************************************************************)
EXTENDS InodeCache

CONSTANT Swapper
ASSUME SwapperAssumption == Swapper \in Proc

VARIABLES text,        \* the text table
          pt           \* a process's part in it

Txt == 1..NText
OnText(t) == <<"text", t>>
OnPoip(t) == <<"poip", t>>
NoText == [iptr |-> 0, count |-> 0, ccount |-> 0, lock |-> FALSE, want |-> FALSE,
           writ |-> FALSE, poip |-> 0, ino |-> "none"]
NoUser == [textp |-> 0, link |-> FALSE, load |-> TRUE, keep |-> FALSE, exiting |-> FALSE,
           xp |-> 0, victim |-> Swapper]

KT == [node |-> node, freel |-> freel, u |-> u, fs |-> fs, panic |-> panic, text |-> text, pt |-> pt]
BecomeT(k) == Become(k) /\ text' = k.text /\ pt' = k.pt
Runs(p, l) == At(p, l) /\ pt[p].load

XSleep(k, p, t, pc) == [Goto(k, p, pc) EXCEPT !.text[t].want = TRUE, !.u[p].chan = OnText(t)]

\* xunlock
Xunlock(k, t) ==
  LET k1 == [k EXCEPT !.text[t].lock = FALSE, !.text[t].want = FALSE] IN
  IF k.text[t].want THEN Wakeup(k1, OnText(t)) ELSE k1

\* Mutant: a process that has the text loaded is not counted.
Xlink_Uncounted(k, p) == IF k.pt[p].textp = 0 THEN k ELSE [k EXCEPT !.pt[p].link = TRUE]

\* xlink and xunlink: on and off the list of processes that have the text loaded.
Xlink(k, p) == LET t == k.pt[p].textp IN
  IF t = 0 THEN k ELSE [k EXCEPT !.pt[p].link = TRUE, !.text[t].ccount = @ + 1]
Xunlink(k, p) ==
  IF ~k.pt[p].link THEN Panic(k, "lost text") ELSE [k EXCEPT !.pt[p].link = FALSE]

-----------------------------------------------------------------------------
(***************************************************************************)
(* Leaving a text: xfree at exit and exec, xccdec there and at swapout.    *)
(***************************************************************************)
\* xccdec after its xlock; when v was the last to have the text loaded it is written, if need be.
Xccdec1(k, p, v, rest) ==
  LET t == k.pt[v].textp
      k1 == [k EXCEPT !.text[t].lock = TRUE, !.text[t].ccount = @ - 1] IN
  IF k1.text[t].ccount = 0 /\ k1.text[t].writ THEN Goto(k1, p, <<"xswapped">> \o rest)
  ELSE Goto(Xunlock(Xunlink(k1, v), t), p, rest)

\* xccdec of v: nothing to do without a text, or when none has it loaded.
Xccdec(k, p, v, rest) ==
  LET t == k.pt[v].textp IN
  IF t = 0 THEN Goto(k, p, rest)
  ELSE IF k.text[t].ccount = 0 THEN Goto(k, p, rest)
  ELSE IF k.text[t].lock THEN [XSleep(k, p, t, <<"xccdec">> \o rest) EXCEPT !.pt[p].victim = v]
  ELSE Xccdec1([k EXCEPT !.pt[p].victim = v], p, v, rest)

\* vsswap has written the text.
Xswapped(p) ==
  /\ Runs(p, "xswapped")
  /\ LET v == pt[p].victim
         t == pt[v].textp IN
     BecomeT(Goto(Xunlock(Xunlink([KT EXCEPT !.text[t].writ = FALSE], v), t), p, Rest(p)))

\* ITEXT of the inode goes when no other entry has it.
Itext(k, t) ==
  LET s == k.text[t].iptr IN
  IF \E t1 \in Txt \ {t} : k.text[t1].iptr = s THEN k ELSE [k EXCEPT !.node[s].text = FALSE]

\* The entry's reference to its inode: a locked inode is only counted down.
Xiput(k, p, t, rest) ==
  LET s == k.text[t].iptr IN
  IF k.node[s].lock THEN Goto([k EXCEPT !.node[s].count = @ - 1], p, rest) ELSE Iput(k, p, s, rest)

Xfree(p) ==
  /\ Runs(p, "xfree")
  /\ LET t == pt[p].textp
         k == [KT EXCEPT !.text[t].lock = TRUE, !.text[t].count = @ - 1] IN
     BecomeT(IF text[t].lock THEN XSleep(KT, p, t, u[p].pc)
             ELSE IF k.text[t].count = 0
             THEN Xiput(Itext(Xunlink(k, p), t), p, t, <<"xpoip">> \o Rest(p))
             ELSE Xccdec([k EXCEPT !.text[t].lock = FALSE], p, p, <<"xdone">> \o Rest(p)))

\* The process has left its text (at exit its slot is free again).
Left(k, p) == [k EXCEPT !.pt[p].textp = 0, !.pt[p].exiting = FALSE, !.pt[p].victim = Swapper]

\* No pageout of the text is left: the entry is free, its lock open; nobody is woken.
Xpoip(p) ==
  /\ Runs(p, "xpoip")
  /\ LET t == pt[p].textp IN
     BecomeT(IF text[t].poip > 0 THEN [KT EXCEPT !.u[p].chan = OnPoip(t)]
             ELSE Goto([Left(KT, p) EXCEPT !.text[t].lock = FALSE, !.text[t].iptr = 0,
                                           !.text[t].ino = "none"], p, Rest(p)))

Xdone(p) == Runs(p, "xdone") /\ BecomeT(Goto(Left(KT, p), p, Rest(p)))

-----------------------------------------------------------------------------
(***************************************************************************)
(* exec: xalloc attaches to the text of the file, or loads it.             *)
(***************************************************************************)
\* Mutant: the writers are not looked for.
Getxfile_Careless(p) ==
  /\ Runs(p, "getxfile")
  /\ LET k == [KT EXCEPT !.node[u[p].ip].chg = TRUE] IN
     BecomeT(Goto(k, p, IF pt[p].textp = 0 THEN <<"xalloc", "iput">> ELSE <<"xfree", "xalloc", "iput">>))

\* getxfile: a file that is open for writing is not executed; the old text is left first.
Getxfile(p) ==
  /\ Runs(p, "getxfile")
  /\ LET s == u[p].ip
         busy == ~node[s].text /\ node[s].count # 1 /\ \E q \in Proc : u[q].fd = s /\ u[q].fw
         k == [KT EXCEPT !.node[s].chg = TRUE] IN           \* it has been read: IACC
     BecomeT(IF busy THEN PutIp(k, p, <<>>)
             ELSE Goto(k, p, IF pt[p].textp = 0 THEN <<"xalloc", "iput">> ELSE <<"xfree", "xalloc", "iput">>))

Attach(k, p, t) == Xlink([k EXCEPT !.text[t].count = @ + 1, !.pt[p].textp = t], p)

\* A free entry for the file of p, locked: no swap space for it, text that is paged in on
\* demand, or text that is read now.
Load(k, p, t, rest) ==
  LET s == k.u[p].ip
      k1 == [k EXCEPT !.text[t].lock = TRUE, !.text[t].want = FALSE, !.text[t].writ = FALSE]
      k2 == [k1 EXCEPT !.text[t].iptr = s, !.text[t].ino = k.node[s].ino, !.text[t].ccount = 0,
                       !.node[s].text = TRUE, !.node[s].count = @ + 1]
      k3 == Attach(k2, p, t) IN
  {Goto(k1, p, rest),
   Goto(Xunlock([k3 EXCEPT !.text[t].writ = TRUE], t), p, rest),
   [Goto(k3, p, <<"xload">> \o rest) EXCEPT !.pt[p].keep = TRUE]}

\* xalloc: what it may leave behind.
Xalloc(k, p, rest) ==
  LET s == k.u[p].ip
      mine == {t \in Txt : k.text[t].iptr = s /\ k.text[t].count # 0}
      free == {t \in Txt : k.text[t].iptr = 0}
      t0 == CHOOSE t \in IF mine = {} THEN free ELSE mine : TRUE IN
  CASE mine # {} -> IF k.text[t0].lock
                    THEN {[XSleep(k, p, t0, <<"xwait">> \o rest) EXCEPT !.pt[p].xp = t0]}
                    ELSE {Goto(Xunlock(Attach(k, p, t0), t0), p, rest)}
    [] mine = {} /\ free = {} -> {Goto(k, p, rest)}             \* the table is full: SIGKILL
    [] OTHER -> Load(k, p, t0, rest)

XallocFirst(p) == Runs(p, "xalloc") /\ \E k \in Xalloc(KT, p, Rest(p)) : BecomeT(k)

\* Woken in xwait: lock and unlock, then look again.
Xwait(p) ==
  /\ Runs(p, "xwait")
  /\ LET t == pt[p].xp IN
     IF text[t].lock THEN BecomeT(XSleep(KT, p, t, u[p].pc))
     ELSE \E k \in Xalloc(Xunlock(KT, t), p, Rest(p)) : BecomeT([k EXCEPT !.pt[p].xp = k.pt[p].xp])

\* readi has read the text.
Xload(p) ==
  /\ Runs(p, "xload")
  /\ LET t == pt[p].textp IN
     BecomeT(Goto(Xunlock([KT EXCEPT !.text[t].writ = TRUE, !.pt[p].keep = FALSE], t), p, Rest(p)))

\* exit: leave the text, close the file.
Exit(p) ==
  /\ Call(p, "exit") /\ pt[p].load /\ pt[p].textp # 0
  /\ BecomeT([Goto(KT, p, IF u[p].fd = 0 THEN <<"xfree">> ELSE <<"xfree", "closef">>)
                EXCEPT !.pt[p].exiting = TRUE, !.u[p].op = "exit"])

\* fork: the child q shares the text of p, whatever the state of its lock (procdup).
Fork(p, q) ==
  /\ Call(p, "fork") /\ pt[p].load /\ pt[p].textp # 0
  /\ q \notin {p, Swapper} /\ u[q].pc = <<>> /\ pt[q].load /\ pt[q].textp = 0
  /\ BecomeT(Attach(KT, q, pt[p].textp))

-----------------------------------------------------------------------------
(***************************************************************************)
(* Looking for text nobody uses: xrele for one inode (open for writing,    *)
(* unlink), xumount for a file system.                                     *)
(***************************************************************************)
Concerns(p, t) ==
  IF u[p].op = "unmount" THEN text[t].iptr # 0 /\ node[text[t].iptr].mpoint = u[p].mip
  ELSE text[t].iptr = u[p].ip

\* Mutant: the use count does not keep xuntext from freeing the text.
Xuntext1_InUse(k, p, t) ==
  LET k1 == Xiput([k EXCEPT !.node[k.text[t].iptr].text = FALSE], p, t, <<"xscan">> \o Tail(k.u[p].pc)) IN
  [k1 EXCEPT !.text[t].lock = FALSE, !.text[t].iptr = 0]

\* xuntext after its xlock; an entry in use is left alone.
Xuntext1(k, p, t) ==
  IF k.text[t].count # 0 THEN Goto(Xunlock(k, t), p, <<"xscan">> \o Tail(k.u[p].pc))
  ELSE IF k.text[t].iptr = 0 THEN Panic(k, "xuntext")
  ELSE LET k1 == Xiput([k EXCEPT !.node[k.text[t].iptr].text = FALSE], p, t, <<"xscan">> \o Tail(k.u[p].pc)) IN
       [k1 EXCEPT !.text[t].lock = FALSE, !.text[t].iptr = 0]

\* Mutant: the lock of the text is not waited for.
Xuntext_Unlocked(k, p, t) == Xuntext1(k, p, t)

Xuntext(k, p, t) ==
  IF k.text[t].lock THEN XSleep(k, p, t, <<"xuntext">> \o Tail(k.u[p].pc)) ELSE Xuntext1(k, p, t)

\* Woken in the xlock of xuntext or of xccdec.
XlockAgain(p) ==
  /\ Runs(p, "xuntext") \/ Runs(p, "xccdec")
  /\ BecomeT(IF Head(u[p].pc) = "xuntext" THEN Xuntext(KT, p, pt[p].xp)
             ELSE Xccdec(KT, p, pt[p].victim, Rest(p)))

Xscan0(p) ==
  /\ Runs(p, "xscan0")
  /\ BecomeT(IF u[p].op # "unmount" /\ ~node[u[p].ip].text THEN Goto(KT, p, Rest(p))
             ELSE [Goto(KT, p, <<"xscan">> \o Rest(p)) EXCEPT !.pt[p].xp = 0])
Xscan(p) ==
  /\ Runs(p, "xscan")
  /\ LET todo == {t \in Txt : t > pt[p].xp /\ Concerns(p, t)} IN
     IF todo = {} THEN BecomeT([Goto(KT, p, Rest(p)) EXCEPT !.pt[p].xp = 0])
     ELSE LET t == CHOOSE t \in todo : \A r \in todo : t <= r IN
          BecomeT(Xuntext([KT EXCEPT !.pt[p].xp = t], p, t))

\* access for writing: try to free the text; if it stays, ETXTBSY.
Xaccess(p) == Runs(p, "xaccess") /\ BecomeT(Goto(KT, p, <<"xscan0", "xaccess2">> \o Rest(p)))
Xaccess2(p) == /\ Runs(p, "xaccess2")
               /\ BecomeT(IF node[u[p].ip].text THEN PutIp(KT, p, <<>>) ELSE Goto(KT, p, Rest(p)))

-----------------------------------------------------------------------------
(***************************************************************************)
(* The swapper and the pageout daemon.                                     *)
(***************************************************************************)
SwapperFree == Call(Swapper, "swap")

\* swapout: v does not run from now on; xccdec comes after the wait for the swap maps.
Swapout(v) ==
  /\ SwapperFree /\ v # Swapper
  /\ pt[v].load /\ ~pt[v].keep /\ ~pt[v].exiting
  /\ pt[v].textp # 0 /\ ~text[pt[v].textp].lock
  /\ BecomeT([Goto(KT, Swapper, <<"swapout">>) EXCEPT !.pt[v].load = FALSE, !.pt[Swapper].victim = v])
SwapoutText ==
  /\ Runs(Swapper, "swapout")
  /\ BecomeT(Xccdec(KT, Swapper, pt[Swapper].victim, <<>>))

\* swapin: v can run, and its text is not being paged out.
SwapinLock(k, v) ==
  LET t == k.pt[v].textp IN
  IF k.text[t].lock THEN {XSleep(k, Swapper, t, <<"swapin">>)}
  ELSE {Goto([k EXCEPT !.text[t].lock = TRUE], Swapper, <<"swapin2">>),
        Goto(Xunlock(k, t), Swapper, <<>>)}                     \* no memory
Swapin(v) ==
  /\ SwapperFree /\ ~pt[v].load /\ u[v].chan = Awake /\ text[pt[v].textp].poip = 0
  /\ \E k \in SwapinLock([KT EXCEPT !.pt[Swapper].victim = v], v) : BecomeT(k)
SwapinAgain == Runs(Swapper, "swapin") /\ \E k \in SwapinLock(KT, pt[Swapper].victim) : BecomeT(k)
Swapin2 ==
  /\ Runs(Swapper, "swapin2")
  /\ LET v == pt[Swapper].victim IN
     BecomeT(Goto([Xunlock(Xlink(KT, v), pt[v].textp) EXCEPT !.pt[v].load = TRUE], Swapper, <<>>))

\* The pageout daemon pushes a page of the text of a process.
Pageout(t) ==
  /\ run.pageout /\ panic = "" /\ \A p \in Proc : ~Keeps(p)
  /\ text[t].poip = 0
  /\ \E p \in Proc : pt[p].textp = t /\ pt[p].link /\ pt[p].load /\ ~pt[p].exiting
  /\ BecomeT([KT EXCEPT !.text[t].poip = 1])

\* Mutant: the end of a push wakes nobody.
Cleanup_Silent(t) ==
  /\ panic = "" /\ \A p \in Proc : ~Keeps(p)
  /\ text[t].poip = 1
  /\ BecomeT([KT EXCEPT !.text[t].poip = 0])

\* cleanup ends the push and wakes the process that waits to free the text.
Cleanup(t) ==
  /\ panic = "" /\ \A p \in Proc : ~Keeps(p)
  /\ text[t].poip = 1
  /\ BecomeT(Wakeup([KT EXCEPT !.text[t].poip = 0], OnPoip(t)))

-----------------------------------------------------------------------------
TextInit == Init /\ text = [t \in Txt |-> NoText] /\ pt = [p \in Proc |-> NoUser]

TextStep(p) ==
  \/ pt[p].load /\ InodeStep(p) /\ UNCHANGED <<text, pt>>
  \/ Xfree(p) \/ Xswapped(p) \/ Xpoip(p) \/ Xdone(p)
  \/ Getxfile(p) \/ XallocFirst(p) \/ Xwait(p) \/ Xload(p) \/ Exit(p) \/ \E q \in Proc : Fork(p, q)
  \/ XlockAgain(p) \/ Xscan0(p) \/ Xscan(p) \/ Xaccess(p) \/ Xaccess2(p)
SwapStep == SwapoutText \/ SwapinAgain \/ Swapin2 \/ \E v \in Proc : Swapout(v) \/ Swapin(v)
TextNext == (\E p \in Proc : TextStep(p)) \/ SwapStep \/ \E t \in Txt : Pageout(t) \/ Cleanup(t)

textvars == <<vars, text, pt>>
TextSpec == TextInit /\ [][TextNext]_textvars

-----------------------------------------------------------------------------
(***************************************************************************)
(* Properties.                                                             *)
(***************************************************************************)
\* The types, and no panic.
TextTypeOK ==
  /\ InodeTypeOK /\ NoPanic
  /\ text \in [Txt -> [iptr : {0} \cup Slot, count : Nat, ccount : Nat, lock : BOOLEAN, want : BOOLEAN,
                       writ : BOOLEAN, poip : 0..1, ino : Inos]]
  /\ pt \in [Proc -> [textp : {0} \cup Txt, link : BOOLEAN, load : BOOLEAN, keep : BOOLEAN,
                      exiting : BOOLEAN, xp : {0} \cup Txt, victim : Proc]]

\* Part of CountsExact: i_count is the number of references, that of a text in use among them.
InodeCountsTexts ==
  \A s \in Slot : node[s].count = Refs(s) + Cardinality({t \in Txt : text[t].iptr = s /\ text[t].count > 0})

In(p, l) == \E i \in DOMAIN u[p].pc : u[p].pc[i] = l
Users(t) == {p \in Proc : pt[p].textp = t /\ ~In(p, "xpoip") /\ ~In(p, "xdone")}
Loaders(t) == {p \in Proc : pt[p].textp = t /\ pt[p].link}
TextHolders(t) == {p \in Proc : \/ pt[p].textp = t /\ (In(p, "xpoip") \/ In(p, "xload"))
                                \/ pt[pt[p].victim].textp = t /\ (In(p, "xswapped") \/ In(p, "swapin2"))}

\* Part of CountsExact: x_count is the number of processes that run the text, x_ccount that of
\* those in core with it (one less while the last of them is being swapped out).
TextCounts ==
  \A t \in Txt : text[t].iptr # 0 /\ text[t].count > 0 =>
    /\ text[t].count = Cardinality(Users(t))
    /\ text[t].ccount = Cardinality(Loaders(t)) -
         Cardinality({p \in Proc : In(p, "xswapped") /\ pt[pt[p].victim].textp = t})

\* The counts that decide when an inode or a text is given up are exact, however many processes
\* took and dropped references in between.
CountsExact == InodeCountsTexts /\ TextCounts

\* A locked inode or text is locked by one process, and one that is not locked by none.
LocksHaveOneOwner ==
  /\ \A s \in Slot : LockedByOne(s)
  /\ \A t \in Txt : text[t].iptr # 0 => Cardinality(TextHolders(t)) = IF text[t].lock THEN 1 ELSE 0

\* The inode of an open file stays the one it was when it was opened; a text in use keeps its
\* inode, which is marked; and a file has one text.
UseKeepsInode ==
  /\ \A p \in Proc : u[p].fd # 0 => node[u[p].fd].ino = u[p].fino
  /\ \A t \in Txt : text[t].count > 0 =>
       \E s \in Slot : text[t].iptr = s /\ node[s].ino = text[t].ino /\ node[s].text
  /\ \A t, r \in Txt : t # r /\ text[t].count > 0 /\ text[r].count > 0 => text[t].ino # text[r].ino

\* A file that is being executed is not open for writing.
RunningTextIsNotWritten ==
  \A t \in Txt, p \in Proc : text[t].count > 0 /\ u[p].fw => u[p].fd # text[t].iptr

\* While someone sleeps there is someone to come back to: a process in the kernel that is
\* awake, or a pageout that is being waited for.
SomeoneMoves ==
  (\E p \in Proc : u[p].chan # Awake) =>
    \/ \E q \in Proc : u[q].chan = Awake /\ u[q].pc # <<>>
    \/ \E q \in Proc, t \in Txt : u[q].chan = OnPoip(t) /\ text[t].poip > 0

\* Nobody sleeps for the lock of a text that is free.
NoTextSleeperForgotten ==
  \A p \in Proc, t \in Txt : u[p].chan = OnText(t) => text[t].lock
=============================================================================
