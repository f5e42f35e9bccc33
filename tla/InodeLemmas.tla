---------------------------- MODULE InodeLemmas ----------------------------
(***************************************************************************)
(* What the kernel keeps true of inodes, for any number of processes,      *)
(* slots, files and texts: the invariant, and what keeps it.               *)
(*                                                                         *)
(* The invariant is Good.  Its first part, Core, is the books: where a     *)
(* process is tells what it has in hand (HandOK), every count is the       *)
(* number of hands, mounts and texts that refer to the slot (CountInv), a  *)
(* lock has the one owner who has to drop it (LockInv), a sleeper will be  *)
(* called (SleepInv), and the table and the free list are one inode to a   *)
(* slot (TableInv).  Its second part, Mounts, is what is mounted and who   *)
(* is on the way there.  PutOK is what iput relies on when it lets the     *)
(* processor go between the last reference and the free slot.              *)
(*                                                                         *)
(* All is said of the kernel as a record k, the K of InodeCache, and of    *)
(* references X that texts have, whatever these are: TextTable adds steps  *)
(* to those of InodeCache, and these lemmas hold for it too.               *)
(***************************************************************************)
EXTENDS InodeCache, TLAPS, FiniteSetTheorems, SequenceTheorems

-----------------------------------------------------------------------------
(* The stack of routines. *)
Bot(pc) == IF pc = <<>> THEN "" ELSE pc[Len(pc)]
\* The routine on top of the stack.
Top(pc) == IF pc = <<>> THEN "" ELSE Head(pc)

\* The routines at the bottom of a stack, by what the process has: a directory in dip,
WithDip == {"more", "got", "dormfile", "rmname", "putdir", "ialloc", "ialloc2", "restock",
            "domkfile", "mkinode", "mkname", "fson3"}

\* an inode in ip,
WithIp == {"rmname", "mkinode", "mkname", "iput", "open1", "fson", "fson2", "funmount", "getxfile"}
\* an inode in ip or none,
PerhapsIp == {"dir", "more", "got", "dormfile", "putdir", "ialloc2", "domkfile", "fson3"}
\* a root it takes away, in rip,
WithRip == {"fsoff", "unhang", "iputrip"}
\* a directory that is mounted on, in mip;
WithMip == {"fsoff", "unhang", "plockdir"}
\* all that stand at the bottom,
LastL == WithDip \cup WithIp \cup PerhapsIp \cup WithRip \cup WithMip
         \cup {"fsoffend", "closef", "swapout", "swapin", "swapin2"}

\* all that stand on top and call none,
LeafL == {"fstrunc", "fsiupdat", "iget", "fsiread", "upput"}
\* and the others.
MidL == {"trunc", "update0", "update", "xaccess", "xaccess2", "xscan0", "xscan", "xuntext", "xalloc",
         "xwait", "xload", "xfree", "xpoip", "xdone", "xswapped", "xccdec"}

Label == LastL \cup MidL \cup LeafL

\* Where a routine may stand: over which one at the bottom.
Below(l, b) ==
  /\ l \in {"iget", "fsiread"} => b \in {"dir", "more", "got", "dormfile", "ialloc2", "fson3"}
  /\ l \in {"trunc", "xaccess", "xaccess2"} => b = "open1"
  /\ l \in {"xscan0", "xscan", "xuntext"} => b \in {"open1", "rmname", "fsoff"}
  /\ l \in {"xalloc", "xwait", "xload"} => b = "iput"
  /\ l \in {"xfree", "xpoip", "xdone"} => b \in {"iput", "closef", "xfree", "xpoip", "xdone"}
  /\ l \in {"update0", "update", "upput"} => b \in {"fsoff", "iputrip", "update0", "update", "upput"}
  /\ l \in {"xswapped", "xccdec"} => b \in {"xswapped", "xccdec", "iput", "closef", "xdone"}

\* A stack of routines.
StackOK(pc) == \A i \in 1..Len(pc) : /\ pc[i] \in LastL => i = Len(pc)
                                     /\ pc[i] \in LeafL => i = 1
                                     /\ Below(pc[i], pc[Len(pc)])

\* What stands at the bottom of a stack with one more routine on it.
LEMMA PushSeq ==
  ASSUME NEW S, NEW pc \in Seq(S), NEW l \in S
  PROVE  LET pc1 == <<l>> \o pc IN
         /\ <<l>> \in Seq(S) /\ pc1 \in Seq(S)
         /\ pc1[Len(pc1)] = IF pc = <<>> THEN l ELSE pc[Len(pc)]
<1>1. <<l>> \in Seq(S) OBVIOUS
<1>2. <<l>> \o pc \in Seq(S) BY <1>1, ConcatProperties
<1>3. LET pc1 == <<l>> \o pc IN pc1[Len(pc1)] = IF pc = <<>> THEN l ELSE pc[Len(pc)] OBVIOUS
<1>4. QED BY <1>1, <1>2, <1>3

\* A stack of one routine.
LEMMA OneSeq ==
  ASSUME NEW S, NEW pc \in Seq(S), pc # <<>>, Tail(pc) = <<>>
  PROVE  pc = <<Head(pc)>> /\ pc[Len(pc)] = Head(pc)
<1>0. Len(Tail(pc)) = Len(pc) - 1 OBVIOUS
<1>1. Head(pc) \in S /\ Head(pc) = pc[1] OBVIOUS
<1>2. Len(pc) = 1
  <2>1. Len(pc) \in Nat OBVIOUS
  <2>2a. Len(<<>>) = 0 OBVIOUS
  <2>2b. ASSUME NEW t, t = <<>> PROVE Len(t) = 0 BY <2>2a, <2>2b
  <2>2. Len(Tail(pc)) = 0 BY <2>2b
  <2> DEFINE l == Len(pc)
  <2>3. 0 = l - 1 /\ l \in Nat BY <1>0, <2>1, <2>2
  <2> HIDE DEF l
  <2>4. l = 1 BY <2>3
  <2>5. QED BY <2>4 DEF l
<1>3. <<Head(pc)>> \in Seq(S) /\ Len(<<Head(pc)>>) = 1 /\ <<Head(pc)>>[1] = pc[1] BY <1>1
<1>4. pc = <<Head(pc)>> BY <1>2, <1>3, SeqEqual
<1>5. QED BY <1>2, <1>4

\* A call: a routine that may stand on this stack is put on it.
LEMMA StackPush ==
  ASSUME NEW pc \in Seq(Label), StackOK(pc), NEW l \in Label,
         pc = <<>> \/ l \notin LastL, Top(pc) \notin LeafL,
         Below(l, IF pc = <<>> THEN l ELSE Bot(pc))
  PROVE  LET pc1 == <<l>> \o pc IN
         /\ pc1 \in Seq(Label) /\ pc1 # <<>> /\ StackOK(pc1)
         /\ Top(pc1) = l /\ Bot(pc1) = IF pc = <<>> THEN l ELSE Bot(pc)
<1> DEFINE pc1 == <<l>> \o pc
<1>b. pc1 \in Seq(Label) BY PushSeq
<1>b2. pc1[Len(pc1)] = IF pc = <<>> THEN l ELSE pc[Len(pc)] BY PushSeq
<1>c. Len(pc1) = Len(pc) + 1 OBVIOUS
<1>d. pc1[1] = l OBVIOUS
<1>e. Head(pc1) = l OBVIOUS
<1>f. pc1 # <<>> OBVIOUS
<1>g. \A i \in 1..Len(pc) : pc1[i + 1] = pc[i] OBVIOUS
<1>h. Len(pc) \in Nat /\ pc # <<>> => Len(pc) \in 1..Len(pc) OBVIOUS
<1> HIDE DEF pc1
<1>1. /\ pc1 \in Seq(Label) /\ Len(pc1) = Len(pc) + 1 /\ pc1[1] = l /\ Head(pc1) = l /\ pc1 # <<>>
      /\ \A i \in 1..Len(pc) : pc1[i + 1] = pc[i]
  BY <1>b, <1>c, <1>d, <1>e, <1>f, <1>g
<1>2. Top(pc1) = l BY <1>1 DEF Top
<1>3. pc1[Len(pc1)] = IF pc = <<>> THEN l ELSE Bot(pc)
  BY <1>b2 DEF Bot
<1>4. \A i \in 1..Len(pc1) : i = 1 \/ (i - 1 \in 1..Len(pc) /\ pc1[i] = pc[i - 1])
  BY <1>1
<1>5. pc # <<>> => pc[1] \notin LeafL BY DEF Top
<1>6. ASSUME NEW i \in 1..Len(pc1)
      PROVE  /\ pc1[i] \in LastL => i = Len(pc1)
             /\ pc1[i] \in LeafL => i = 1
             /\ Below(pc1[i], pc1[Len(pc1)])
  <2>1. CASE i = 1
    <3>1. pc = <<>> => Len(pc1) = 1 BY <1>1
    <3>2. QED BY <2>1, <3>1, <1>1, <1>3
  <2>2. CASE i # 1
    <3>1. i - 1 \in 1..Len(pc) /\ pc1[i] = pc[i - 1] BY <2>2, <1>4
    <3>2. /\ pc[i - 1] \in LastL => i - 1 = Len(pc)
          /\ pc[i - 1] \in LeafL => i - 1 = 1
          /\ Below(pc[i - 1], pc[Len(pc)])
      BY <3>1 DEF StackOK
    <3>3a. pc # <<>> BY <3>1
    <3>3. pc1[Len(pc1)] = pc[Len(pc)] BY <3>3a, <1>b2
    <3>4. QED BY <3>1, <3>2, <3>3, <1>1, <1>5
  <2>3. QED BY <2>1, <2>2
<1>7. QED BY <1>1, <1>2, <1>3, <1>6 DEF StackOK, Bot, pc1

\* A return: the routine on top is taken off.
LEMMA StackPop ==
  ASSUME NEW pc \in Seq(Label), StackOK(pc), pc # <<>>
  PROVE  /\ Tail(pc) \in Seq(Label) /\ StackOK(Tail(pc))
         /\ Top(Tail(pc)) \notin LeafL
         /\ Tail(pc) # <<>> => Bot(Tail(pc)) = Bot(pc) /\ Top(pc) \notin LastL
         /\ Tail(pc) = <<>> => Bot(pc) = Top(pc) /\ pc = <<Top(pc)>>
         /\ Below(Top(pc), Bot(pc))
         /\ Top(pc) \in LastL => Tail(pc) = <<>>
<1> DEFINE t == Tail(pc)
<1>0. t = Tail(pc) OBVIOUS
<1>1. /\ t \in Seq(Label) /\ Len(t) = Len(pc) - 1 /\ Head(pc) = pc[1] /\ Len(pc) > 0
      /\ \A i \in 1..Len(t) : t[i] = pc[i + 1] /\ i + 1 \in 1..Len(pc)
  OBVIOUS
<1> HIDE DEF t
<1>2. t # <<>> => Len(t) > 0 /\ t[Len(t)] = pc[Len(pc)] /\ Head(t) = pc[2] /\ 2 \in 1..Len(pc) /\ Len(pc) > 1
  BY <1>1
<1>3. t = <<>> => Len(pc) = 1 BY <1>1
<1>4a. 1 \in 1..Len(pc) /\ (Len(pc) = 1 => t = <<>>) BY <1>1
<1>4b. /\ pc[1] \in LastL => 1 = Len(pc)
       /\ Below(pc[1], pc[Len(pc)])
  BY <1>4a DEF StackOK
<1>4. pc[1] \in LastL => t = <<>> BY <1>4a, <1>4b
<1>5. Below(pc[1], pc[Len(pc)]) BY <1>4b
<1>6. ASSUME 2 \in 1..Len(pc) PROVE pc[2] \notin LeafL
  <2>1. pc[2] \in LeafL => 2 = 1 BY <1>6 DEF StackOK
  <2>2. QED BY <2>1
<1>7. t = <<>> => pc = <<pc[1]>> /\ pc[Len(pc)] = pc[1] BY <1>0, <1>1, OneSeq
<1>8. StackOK(t)
  <2> SUFFICES ASSUME NEW i \in 1..Len(t)
               PROVE /\ t[i] \in LastL => i = Len(t)
                     /\ t[i] \in LeafL => i = 1
                     /\ Below(t[i], t[Len(t)])
    BY DEF StackOK
  <2>1a. i + 1 \in 1..Len(pc) /\ t[i] = pc[i + 1] BY <1>1
  <2>1b. Len(t) # 0 BY <1>1
  <2>1. i + 1 \in 1..Len(pc) /\ t[i] = pc[i + 1] /\ t # <<>> BY <2>1a, <2>1b
  <2>2. /\ pc[i + 1] \in LastL => i + 1 = Len(pc)
        /\ pc[i + 1] \in LeafL => i + 1 = 1
        /\ Below(pc[i + 1], pc[Len(pc)])
    BY <2>1 DEF StackOK
  <2> HIDE DEF t
  <2>3. QED BY <2>1, <2>2, <1>1, <1>2
<1>10. Top(pc) = pc[1] /\ Bot(pc) = pc[Len(pc)] BY <1>1 DEF Top, Bot
<1>11. Top(t) \notin LeafL
  <2>1. CASE t = <<>> BY <2>1 DEF Top, LeafL
  <2>2. CASE t # <<>> BY <2>2, <1>2, <1>6 DEF Top
  <2>3. QED BY <2>1, <2>2
<1>12. t # <<>> => Bot(t) = Bot(pc) BY <1>10, <1>2 DEF Bot
<1>13. QED BY <1>0, <1>1, <1>4, <1>5, <1>7, <1>8, <1>10, <1>11, <1>12

-----------------------------------------------------------------------------
(* Types. *)
Opt == {0} \cup Slot
\* The fields of an inode, of a process, of the super block and the disk, and of the kernel.
NodeF == {"ino", "count", "lock", "want", "text", "mode", "nlink", "chg", "mroot", "mpoint"}
UserF == {"pc", "chan", "op", "name", "key", "ip", "dip", "put", "up", "rip", "mip",
          "fd", "fino", "fw"}

FsF == {"disk", "dir", "sinode", "ilock", "updlock", "mdev"}
Five == {"node", "freel", "u", "fs", "panic"}

\* An inode, a process, a super block and the disk have the types of InodeCache.
NodeOK(r) == /\ r = [f \in NodeF |-> r[f]]
             /\ r.ino \in Inos /\ r.count \in Int /\ r.lock \in BOOLEAN /\ r.want \in BOOLEAN
             /\ r.mroot \in Opt /\ r.mpoint \in Opt

UserOK(c) == /\ c = [f \in UserF |-> c[f]]
             /\ c.pc \in Seq(Label) /\ c.key \in Inos
             /\ c.ip \in Opt /\ c.dip \in Opt /\ c.put \in Opt /\ c.up \in Opt
             /\ c.rip \in Opt /\ c.mip \in Opt /\ c.fd \in Opt

\* The files of the file system, and the directory that stands for all below its root.
InFs == File \cup {"sub"}
FsOK(f) == /\ f = [x \in FsF |-> f[x]]
           /\ f.dir = [n \in Name |-> f.dir[n]] /\ \A n \in Name : f.dir[n] \in InFs \cup {"none"}
           /\ f.sinode \in Seq(Inos \ {"none"}) /\ f.ilock \in BOOLEAN

NodesOK(n) == n = [s \in Slot |-> n[s]] /\ \A s \in Slot : NodeOK(n[s])
UsersOK(w) == w = [p \in Proc |-> w[p]] /\ \A p \in Proc : UserOK(w[p])
Shape(k) == k = [x \in DOMAIN k |-> k[x]] /\ Five \subseteq DOMAIN k
Types(k) == /\ Shape(k) /\ NodesOK(k.node) /\ UsersOK(k.u) /\ FsOK(k.fs)
            /\ k.freel \in Seq(Slot)

\* c1 is c gone on with pc: the end of a call leaves it its open file only.
GoneTo(c, c1, pc) ==
  /\ c1.pc = pc /\ c1.fd = c.fd /\ c1.fino = c.fino /\ c1.fw = c.fw
  /\ pc # <<>> => \A f \in UserF \ {"pc"} : c1[f] = c[f]
  /\ pc = <<>> => /\ c1.ip = 0 /\ c1.dip = 0 /\ c1.put = 0 /\ c1.up = 0 /\ c1.rip = 0
                  /\ c1.mip = 0 /\ c1.chan = Awake /\ c1.op = ""

\* All but the processes is the same, and only p is another one.
Only(k, k1, p) == /\ k1.node = k.node /\ k1.freel = k.freel /\ k1.fs = k.fs /\ k1.panic = k.panic
                  /\ \A q \in Proc \ {p} : k1.u[q] = k.u[q]

\* NULL is no slot.
LEMMA SlotFacts == 0 \notin Slot /\ Slot \subseteq Nat /\ Slot \subseteq Opt /\ 0 \in Opt
BY DEF Slot, Opt

\* Goto changes nothing but the process, and at the end of a call leaves it only its open file.
LEMMA GotoEff ==
  ASSUME NEW k, Types(k), NEW p \in Proc, NEW pc \in Seq(Label)
  PROVE  LET k1 == Goto(k, p, pc) IN Types(k1) /\ Only(k, k1, p) /\ GoneTo(k.u[p], k1.u[p], pc)
<1> DEFINE k1 == Goto(k, p, pc)
           c == k.u[p]
<1>0. c = [f \in UserF |-> c[f]] /\ k.u = [q \in Proc |-> k.u[q]] /\ UserOK(c) /\ \A q \in Proc : UserOK(k.u[q])
  BY DEF Types, UsersOK, UserOK
<1>1. CASE pc = <<>>
  <2> DEFINE d == [Idle EXCEPT !.fd = c.fd, !.fino = c.fino, !.fw = c.fw]
  <2>1. GoneTo(c, d, pc) /\ d = [f \in UserF |-> d[f]] /\ d.key = "none"
    BY <1>1 DEF GoneTo, Idle, UserF
  <2>2. UserOK(d)
    BY <2>1, <1>0, <1>1, SlotFacts DEF UserOK, GoneTo, Inos
  <2>3. k1 = [k EXCEPT !.u[p] = d] BY <1>1 DEF Goto
  <2> HIDE DEF k1, d
  <2>4. Shape(k1) /\ Only(k, k1, p) /\ k1.u = [k.u EXCEPT ![p] = d]
    BY <2>3, <1>0 DEF Types, Shape, Five, Only
  <2>5. UsersOK(k1.u) /\ k1.u[p] = d BY <2>4, <2>2, <1>0 DEF UsersOK
  <2>6. QED BY <2>1, <2>4, <2>5 DEF Types, Only, k1
<1>2. CASE pc # <<>>
  <2> DEFINE d == [c EXCEPT !.pc = pc]
  <2>1. GoneTo(c, d, pc) /\ d = [f \in UserF |-> d[f]]
    BY <1>2, <1>0 DEF GoneTo, UserF
  <2>2. UserOK(d)
    BY <2>1, <1>0, <1>2 DEF UserOK, GoneTo, UserF
  <2>3. k1 = [k EXCEPT !.u[p].pc = pc] BY <1>2 DEF Goto
  <2>4. Shape(k1) /\ k1.u = [k.u EXCEPT ![p].pc = pc] /\ k1.node = k.node /\ k1.freel = k.freel /\ k1.fs = k.fs /\ k1.panic = k.panic
    BY <2>3 DEF Types, Shape, Five
  <2>5. k1.u = [k.u EXCEPT ![p] = d] BY <2>4, <1>0
  <2> HIDE DEF k1, d
  <2>6. Only(k, k1, p) BY <2>4, <2>5, <1>0 DEF Only
  <2>7. UsersOK(k1.u) /\ k1.u[p] = d BY <2>5, <2>2, <1>0 DEF UsersOK
  <2>8. QED BY <2>1, <2>4, <2>6, <2>7 DEF Types, Only, k1
<1>3. QED BY <1>1, <1>2

\* What an operation does to one slot, and what a wakeup does to the processes.
KeepN(r, r1, S) == \A f \in NodeF \ S : r1[f] = r[f]
\* the process c1 those of c, but for the fields S.
KeepU(c, c1, S) == \A f \in UserF \ S : c1[f] = c[f]
\* Only the inode in slot s is another one.
NodeBut(k, k1, s) == \A t \in Slot \ {s} : k1.node[t] = k.node[t]
\* Neither list, disk nor panic is changed.
SameRest(k, k1) == k1.freel = k.freel /\ k1.fs = k.fs /\ k1.panic = k.panic
\* Who slept on c is awake.
Woken(k, k1, c) == \A q \in Proc : /\ KeepU(k.u[q], k1.u[q], {"chan"})
                                   /\ k1.u[q].chan = IF k.u[q].chan = c THEN Awake ELSE k.u[q].chan

\* One slot of the table gets a new record.
LEMMA SetNode ==
  ASSUME NEW k, Types(k), NEW s \in Slot, NEW r, NodeOK(r)
  PROVE  LET k1 == [k EXCEPT !.node[s] = r] IN
         Types(k1) /\ SameRest(k, k1) /\ k1.u = k.u /\ NodeBut(k, k1, s) /\ k1.node[s] = r
<1> DEFINE k1 == [k EXCEPT !.node[s] = r]
<1>1. Shape(k1) /\ k1.u = k.u /\ k1.freel = k.freel /\ k1.fs = k.fs /\ k1.panic = k.panic
      /\ k1.node = [k.node EXCEPT ![s] = r]
  BY DEF Types, Shape, Five
<1> HIDE DEF k1
<1>2. NodesOK(k.node) BY DEF Types
<1>3. NodesOK(k1.node) /\ NodeBut(k, k1, s) /\ k1.node[s] = r
  BY <1>1, <1>2 DEF NodesOK, NodeBut
<1>4. QED BY <1>1, <1>3 DEF Types, SameRest, k1

\* One process gets a new record.
LEMMA SetUser ==
  ASSUME NEW k, Types(k), NEW p \in Proc, NEW c, UserOK(c)
  PROVE  LET k1 == [k EXCEPT !.u[p] = c] IN Types(k1) /\ Only(k, k1, p) /\ k1.u[p] = c
<1> DEFINE k1 == [k EXCEPT !.u[p] = c]
<1>1. Shape(k1) /\ k1.node = k.node /\ k1.freel = k.freel /\ k1.fs = k.fs /\ k1.panic = k.panic
      /\ k1.u = [k.u EXCEPT ![p] = c]
  BY DEF Types, Shape, Five
<1> HIDE DEF k1
<1>2. UsersOK(k.u) BY DEF Types
<1>3. UsersOK(k1.u) /\ k1.u[p] = c /\ \A q \in Proc \ {p} : k1.u[q] = k.u[q]
  BY <1>1, <1>2 DEF UsersOK
<1>4. QED BY <1>1, <1>3 DEF Types, Only, k1

\* wakeup takes sleepers off their channel and changes nothing else.
LEMMA WakeupEff ==
  ASSUME NEW k, Types(k), NEW c
  PROVE  LET k1 == Wakeup(k, c) IN
         Types(k1) /\ SameRest(k, k1) /\ k1.node = k.node /\ Woken(k, k1, c)
<1> DEFINE k1 == Wakeup(k, c)
           w == [q \in Proc |-> IF k.u[q].chan = c THEN [k.u[q] EXCEPT !.chan = Awake] ELSE k.u[q]]
<1>1. k.u = [q \in Proc |-> k.u[q]] /\ DOMAIN k.u = Proc /\ \A q \in Proc : UserOK(k.u[q])
  BY DEF Types, UsersOK
<1>2. Shape(k1) /\ k1.node = k.node /\ k1.freel = k.freel /\ k1.fs = k.fs /\ k1.panic = k.panic
      /\ k1.u = w
  BY <1>1 DEF Types, Shape, Five, Wakeup
<1>3. ASSUME NEW q \in Proc
      PROVE  /\ UserOK(w[q]) /\ KeepU(k.u[q], w[q], {"chan"})
             /\ w[q].chan = IF k.u[q].chan = c THEN Awake ELSE k.u[q].chan
  <2> DEFINE d == [k.u[q] EXCEPT !.chan = Awake]
  <2>1. UserOK(k.u[q]) /\ k.u[q] = [f \in UserF |-> k.u[q][f]] BY <1>1 DEF UserOK
  <2>2. d = [f \in UserF |-> d[f]] /\ d.chan = Awake /\ KeepU(k.u[q], d, {"chan"})
    BY <2>1 DEF UserF, KeepU
  <2> HIDE DEF d
  <2>3. UserOK(d) BY <2>1, <2>2 DEF UserOK, KeepU, UserF
  <2>4. w[q] = IF k.u[q].chan = c THEN d ELSE k.u[q] BY DEF d
  <2> HIDE DEF w
  <2>5. QED BY <2>1, <2>2, <2>3, <2>4 DEF KeepU
<1>4. UsersOK(w) BY <1>3 DEF UsersOK
<1> HIDE DEF k1, w
<1>5. QED BY <1>2, <1>3, <1>4 DEF Types, SameRest, Woken, k1

\* Taking a lock.
LEMMA LockEff ==
  ASSUME NEW k, Types(k), NEW s \in Slot
  PROVE  LET k1 == Lock(k, s) IN
         /\ Types(k1) /\ SameRest(k, k1) /\ k1.u = k.u /\ NodeBut(k, k1, s)
         /\ KeepN(k.node[s], k1.node[s], {"lock"}) /\ k1.node[s].lock
<1> DEFINE r == [k.node[s] EXCEPT !.lock = TRUE]
<1>1. NodeOK(k.node[s]) /\ k.node[s] = [f \in NodeF |-> k.node[s][f]] BY DEF Types, NodesOK, NodeOK
<1>2. r = [f \in NodeF |-> r[f]] /\ r.lock = TRUE /\ KeepN(k.node[s], r, {"lock"})
  BY <1>1 DEF NodeF, KeepN
<1>3. Lock(k, s) = [k EXCEPT !.node[s] = r]
  BY DEF Lock
<1> HIDE DEF r
<1>4. NodeOK(r) BY <1>1, <1>2 DEF NodeOK, KeepN, NodeF
<1>5. QED BY <1>2, <1>3, <1>4, SetNode

\* prele: the lock is dropped, and whoever wanted it is called.
LEMMA PreleEff ==
  ASSUME NEW k, Types(k), NEW s \in Slot
  PROVE  LET k1 == Prele(k, s) IN
         /\ Types(k1) /\ SameRest(k, k1) /\ NodeBut(k, k1, s)
         /\ KeepN(k.node[s], k1.node[s], {"lock", "want"}) /\ ~k1.node[s].lock
         /\ \A q \in Proc : /\ KeepU(k.u[q], k1.u[q], {"chan"})
                            /\ k1.u[q].chan = IF k.node[s].want /\ k.u[q].chan = On(s) THEN Awake
                                              ELSE k.u[q].chan
<1> DEFINE r == [k.node[s] EXCEPT !.lock = FALSE, !.want = FALSE]
           k2 == [k EXCEPT !.node[s] = r]
<1>1. NodeOK(k.node[s]) /\ k.node[s] = [f \in NodeF |-> k.node[s][f]] BY DEF Types, NodesOK, NodeOK
<1>2. r = [f \in NodeF |-> r[f]] /\ r.lock = FALSE /\ r.want = FALSE /\ KeepN(k.node[s], r, {"lock", "want"})
  BY <1>1 DEF NodeF, KeepN
<1>3. [k EXCEPT !.node[s].lock = FALSE, !.node[s].want = FALSE] = k2
  BY DEF Types, Shape, Five, NodesOK
<1>4. Prele(k, s) = IF k.node[s].want THEN Wakeup(k2, On(s)) ELSE k2
  BY <1>3 DEF Prele
<1> HIDE DEF r
<1>5. NodeOK(r) BY <1>1, <1>2 DEF NodeOK, KeepN, NodeF
<1>6. Types(k2) /\ SameRest(k, k2) /\ k2.u = k.u /\ NodeBut(k, k2, s) /\ k2.node[s] = r
  BY <1>5, SetNode
<1> HIDE DEF k2
<1>7. ~r.lock BY <1>2
<1>8. CASE k.node[s].want
  <2>1. Prele(k, s) = Wakeup(k2, On(s)) BY <1>4, <1>8
  <2> DEFINE k3 == Wakeup(k2, On(s))
  <2>2. Types(k3) /\ SameRest(k2, k3) /\ k3.node = k2.node /\ Woken(k2, k3, On(s))
    BY <1>6, WakeupEff
  <2> HIDE DEF k3
  <2>3. QED BY <2>1, <2>2, <1>2, <1>6, <1>7, <1>8 DEF SameRest, NodeBut, Woken, k3
<1>9. CASE ~k.node[s].want
  <2>1. Prele(k, s) = k2 BY <1>4, <1>9
  <2>2. QED BY <2>1, <1>2, <1>6, <1>7, <1>9 DEF SameRest, NodeBut, KeepU
<1>10. QED BY <1>8, <1>9

\* The super block and the disk f1 are f but for the fields S.
KeepF(f, f1, S) == \A x \in FsF \ S : f1[x] = f[x]

\* What prele does to the processes.
Called(k, k1, s) == \A q \in Proc : /\ KeepU(k.u[q], k1.u[q], {"chan"})
                                    /\ k1.u[q].chan = IF k.node[s].want /\ k.u[q].chan = On(s) THEN Awake
                                                      ELSE k.u[q].chan

\* The disk and the super block get a new record.
LEMMA SetFs ==
  ASSUME NEW k, Types(k), NEW f, FsOK(f)
  PROVE  LET k1 == [k EXCEPT !.fs = f] IN
         Types(k1) /\ k1.node = k.node /\ k1.u = k.u /\ k1.freel = k.freel /\ k1.panic = k.panic /\ k1.fs = f
BY DEF Types, Shape, Five

\* ifree touches nothing but the list of free numbers.
LEMMA IfreeEff ==
  ASSUME NEW k, Types(k), NEW i \in Inos \ {"none"}
  PROVE  LET k1 == Ifree(k, i) IN
         /\ Types(k1) /\ k1.node = k.node /\ k1.u = k.u /\ k1.freel = k.freel /\ k1.panic = k.panic
         /\ KeepF(k.fs, k1.fs, {"sinode"})
<1>1. CASE k.fs.ilock \/ Len(k.fs.sinode) >= NICINOD
  BY <1>1 DEF Ifree, KeepF
<1>2. CASE ~(k.fs.ilock \/ Len(k.fs.sinode) >= NICINOD)
  <2> DEFINE f == [k.fs EXCEPT !.sinode = Append(@, i)]
  <2>1. FsOK(k.fs) BY DEF Types
  <2>2. f = [x \in FsF |-> f[x]] /\ KeepF(k.fs, f, {"sinode"}) /\ f.sinode = Append(k.fs.sinode, i)
    BY <2>1 DEF FsOK, FsF, KeepF
  <2>3. Ifree(k, i) = [k EXCEPT !.fs = f] BY <1>2 DEF Ifree
  <2> HIDE DEF f
  <2>4. Append(k.fs.sinode, i) \in Seq(Inos \ {"none"}) BY <2>1 DEF FsOK
  <2>5. FsOK(f) BY <2>1, <2>2, <2>4 DEF FsOK, KeepF, FsF
  <2>6. QED BY <2>2, <2>3, <2>5, SetFs
<1>3. QED BY <1>1, <1>2

\* The end of idec: the slot is free, at the head of the list, its sleepers called.
LEMMA UnhashEff ==
  ASSUME NEW k, Types(k), NEW s \in Slot, k.node[s].ino # "none"
  PROVE  LET k1 == Unhash(k, s) IN
         /\ Types(k1) /\ k1.fs = k.fs /\ k1.panic = k.panic /\ k1.freel = <<s>> \o k.freel
         /\ NodeBut(k, k1, s) /\ Called(k, k1, s)
         /\ KeepN(k.node[s], k1.node[s], {"lock", "want", "ino", "text", "chg", "count"})
         /\ ~k1.node[s].lock /\ k1.node[s].ino = "none" /\ k1.node[s].count = k.node[s].count - 1
<1> DEFINE k2 == Prele(k, s)
           r == [k2.node[s] EXCEPT !.ino = "none", !.text = FALSE, !.chg = FALSE,
                                   !.count = k.node[s].count - 1]
           k1 == Unhash(k, s)
<1>1. Types(k2) /\ SameRest(k, k2) /\ NodeBut(k, k2, s) /\ Called(k, k2, s)
      /\ KeepN(k.node[s], k2.node[s], {"lock", "want"}) /\ ~k2.node[s].lock
  BY PreleEff DEF Called
<1>2. k1 = [k2 EXCEPT !.node[s] = r, !.freel = <<s>> \o @]
  BY DEF Unhash
<1> HIDE DEF k2, k1
<1>3. NodeOK(k2.node[s]) /\ k2.node[s] = [f \in NodeF |-> k2.node[s][f]] /\ k2.node[s].lock \in BOOLEAN
  BY <1>1 DEF Types, NodesOK, NodeOK
<1>4. /\ r = [f \in NodeF |-> r[f]] /\ r.ino = "none" /\ r.count = k.node[s].count - 1
      /\ KeepN(k2.node[s], r, {"ino", "text", "chg", "count"})
  BY <1>3 DEF NodeF, KeepN
<1> HIDE DEF r
<1>5. Shape(k1) /\ k1.u = k2.u /\ k1.fs = k2.fs /\ k1.panic = k2.panic /\ k1.freel = <<s>> \o k2.freel
      /\ k1.node = [k2.node EXCEPT ![s] = r]
  BY <1>1, <1>2 DEF Types, Shape, Five
<1>7. r.lock = k2.node[s].lock BY <1>4 DEF KeepN, NodeF
<1>6. k.node[s].count \in Int BY DEF Types, NodesOK, NodeOK
<1>8. NodeOK(r) BY <1>3, <1>4, <1>6, <1>7 DEF NodeOK, KeepN, NodeF, Inos
<1>9. NodesOK(k1.node) /\ NodeBut(k2, k1, s) /\ k1.node[s] = r
  BY <1>1, <1>5, <1>8 DEF NodesOK, NodeBut, Types
<1>10. k2.freel \in Seq(Slot) /\ <<s>> \o k2.freel \in Seq(Slot) BY <1>1, PushSeq DEF Types
<1>11. Types(k1) BY <1>1, <1>5, <1>9, <1>10 DEF Types
<1>12. ~r.lock BY <1>1, <1>7
<1>13. KeepN(k.node[s], r, {"lock", "want", "ino", "text", "chg", "count"}) /\ r.count = k.node[s].count - 1
  BY <1>1, <1>4 DEF KeepN, NodeF
<1>14. Called(k, k1, s) BY <1>1, <1>5 DEF Called
<1>15. NodeBut(k, k1, s) BY <1>1, <1>9 DEF NodeBut
<1>16. QED BY <1>1, <1>4, <1>5, <1>9, <1>11, <1>12, <1>13, <1>14, <1>15 DEF SameRest, k1

\* The four ways to give up a reference: written back first, at once the last one, not the last
\* one of a locked inode, and of one that is somebody else's to unlock.
Busy(k, k1, p, s, rest) ==
  /\ Types(k1) /\ k1.panic = k.panic /\ k1.freel = k.freel /\ KeepF(k.fs, k1.fs, {"sinode"})
  /\ NodeBut(k, k1, s) /\ KeepN(k.node[s], k1.node[s], {"lock", "chg"}) /\ k1.node[s].lock
  /\ \A q \in Proc \ {p} : k1.u[q] = k.u[q]
  /\ k1.u[p].pc \in {<<"fstrunc">> \o rest, <<"fsiupdat">> \o rest}
  /\ k1.u[p].put = s /\ KeepU(k.u[p], k1.u[p], {"pc", "put"})

\* What prele does to the others.
CalledBut(k, k1, p, s) ==
  \A q \in Proc \ {p} : /\ KeepU(k.u[q], k1.u[q], {"chan"})
                        /\ k1.u[q].chan = IF k.node[s].want /\ k.u[q].chan = On(s) THEN Awake
                                          ELSE k.u[q].chan

\* The last reference is given up and the slot is free,
Freed(k, k1, p, s, rest) ==
  /\ Types(k1) /\ k1.panic = k.panic /\ k1.freel = <<s>> \o k.freel /\ k1.fs = k.fs
  /\ NodeBut(k, k1, s)
  /\ KeepN(k.node[s], k1.node[s], {"lock", "want", "ino", "text", "chg", "count"})
  /\ ~k1.node[s].lock /\ k1.node[s].ino = "none" /\ k1.node[s].count = k.node[s].count - 1
  /\ CalledBut(k, k1, p, s) /\ GoneTo(k.u[p], k1.u[p], rest)

\* it was not the last one and the lock is given up with it,
Dropped(k, k1, p, s, rest) ==
  /\ Types(k1) /\ SameRest(k, k1) /\ NodeBut(k, k1, s)
  /\ KeepN(k.node[s], k1.node[s], {"lock", "want", "count"})
  /\ ~k1.node[s].lock /\ k1.node[s].count = k.node[s].count - 1
  /\ CalledBut(k, k1, p, s) /\ GoneTo(k.u[p], k1.u[p], rest)

\* or without.
Less(k, k1, p, s, rest) ==
  /\ Types(k1) /\ SameRest(k, k1) /\ NodeBut(k, k1, s)
  /\ KeepN(k.node[s], k1.node[s], {"count"}) /\ k1.node[s].count = k.node[s].count - 1
  /\ \A q \in Proc \ {p} : k1.u[q] = k.u[q]
  /\ GoneTo(k.u[p], k1.u[p], rest)

\* Two changes of an inode are one.
LEMMA KeepNTrans ==
  ASSUME NEW r, NEW r1, NEW r2, NEW S, NEW S1, NEW S2, KeepN(r, r1, S1), KeepN(r1, r2, S2),
         S1 \subseteq S, S2 \subseteq S
  PROVE  KeepN(r, r2, S)
BY DEF KeepN

\* A channel tells which slot is slept for.
LEMMA AwakeOn == \A s \in Slot : Awake # On(s) /\ On(s) # <<"ilock", 0>> /\ \A t \in Slot : On(s) = On(t) => s = t
BY DEF Awake, On

\* A change of nothing, then Goto.
LEMMA GoneTrans ==
  ASSUME NEW c, NEW c2, NEW c1, NEW pc, KeepU(c, c2, {}), GoneTo(c2, c1, pc)
  PROVE  GoneTo(c, c1, pc)
BY DEF KeepU, GoneTo, UserF

\* idec on the last reference: the inode is to be written first, or it is freed at once.
LEMMA Idec1Eff ==
  ASSUME NEW k, Types(k), NEW p \in Proc, NEW s \in Slot, NEW rest \in Seq(Label),
         k.node[s].ino # "none", k.u[p].chan = Awake
  PROVE  LET k1 == Idec1(k, p, s, rest) IN Busy(k, k1, p, s, rest) \/ Freed(k, k1, p, s, rest)
<1> DEFINE l == Lock(k, s)
           c == [l.u[p] EXCEPT !.put = s]
           b == [l EXCEPT !.u[p] = c]
           n == k.node[s]
           k1 == Idec1(k, p, s, rest)
<1>1. /\ Types(l) /\ SameRest(k, l) /\ l.u = k.u /\ NodeBut(k, l, s)
      /\ KeepN(k.node[s], l.node[s], {"lock"}) /\ l.node[s].lock
  BY LockEff
<1>2. b = [l EXCEPT !.u[p].put = s] OBVIOUS
<1>a. k1 = CASE n.nlink = 0 /\ n.mode -> Goto(b, p, <<"fstrunc">> \o rest)
             [] n.nlink = 0 /\ ~n.mode -> Goto([Ifree(b, n.ino) EXCEPT !.node[s].chg = TRUE],
                                               p, <<"fsiupdat">> \o rest)
             [] n.nlink # 0 /\ n.chg -> Goto(b, p, <<"fsiupdat">> \o rest)
             [] OTHER -> Goto(Unhash(l, s), p, rest)
  BY <1>2 DEF Idec1
<1> HIDE DEF l, k1
<1>3. UserOK(l.u[p]) /\ l.u[p] = [f \in UserF |-> l.u[p][f]] BY <1>1 DEF Types, UsersOK, UserOK
<1>4. c = [f \in UserF |-> c[f]] /\ c.put = s /\ KeepU(l.u[p], c, {"put"}) BY <1>3 DEF UserF, KeepU
<1> HIDE DEF c
<1>5. UserOK(c) BY <1>3, <1>4, SlotFacts DEF UserOK, KeepU, UserF
<1>6. Types(b) /\ Only(l, b, p) /\ b.u[p] = c BY <1>1, <1>5, SetUser
<1> HIDE DEF b
<1>7. <<"fstrunc">> \o rest \in Seq(Label)
      /\ <<"fsiupdat">> \o rest \in Seq(Label) /\ <<"fstrunc">> \o rest # <<>> /\ <<"fsiupdat">> \o rest # <<>>
  <2>1. "fstrunc" \in Label /\ "fsiupdat" \in Label BY DEF Label, LeafL
  <2>2. <<"fstrunc">> \o rest \in Seq(Label) /\ <<"fsiupdat">> \o rest \in Seq(Label) BY <2>1, PushSeq
  <2>3. <<"fstrunc">> \o rest # <<>> /\ <<"fsiupdat">> \o rest # <<>> OBVIOUS
  <2>4. QED BY <2>1, <2>2, <2>3
<1>8. ASSUME NEW x \in {"fstrunc", "fsiupdat"}, k1 = Goto(b, p, <<x>> \o rest) PROVE Busy(k, k1, p, s, rest)
  <2>1. <<x>> \o rest \in Seq(Label) /\ <<x>> \o rest # <<>> BY <1>7
  <2>2. Types(k1) /\ Only(b, k1, p) /\ GoneTo(b.u[p], k1.u[p], <<x>> \o rest)
    BY <1>6, <1>8, <2>1, GotoEff
  <2>3. k1.u[p].pc = <<x>> \o rest /\ KeepU(c, k1.u[p], {"pc"})
    BY <2>1, <2>2, <1>6 DEF GoneTo, KeepU
  <2>4. KeepU(k.u[p], k1.u[p], {"pc", "put"}) /\ k1.u[p].put = s
    BY <2>3, <1>1, <1>4 DEF KeepU, UserF
  <2>5. /\ k1.node = l.node /\ k1.freel = k.freel /\ k1.fs = k.fs /\ k1.panic = k.panic
        /\ \A q \in Proc \ {p} : k1.u[q] = k.u[q]
    BY <2>2, <1>1, <1>6 DEF Only, SameRest
  <2>6. KeepF(k.fs, k1.fs, {"sinode"}) BY <2>5 DEF KeepF
  <2>7. NodeBut(k, k1, s) /\ KeepN(k.node[s], k1.node[s], {"lock", "chg"}) /\ k1.node[s].lock
    BY <2>5, <1>1 DEF NodeBut, KeepN
  <2>8. QED BY <2>2, <2>3, <2>4, <2>5, <2>6, <2>7 DEF Busy
<1>9. CASE n.nlink = 0 /\ n.mode
  <2>1. k1 = Goto(b, p, <<"fstrunc">> \o rest) BY <1>a, <1>9
  <2>2. QED BY <2>1, <1>8 DEF k1
<1>10. CASE n.nlink = 0 /\ ~n.mode
  <2> DEFINE i == Ifree(b, n.ino)
             r == [i.node[s] EXCEPT !.chg = TRUE]
             j == [i EXCEPT !.node[s] = r]
  <2>1. k1 = Goto(j, p, <<"fsiupdat">> \o rest) BY <1>a, <1>10
  <2>2. k.node[s].ino \in Inos \ {"none"} BY DEF Types, NodesOK, NodeOK
  <2>3. /\ Types(i) /\ i.node = b.node /\ i.u = b.u /\ i.freel = b.freel /\ i.panic = b.panic
        /\ KeepF(b.fs, i.fs, {"sinode"})
    BY <2>2, <1>6, IfreeEff
  <2> HIDE DEF i
  <2>4. NodeOK(i.node[s]) /\ i.node[s] = [f \in NodeF |-> i.node[s][f]] BY <2>3 DEF Types, NodesOK, NodeOK
  <2>5. r = [f \in NodeF |-> r[f]] /\ KeepN(i.node[s], r, {"chg"}) BY <2>4 DEF NodeF, KeepN
  <2> HIDE DEF r
  <2>6. NodeOK(r) BY <2>4, <2>5 DEF NodeOK, NodeF, KeepN
  <2>6a. Types(i) BY <2>3
  <2>7. Types(j) /\ SameRest(i, j) /\ j.u = i.u /\ NodeBut(i, j, s) /\ j.node[s] = r
    <3> HIDE DEF SameRest, NodeBut
    <3>1. QED BY <2>6a, <2>6, SetNode
  <2> HIDE DEF j
  <2>8. Types(k1) /\ Only(j, k1, p) /\ GoneTo(j.u[p], k1.u[p], <<"fsiupdat">> \o rest)
    BY <2>1, <2>7, <1>7, GotoEff
  <2>9. k1.u[p].pc = <<"fsiupdat">> \o rest /\ KeepU(c, k1.u[p], {"pc"})
    BY <2>3, <2>7, <2>8, <1>6, <1>7 DEF GoneTo, KeepU
  <2>10. KeepU(k.u[p], k1.u[p], {"pc", "put"}) /\ k1.u[p].put = s
    BY <2>9, <1>1, <1>4 DEF KeepU, UserF
  <2>11. /\ k1.node = j.node /\ i.node = l.node /\ k1.freel = k.freel /\ k1.panic = k.panic
         /\ k1.fs = i.fs /\ b.fs = k.fs
         /\ \A q \in Proc \ {p} : k1.u[q] = k.u[q]
    BY <2>3, <2>7, <2>8, <1>1, <1>6 DEF Only, SameRest
  <2>12. KeepF(k.fs, k1.fs, {"sinode"}) BY <2>3, <2>11
  <2>13. NodeBut(k, k1, s) BY <2>7, <2>11, <1>1 DEF NodeBut
  <2>14a. i.node[s] = l.node[s] /\ k1.node[s] = r BY <2>7, <2>11
  <2>14b. r.lock = l.node[s].lock BY <2>5, <2>14a DEF KeepN, NodeF
  <2>14c. KeepN(k.node[s], r, {"lock", "chg"}) BY <2>5, <2>14a, <1>1, KeepNTrans
  <2>14. KeepN(k.node[s], k1.node[s], {"lock", "chg"}) /\ k1.node[s].lock
    BY <2>14a, <2>14b, <2>14c, <1>1
  <2>15. Busy(k, k1, p, s, rest) BY <2>8, <2>9, <2>10, <2>11, <2>12, <2>13, <2>14 DEF Busy
  <2>16. QED BY <2>15 DEF k1
<1>11. CASE n.nlink # 0 /\ n.chg
  <2>1. k1 = Goto(b, p, <<"fsiupdat">> \o rest) BY <1>a, <1>11
  <2>2. QED BY <2>1, <1>8 DEF k1
<1>12. CASE n.nlink # 0 /\ ~n.chg
  <2> DEFINE h == Unhash(l, s)
  <2>1. k1 = Goto(h, p, rest) BY <1>a, <1>12
  <2>2. l.node[s].ino = k.node[s].ino /\ l.node[s].count = k.node[s].count /\ l.node[s].want = k.node[s].want
    BY <1>1 DEF KeepN, NodeF
  <2>3. /\ Types(h) /\ h.fs = l.fs /\ h.panic = l.panic /\ h.freel = <<s>> \o l.freel
        /\ NodeBut(l, h, s) /\ Called(l, h, s)
        /\ KeepN(l.node[s], h.node[s], {"lock", "want", "ino", "text", "chg", "count"})
        /\ ~h.node[s].lock /\ h.node[s].ino = "none" /\ h.node[s].count = l.node[s].count - 1
    BY <2>2, <1>1, UnhashEff
  <2> HIDE DEF h
  <2>4. Types(k1) /\ Only(h, k1, p) /\ GoneTo(h.u[p], k1.u[p], rest) BY <2>1, <2>3, GotoEff
  <2>5. KeepU(k.u[p], h.u[p], {})
    BY <2>3, <1>1, AwakeOn DEF Called, KeepU, UserF
  <2>6. GoneTo(k.u[p], k1.u[p], rest) BY <2>4, <2>5, GoneTrans
  <2>7. CalledBut(k, k1, p, s) BY <2>2, <2>3, <2>4, <1>1 DEF Called, CalledBut, Only
  <2>8. k1.node = h.node /\ k1.fs = k.fs /\ k1.panic = k.panic /\ k1.freel = <<s>> \o k.freel
    BY <2>3, <2>4, <1>1 DEF Only, SameRest
  <2>9. NodeBut(k, k1, s) BY <2>3, <2>8, <1>1 DEF NodeBut
  <2>10. KeepN(k.node[s], k1.node[s], {"lock", "want", "ino", "text", "chg", "count"})
    BY <2>3, <2>8, <1>1 DEF KeepN, NodeF
  <2>11. ~k1.node[s].lock /\ k1.node[s].ino = "none" /\ k1.node[s].count = k.node[s].count - 1
    BY <2>2, <2>3, <2>8
  <2>12. Freed(k, k1, p, s, rest) BY <2>4, <2>6, <2>7, <2>8, <2>9, <2>10, <2>11 DEF Freed
  <2>13. QED BY <2>12 DEF k1
<1>13. QED BY <1>9, <1>10, <1>11, <1>12

\* A reference less.
LEMMA LessCount ==
  ASSUME NEW k, Types(k), NEW s \in Slot
  PROVE  LET k1 == [k EXCEPT !.node[s].count = @ - 1] IN
         /\ Types(k1) /\ SameRest(k, k1) /\ k1.u = k.u /\ NodeBut(k, k1, s)
         /\ KeepN(k.node[s], k1.node[s], {"count"}) /\ k1.node[s].count = k.node[s].count - 1
<1> DEFINE r == [k.node[s] EXCEPT !.count = @ - 1]
<1>1. NodeOK(k.node[s]) /\ k.node[s] = [f \in NodeF |-> k.node[s][f]] /\ k.node[s].count \in Int
  BY DEF Types, NodesOK, NodeOK
<1>2. r = [f \in NodeF |-> r[f]] /\ r.count = k.node[s].count - 1 /\ KeepN(k.node[s], r, {"count"})
  BY <1>1 DEF NodeF, KeepN
<1> DEFINE k1 == [k EXCEPT !.node[s].count = @ - 1]
           j == [k EXCEPT !.node[s] = r]
<1>3. k1 = j OBVIOUS
<1> HIDE DEF r
<1>4. NodeOK(r) BY <1>1, <1>2 DEF NodeOK, KeepN, NodeF
<1>5. Types(j) /\ SameRest(k, j) /\ j.u = k.u /\ NodeBut(k, j, s) /\ j.node[s] = r BY <1>4, SetNode
<1> HIDE DEF k1, j
<1>6. QED BY <1>2, <1>3, <1>5 DEF k1

\* A reference more.
LEMMA MoreCount ==
  ASSUME NEW k, Types(k), NEW s \in Slot
  PROVE  LET k1 == [k EXCEPT !.node[s].count = @ + 1] IN
         /\ Types(k1) /\ SameRest(k, k1) /\ k1.u = k.u /\ NodeBut(k, k1, s)
         /\ KeepN(k.node[s], k1.node[s], {"count"}) /\ k1.node[s].count = k.node[s].count + 1
<1> DEFINE r == [k.node[s] EXCEPT !.count = @ + 1]
<1>1. NodeOK(k.node[s]) /\ k.node[s] = [f \in NodeF |-> k.node[s][f]] /\ k.node[s].count \in Int
  BY DEF Types, NodesOK, NodeOK
<1>2. r = [f \in NodeF |-> r[f]] /\ r.count = k.node[s].count + 1 /\ KeepN(k.node[s], r, {"count"})
  BY <1>1 DEF NodeF, KeepN
<1> DEFINE k1 == [k EXCEPT !.node[s].count = @ + 1]
           j == [k EXCEPT !.node[s] = r]
<1>3. k1 = j OBVIOUS
<1> HIDE DEF r
<1>4. NodeOK(r) BY <1>1, <1>2 DEF NodeOK, KeepN, NodeF
<1>5. Types(j) /\ SameRest(k, j) /\ j.u = k.u /\ NodeBut(k, j, s) /\ j.node[s] = r BY <1>4, SetNode
<1> HIDE DEF k1, j
<1>6. QED BY <1>2, <1>3, <1>5 DEF k1

\* iput: the last reference goes as in idec, any other one is dropped with the lock.
LEMMA IputEff ==
  ASSUME NEW k, Types(k), NEW p \in Proc, NEW s \in Slot, NEW rest \in Seq(Label),
         k.node[s].ino # "none", k.u[p].chan = Awake, k.node[s].count # 0
  PROVE  LET k1 == Iput(k, p, s, rest) IN
         \/ k.node[s].count = 1 /\ (Busy(k, k1, p, s, rest) \/ Freed(k, k1, p, s, rest))
         \/ k.node[s].count # 1 /\ Dropped(k, k1, p, s, rest)
<1> DEFINE k1 == Iput(k, p, s, rest)
           a == [k EXCEPT !.node[s].count = @ - 1]
           b == Prele(a, s)
<1>1. CASE k.node[s].count = 1
  <2>1. k1 = Idec1(k, p, s, rest) BY <1>1 DEF Iput
  <2>2. QED BY <2>1, <1>1, Idec1Eff
<1>2. CASE k.node[s].count # 1
  <2>1. k1 = Goto(b, p, rest) BY <1>2 DEF Iput
  <2>2. /\ Types(a) /\ SameRest(k, a) /\ a.u = k.u /\ NodeBut(k, a, s)
        /\ KeepN(k.node[s], a.node[s], {"count"}) /\ a.node[s].count = k.node[s].count - 1
    BY LessCount
  <2> HIDE DEF k1, a
  <2>3. Types(b) /\ SameRest(a, b) /\ NodeBut(a, b, s) /\ KeepN(a.node[s], b.node[s], {"lock", "want"})
        /\ ~b.node[s].lock /\ Called(a, b, s)
    BY <2>2, PreleEff DEF Called
  <2> HIDE DEF b
  <2>4. Types(k1) /\ Only(b, k1, p) /\ GoneTo(b.u[p], k1.u[p], rest) BY <2>1, <2>3, GotoEff
  <2>5. a.node[s].want = k.node[s].want BY <2>2 DEF KeepN, NodeF
  <2>6. KeepU(k.u[p], b.u[p], {})
    BY <2>2, <2>3, AwakeOn DEF Called, KeepU, UserF
  <2>7. GoneTo(k.u[p], k1.u[p], rest) BY <2>4, <2>6, GoneTrans
  <2>8. CalledBut(k, k1, p, s) BY <2>2, <2>3, <2>4, <2>5 DEF Called, CalledBut, Only
  <2>9. k1.node = b.node /\ SameRest(k, k1) BY <2>2, <2>3, <2>4 DEF Only, SameRest
  <2>10. NodeBut(k, k1, s) BY <2>2, <2>3, <2>9 DEF NodeBut
  <2>11. KeepN(k.node[s], k1.node[s], {"lock", "want", "count"})
    BY <2>2, <2>3, <2>9, KeepNTrans
  <2>12. k1.node[s].count = k.node[s].count - 1 /\ ~k1.node[s].lock
    BY <2>2, <2>3, <2>9 DEF KeepN, NodeF
  <2>13. Dropped(k, k1, p, s, rest) BY <2>4, <2>7, <2>8, <2>9, <2>10, <2>11, <2>12 DEF Dropped
  <2>14. QED BY <2>13, <1>2 DEF k1
<1>3. QED BY <1>1, <1>2

\* idec: the last reference goes as in Idec1, any other one is dropped.
LEMMA IdecEff ==
  ASSUME NEW k, Types(k), NEW p \in Proc, NEW s \in Slot, NEW rest \in Seq(Label),
         k.node[s].ino # "none", k.u[p].chan = Awake, k.node[s].count # 0
  PROVE  LET k1 == Idec(k, p, s, rest) IN
         \/ k.node[s].count = 1 /\ (Busy(k, k1, p, s, rest) \/ Freed(k, k1, p, s, rest))
         \/ k.node[s].count # 1 /\ Less(k, k1, p, s, rest)
<1> DEFINE k1 == Idec(k, p, s, rest)
           a == [k EXCEPT !.node[s].count = @ - 1]
<1>1. CASE k.node[s].count = 1
  <2>1. k1 = Idec1(k, p, s, rest) BY <1>1 DEF Idec
  <2>2. QED BY <2>1, <1>1, Idec1Eff
<1>2. CASE k.node[s].count # 1
  <2>1. k1 = Goto(a, p, rest) BY <1>2 DEF Idec
  <2>2. /\ Types(a) /\ SameRest(k, a) /\ a.u = k.u /\ NodeBut(k, a, s)
        /\ KeepN(k.node[s], a.node[s], {"count"}) /\ a.node[s].count = k.node[s].count - 1
    BY LessCount
  <2> HIDE DEF k1, a
  <2>4. Types(k1) /\ Only(a, k1, p) /\ GoneTo(a.u[p], k1.u[p], rest) BY <2>1, <2>2, GotoEff
  <2>9. k1.node = a.node /\ SameRest(k, k1) BY <2>2, <2>4 DEF Only, SameRest
  <2>13. Less(k, k1, p, s, rest) BY <2>2, <2>4, <2>9 DEF Less, NodeBut, Only
  <2>14. QED BY <2>13, <1>2 DEF k1
<1>3. QED BY <1>1, <1>2

\* The four outcomes of iget: it waits for a slot, takes it, reads a new one, or there is none.
Sleeps(k, k1, p, key, s, rest) ==
  /\ k.node[s].lock /\ SameRest(k, k1) /\ NodeBut(k, k1, s)
  /\ KeepN(k.node[s], k1.node[s], {"want"}) /\ k1.node[s].want
  /\ \A q \in Proc \ {p} : k1.u[q] = k.u[q]
  /\ k1.u[p].pc = <<"iget">> \o rest /\ k1.u[p].chan = On(s) /\ k1.u[p].key = key
  /\ KeepU(k.u[p], k1.u[p], {"pc", "chan", "key"})

\* it locks the inode, which is in core;
Takes(k, k1, p, key, s, rest) ==
  /\ ~k.node[s].lock /\ SameRest(k, k1) /\ NodeBut(k, k1, s)
  /\ KeepN(k.node[s], k1.node[s], {"lock", "count"}) /\ k1.node[s].lock
  /\ k1.node[s].count = k.node[s].count + 1
  /\ \A q \in Proc \ {p} : k1.u[q] = k.u[q]
  /\ k1.u[p].pc = rest /\ k1.u[p].ip = s /\ k1.u[p].key = key
  /\ KeepU(k.u[p], k1.u[p], {"pc", "ip", "key"})

\* it has a free slot for it and is to read it from the disk;
Makes(k, k1, p, key, s, rest) ==
  /\ k.freel # <<>> /\ s = Head(k.freel) /\ k1.freel = Tail(k.freel) /\ k1.fs = k.fs /\ k1.panic = k.panic
  /\ NodeBut(k, k1, s)
  /\ k1.node[s].ino = key /\ k1.node[s].count = 1 /\ k1.node[s].lock /\ ~k1.node[s].want
  /\ ~k1.node[s].text /\ k1.node[s].mroot = 0
  /\ k1.node[s].mpoint = IF key \in File \cup {"sub"} THEN k.node[k.u[p].dip].mpoint ELSE 0
  /\ \A q \in Proc \ {p} : k1.u[q] = k.u[q]
  /\ k1.u[p].pc = <<"fsiread">> \o rest /\ k1.u[p].ip = s /\ k1.u[p].key = key
  /\ KeepU(k.u[p], k1.u[p], {"pc", "ip", "key"})

\* all slots are in use.
Lacks(k, k1, p, key, rest) ==
  /\ k.freel = <<>> /\ SameRest(k, k1) /\ k1.node = k.node
  /\ \A q \in Proc \ {p} : k1.u[q] = k.u[q]
  /\ k1.u[p].pc = rest /\ k1.u[p].ip = 0 /\ k1.u[p].key = key
  /\ KeepU(k.u[p], k1.u[p], {"pc", "ip", "key"})

\* iget notes what it looks for.
LEMMA SetKey ==
  ASSUME NEW k, Types(k), NEW p \in Proc, NEW x \in Inos
  PROVE  LET k1 == [k EXCEPT !.u[p].key = x] IN
         Types(k1) /\ Only(k, k1, p) /\ KeepU(k.u[p], k1.u[p], {"key"}) /\ k1.u[p].key = x
<1> DEFINE c == [k.u[p] EXCEPT !.key = x]
           k1 == [k EXCEPT !.u[p].key = x]
           j == [k EXCEPT !.u[p] = c]
<1>0. UserOK(k.u[p]) /\ k.u[p] = [f \in UserF |-> k.u[p][f]] BY DEF Types, UsersOK, UserOK
<1>1. k1 = j OBVIOUS
<1>2. c = [f \in UserF |-> c[f]] /\ c.key = x /\ KeepU(k.u[p], c, {"key"}) BY <1>0 DEF UserF, KeepU
<1> HIDE DEF c
<1>3. UserOK(c) BY <1>0, <1>2 DEF UserOK, KeepU, UserF
<1>4. Types(j) /\ Only(k, j, p) /\ j.u[p] = c BY <1>3, SetUser
<1> HIDE DEF k1, j
<1>5. QED BY <1>1, <1>2, <1>4 DEF k1

\* iget hands over what it found.
LEMMA SetIp ==
  ASSUME NEW k, Types(k), NEW p \in Proc, NEW x \in Opt
  PROVE  LET k1 == [k EXCEPT !.u[p].ip = x] IN
         Types(k1) /\ Only(k, k1, p) /\ KeepU(k.u[p], k1.u[p], {"ip"}) /\ k1.u[p].ip = x
<1> DEFINE c == [k.u[p] EXCEPT !.ip = x]
           k1 == [k EXCEPT !.u[p].ip = x]
           j == [k EXCEPT !.u[p] = c]
<1>0. UserOK(k.u[p]) /\ k.u[p] = [f \in UserF |-> k.u[p][f]] BY DEF Types, UsersOK, UserOK
<1>1. k1 = j OBVIOUS
<1>2. c = [f \in UserF |-> c[f]] /\ c.ip = x /\ KeepU(k.u[p], c, {"ip"}) BY <1>0 DEF UserF, KeepU
<1> HIDE DEF c
<1>3. UserOK(c) BY <1>0, <1>2 DEF UserOK, KeepU, UserF
<1>4. Types(j) /\ Only(k, j, p) /\ j.u[p] = c BY <1>3, SetUser
<1> HIDE DEF k1, j
<1>5. QED BY <1>1, <1>2, <1>4 DEF k1

\* Sleeping for the lock of a slot, with IWANT set.
LEMMA SleepOnEff ==
  ASSUME NEW k, Types(k), NEW p \in Proc, NEW s \in Slot
  PROVE  LET k1 == SleepOn(k, p, s) IN
         /\ Types(k1) /\ SameRest(k, k1) /\ NodeBut(k, k1, s)
         /\ KeepN(k.node[s], k1.node[s], {"want"}) /\ k1.node[s].want
         /\ \A q \in Proc \ {p} : k1.u[q] = k.u[q]
         /\ KeepU(k.u[p], k1.u[p], {"chan"}) /\ k1.u[p].chan = On(s)
<1> DEFINE r == [k.node[s] EXCEPT !.want = TRUE]
           c == [k.u[p] EXCEPT !.chan = On(s)]
           i == [k EXCEPT !.node[s] = r]
           j == [i EXCEPT !.u[p] = c]
           k1 == SleepOn(k, p, s)
<1>1. NodeOK(k.node[s]) /\ k.node[s] = [f \in NodeF |-> k.node[s][f]] BY DEF Types, NodesOK, NodeOK
<1>2. r = [f \in NodeF |-> r[f]] /\ r.want = TRUE /\ KeepN(k.node[s], r, {"want"})
  BY <1>1 DEF NodeF, KeepN
<1>3. UserOK(k.u[p]) /\ k.u[p] = [f \in UserF |-> k.u[p][f]] BY DEF Types, UsersOK, UserOK
<1>4. c = [f \in UserF |-> c[f]] /\ c.chan = On(s) /\ KeepU(k.u[p], c, {"chan"}) BY <1>3 DEF UserF, KeepU
<1>5. k1 = j BY DEF SleepOn
<1> HIDE DEF r, c, k1
<1>6. NodeOK(r) BY <1>1, <1>2 DEF NodeOK, KeepN, NodeF
<1>7. UserOK(c) BY <1>3, <1>4 DEF UserOK, KeepU, UserF
<1>8. Types(i) /\ SameRest(k, i) /\ i.u = k.u /\ NodeBut(k, i, s) /\ i.node[s] = r BY <1>6, SetNode
<1> HIDE DEF i
<1>9. Types(j) /\ Only(i, j, p) /\ j.u[p] = c BY <1>7, <1>8, SetUser
<1> HIDE DEF j
<1>10. QED BY <1>2, <1>4, <1>5, <1>8, <1>9 DEF Only, SameRest, NodeBut, k1

\* iget takes the first free slot for an inode that was not in core.
LEMMA NewInodeEff ==
  ASSUME NEW k, Types(k), NEW p \in Proc, NEW key \in Inos, k.freel # <<>>,
         key \in File \cup {"sub"} => k.u[p].dip \in Slot
  PROVE  LET s == Head(k.freel)
             k1 == NewInode(k, p, key) IN
         /\ s \in Slot /\ Types(k1) /\ k1.freel = Tail(k.freel) /\ k1.fs = k.fs /\ k1.panic = k.panic
         /\ NodeBut(k, k1, s)
         /\ k1.node[s].ino = key /\ k1.node[s].count = 1 /\ k1.node[s].lock /\ ~k1.node[s].want
         /\ ~k1.node[s].text /\ k1.node[s].mroot = 0
         /\ k1.node[s].mpoint = IF key \in File \cup {"sub"} THEN k.node[k.u[p].dip].mpoint ELSE 0
         /\ \A q \in Proc \ {p} : k1.u[q] = k.u[q]
         /\ KeepU(k.u[p], k1.u[p], {"ip"}) /\ k1.u[p].ip = s
<1> DEFINE s == Head(k.freel)
           m == IF key \in File \cup {"sub"} THEN k.node[k.u[p].dip].mpoint ELSE 0
           r == [k.node[s] EXCEPT !.ino = key, !.count = 1, !.lock = TRUE, !.want = FALSE,
                                  !.text = FALSE, !.chg = FALSE, !.mroot = 0, !.mpoint = m]
           c == [k.u[p] EXCEPT !.ip = s]
           i == [k EXCEPT !.freel = Tail(@)]
           h == [i EXCEPT !.node[s] = r]
           j == [h EXCEPT !.u[p] = c]
           k1 == NewInode(k, p, key)
<1>0. s \in Slot /\ Tail(k.freel) \in Seq(Slot) BY DEF Types
<1>1. NodeOK(k.node[s]) /\ k.node[s] = [f \in NodeF |-> k.node[s][f]] BY <1>0 DEF Types, NodesOK, NodeOK
<1>a. m \in Opt BY SlotFacts DEF Types, NodesOK, NodeOK
<1>5. k1 = j BY DEF NewInode
<1> HIDE DEF s, m
<1>2. /\ r = [f \in NodeF |-> r[f]] /\ r.ino = key /\ r.count = 1 /\ r.lock = TRUE /\ r.want = FALSE
      /\ r.text = FALSE /\ r.mroot = 0 /\ r.mpoint = m
  BY <1>1 DEF NodeF
<1>3. UserOK(k.u[p]) /\ k.u[p] = [f \in UserF |-> k.u[p][f]] BY DEF Types, UsersOK, UserOK
<1>4. c = [f \in UserF |-> c[f]] /\ c.ip = s /\ KeepU(k.u[p], c, {"ip"}) BY <1>3 DEF UserF, KeepU
<1> HIDE DEF r, c, k1
<1>d. 0 \in Opt /\ s \in Opt BY <1>0, SlotFacts
<1>e. r.lock \in BOOLEAN /\ r.want \in BOOLEAN BY <1>2
<1>6. NodeOK(r) BY <1>2, <1>a, <1>d, <1>e DEF NodeOK
<1>7. UserOK(c) BY <1>d, <1>3, <1>4 DEF UserOK, KeepU, UserF
<1>b. Shape(i) /\ i.node = k.node /\ i.u = k.u /\ i.fs = k.fs /\ i.panic = k.panic /\ i.freel = Tail(k.freel)
  BY DEF Types, Shape, Five
<1>c. Types(i) BY <1>b, <1>0 DEF Types
<1> HIDE DEF i
<1>f. s \in Slot BY <1>0
<1>8. Types(h) /\ SameRest(i, h) /\ h.u = i.u /\ NodeBut(i, h, s) /\ h.node[s] = r BY <1>f, <1>6, <1>c, SetNode
<1> HIDE DEF h
<1>9. Types(j) /\ Only(h, j, p) /\ j.u[p] = c BY <1>7, <1>8, SetUser
<1> HIDE DEF j
<1>10. k1.freel = Tail(k.freel) /\ k1.fs = k.fs /\ k1.panic = k.panic /\ k1.node = h.node /\ k1.u = j.u /\ Types(k1)
  BY <1>5, <1>8, <1>9, <1>b DEF Only, SameRest
<1>11. NodeBut(k, k1, s) /\ k1.node[s] = r BY <1>8, <1>10, <1>b DEF NodeBut
<1>12. (\A q \in Proc \ {p} : k1.u[q] = k.u[q]) /\ KeepU(k.u[p], k1.u[p], {"ip"}) /\ k1.u[p].ip = s
  BY <1>4, <1>8, <1>9, <1>10, <1>b DEF Only
<1>13. QED BY <1>0, <1>2, <1>10, <1>11, <1>12 DEF k1, s, m

\* iget goes from a directory that is mounted on to the root mounted there, if it is not locked.
Found(k, s0) == IF ~k.node[s0].lock /\ k.node[s0].mroot # 0 THEN k.node[s0].mroot ELSE s0

\* iget does one of four things: it sleeps for a locked inode, locks one that is there, takes
\* a free slot for one that is not, or finds the table full.
LEMMA IgetEff ==
  ASSUME NEW k, Types(k), NEW p \in Proc, NEW key \in Inos, NEW rest \in Seq(Label), rest # <<>>,
         key \in File \cup {"sub"} => k.u[p].dip \in Slot
  PROVE  LET k1 == Iget(k, p, key, rest) IN
         /\ Types(k1)
         /\ \/ \E s0 \in Slot, s \in Slot :
                 /\ k.node[s0].ino = key /\ s = Found(k, s0)
                 /\ Sleeps(k, k1, p, key, s, rest) \/ Takes(k, k1, p, key, s, rest)
            \/ /\ \A s \in Slot : k.node[s].ino # key
               /\ (\E s \in Slot : Makes(k, k1, p, key, s, rest)) \/ Lacks(k, k1, p, key, rest)
<1> DEFINE a == [k EXCEPT !.u[p].key = key]
           hit == {s \in Slot : a.node[s].ino = key}
           s0 == CHOOSE s \in hit : TRUE
           s == Found(a, s0)
           k1 == Iget(k, p, key, rest)
           iget == <<"iget">> \o rest
           fsiread == <<"fsiread">> \o rest
<1>1. k1 = CASE hit # {} ->
                  IF a.node[s].lock THEN Goto(SleepOn(a, p, s), p, iget)
                  ELSE Goto([Lock(a, s) EXCEPT !.node[s].count = @ + 1, !.u[p].ip = s], p, rest)
             [] hit = {} /\ a.freel # <<>> -> Goto(NewInode(a, p, key), p, fsiread)
             [] OTHER -> Goto([a EXCEPT !.u[p].ip = 0], p, rest)
  BY DEF Iget, Found
<1>2. /\ Types(a) /\ a.node = k.node /\ SameRest(k, a) /\ (\A q \in Proc \ {p} : a.u[q] = k.u[q])
      /\ KeepU(k.u[p], a.u[p], {"key"}) /\ a.u[p].key = key
  BY SetKey DEF Only, SameRest
<1>3. iget \in Seq(Label) /\ fsiread \in Seq(Label) /\ iget # <<>> /\ fsiread # <<>>
  <2>1. "iget" \in Label /\ "fsiread" \in Label BY DEF Label, LeafL
  <2>2. iget \in Seq(Label) /\ fsiread \in Seq(Label) BY <2>1, PushSeq
  <2>3. iget # <<>> /\ fsiread # <<>> OBVIOUS
  <2>4. QED BY <2>2, <2>3
<1> HIDE DEF k1, a, iget, fsiread
<1>4. CASE hit # {}
  <2>1. s0 \in Slot /\ k.node[s0].ino = key BY <1>2, <1>4
  <2> HIDE DEF hit, s0
  <2>2. s = Found(k, s0) BY <1>2 DEF Found
  <2>3. s \in Slot BY <2>1, <2>2 DEF Found, Types, NodesOK, NodeOK, Opt
  <2> HIDE DEF s
  <2>4. CASE a.node[s].lock
    <3> DEFINE b == SleepOn(a, p, s)
    <3>1. k1 = Goto(b, p, iget) BY <1>1, <1>4, <2>4
    <3>2. /\ Types(b) /\ SameRest(a, b) /\ NodeBut(a, b, s)
          /\ KeepN(a.node[s], b.node[s], {"want"}) /\ b.node[s].want
          /\ (\A q \in Proc \ {p} : b.u[q] = a.u[q])
          /\ KeepU(a.u[p], b.u[p], {"chan"}) /\ b.u[p].chan = On(s)
      BY <1>2, <2>3, SleepOnEff
    <3> HIDE DEF b
    <3>3. Types(k1) /\ Only(b, k1, p) /\ GoneTo(b.u[p], k1.u[p], iget) BY <3>1, <3>2, <1>3, GotoEff
    <3>4. k1.u[p].pc = iget /\ KeepU(b.u[p], k1.u[p], {"pc"}) BY <3>3, <1>3 DEF GoneTo, KeepU
    <3>5. k1.u[p].chan = On(s) /\ k1.u[p].key = key BY <3>2, <3>4, <1>2 DEF KeepU, UserF
    <3>6. KeepU(k.u[p], k1.u[p], {"pc", "chan", "key"}) BY <3>2, <3>4, <1>2 DEF KeepU
    <3>7. k1.node = b.node /\ SameRest(k, k1) /\ \A q \in Proc \ {p} : k1.u[q] = k.u[q]
      BY <3>2, <3>3, <1>2 DEF Only, SameRest
    <3>8. NodeBut(k, k1, s) BY <3>2, <3>7, <1>2 DEF NodeBut
    <3>9. KeepN(k.node[s], k1.node[s], {"want"}) /\ k1.node[s].want /\ k.node[s].lock
      BY <3>2, <3>7, <1>2, <2>4
    <3>10. Sleeps(k, k1, p, key, s, rest)
      BY <3>4, <3>5, <3>6, <3>7, <3>8, <3>9 DEF Sleeps, iget
    <3>11. QED BY <3>3, <3>10, <2>1, <2>2, <2>3 DEF k1
  <2>5. CASE ~a.node[s].lock
    <3> DEFINE b == Lock(a, s)
               d == [b EXCEPT !.node[s].count = @ + 1]
               e == [d EXCEPT !.u[p].ip = s]
    <3>0. [Lock(a, s) EXCEPT !.node[s].count = @ + 1, !.u[p].ip = s] = e OBVIOUS
    <3>1. k1 = Goto(e, p, rest) BY <1>1, <1>4, <2>5, <3>0
    <3>2. /\ Types(b) /\ SameRest(a, b) /\ b.u = a.u /\ NodeBut(a, b, s)
          /\ KeepN(a.node[s], b.node[s], {"lock"}) /\ b.node[s].lock
      BY <1>2, <2>3, LockEff
    <3> HIDE DEF b
    <3>3. /\ Types(d) /\ SameRest(b, d) /\ d.u = b.u /\ NodeBut(b, d, s)
          /\ KeepN(b.node[s], d.node[s], {"count"}) /\ d.node[s].count = b.node[s].count + 1
      BY <3>2, <2>3, MoreCount
    <3> HIDE DEF d
    <3>4a. s \in Opt BY <2>3, SlotFacts
    <3>4b. Types(d) BY <3>3
    <3>4. Types(e) /\ Only(d, e, p) /\ KeepU(d.u[p], e.u[p], {"ip"}) /\ e.u[p].ip = s
      BY <3>4a, <3>4b, SetIp
    <3> HIDE DEF e
    <3>5. Types(k1) /\ Only(e, k1, p) /\ GoneTo(e.u[p], k1.u[p], rest) BY <3>1, <3>4, GotoEff
    <3>6. k1.u[p].pc = rest /\ KeepU(e.u[p], k1.u[p], {"pc"}) BY <3>5 DEF GoneTo, KeepU
    <3>7. d.u = a.u BY <3>2, <3>3
    <3>8. k1.u[p].ip = s /\ k1.u[p].key = key BY <3>4, <3>6, <3>7, <1>2 DEF KeepU, UserF
    <3>9. KeepU(k.u[p], k1.u[p], {"pc", "ip", "key"}) BY <3>4, <3>6, <3>7, <1>2 DEF KeepU
    <3>10. k1.node = d.node /\ SameRest(k, k1) /\ \A q \in Proc \ {p} : k1.u[q] = k.u[q]
      BY <3>2, <3>3, <3>4, <3>5, <1>2 DEF Only, SameRest
    <3>11. NodeBut(k, k1, s) BY <3>2, <3>3, <3>10, <1>2 DEF NodeBut
    <3>12. KeepN(k.node[s], k1.node[s], {"lock", "count"})
      BY <3>2, <3>3, <3>10, <1>2, KeepNTrans
    <3>13. k1.node[s].lock /\ k1.node[s].count = k.node[s].count + 1 /\ ~k.node[s].lock
      BY <3>2, <3>3, <3>10, <1>2, <2>5 DEF KeepN, NodeF
    <3>14. Takes(k, k1, p, key, s, rest)
      BY <3>6, <3>8, <3>9, <3>10, <3>11, <3>12, <3>13 DEF Takes
    <3>15. QED BY <3>5, <3>14, <2>1, <2>2, <2>3 DEF k1
  <2>6. QED BY <2>4, <2>5
<1>5. CASE hit = {}
  <2>0. \A t \in Slot : k.node[t].ino # key BY <1>2, <1>5
  <2>a. k.freel = a.freel /\ k.u[p].dip = a.u[p].dip BY <1>2 DEF SameRest, KeepU, UserF
  <2>1. CASE a.freel # <<>>
    <3> DEFINE z == Head(a.freel)
               b == NewInode(a, p, key)
    <3>1. k1 = Goto(b, p, fsiread) BY <1>1, <1>5, <2>1
    <3> HIDE DEF hit, s0, s
    <3>2. /\ z \in Slot /\ Types(b) /\ b.freel = Tail(a.freel) /\ b.fs = a.fs /\ b.panic = a.panic
          /\ NodeBut(a, b, z)
          /\ b.node[z].ino = key /\ b.node[z].count = 1 /\ b.node[z].lock /\ ~b.node[z].want
          /\ ~b.node[z].text /\ b.node[z].mroot = 0
          /\ b.node[z].mpoint = IF key \in File \cup {"sub"} THEN a.node[a.u[p].dip].mpoint ELSE 0
          /\ (\A q \in Proc \ {p} : b.u[q] = a.u[q])
          /\ KeepU(a.u[p], b.u[p], {"ip"}) /\ b.u[p].ip = z
      BY <1>2, <2>1, <2>a, NewInodeEff
    <3> HIDE DEF b, z
    <3>3. Types(k1) /\ Only(b, k1, p) /\ GoneTo(b.u[p], k1.u[p], fsiread) BY <3>1, <3>2, <1>3, GotoEff
    <3>4. k1.u[p].pc = fsiread /\ KeepU(b.u[p], k1.u[p], {"pc"}) BY <3>3, <1>3 DEF GoneTo, KeepU
    <3>5. k1.u[p].ip = z /\ k1.u[p].key = key BY <3>2, <3>4, <1>2 DEF KeepU, UserF
    <3>6. KeepU(k.u[p], k1.u[p], {"pc", "ip", "key"}) BY <3>2, <3>4, <1>2 DEF KeepU
    <3>7. /\ k1.node = b.node /\ k1.freel = Tail(k.freel) /\ k1.fs = k.fs /\ k1.panic = k.panic
          /\ \A q \in Proc \ {p} : k1.u[q] = k.u[q]
      BY <3>2, <3>3, <1>2, <2>a DEF Only, SameRest
    <3>8. NodeBut(k, k1, z) BY <3>2, <3>7, <1>2 DEF NodeBut
    <3>9. k1.node[z].mpoint = IF key \in File \cup {"sub"} THEN k.node[k.u[p].dip].mpoint ELSE 0
      BY <3>2, <3>7, <1>2, <2>a
    <3>10. z = Head(k.freel) /\ k.freel # <<>> BY <2>1, <2>a DEF z
    <3>11. Makes(k, k1, p, key, z, rest)
      BY <3>2, <3>4, <3>5, <3>6, <3>7, <3>8, <3>9, <3>10 DEF Makes, fsiread
    <3>12. QED BY <3>2, <3>3, <3>11, <2>0 DEF k1
  <2>2. CASE a.freel = <<>>
    <3> DEFINE b == [a EXCEPT !.u[p].ip = 0]
    <3>1. k1 = Goto(b, p, rest) BY <1>1, <1>5, <2>2
    <3> HIDE DEF hit, s0, s
    <3>a. 0 \in Opt BY SlotFacts
    <3>2. Types(b) /\ Only(a, b, p) /\ KeepU(a.u[p], b.u[p], {"ip"}) /\ b.u[p].ip = 0
      BY <1>2, <3>a, SetIp
    <3> HIDE DEF b
    <3>3. Types(k1) /\ Only(b, k1, p) /\ GoneTo(b.u[p], k1.u[p], rest) BY <3>1, <3>2, GotoEff
    <3>4. k1.u[p].pc = rest /\ KeepU(b.u[p], k1.u[p], {"pc"}) BY <3>3 DEF GoneTo, KeepU
    <3>5. k1.u[p].ip = 0 /\ k1.u[p].key = key BY <3>2, <3>4, <1>2 DEF KeepU, UserF
    <3>6. KeepU(k.u[p], k1.u[p], {"pc", "ip", "key"}) BY <3>2, <3>4, <1>2 DEF KeepU
    <3>7. k1.node = k.node /\ SameRest(k, k1) /\ \A q \in Proc \ {p} : k1.u[q] = k.u[q]
      BY <3>2, <3>3, <1>2 DEF Only, SameRest
    <3>8. k.freel = <<>> BY <2>2, <2>a
    <3>9. Lacks(k, k1, p, key, rest) BY <3>4, <3>5, <3>6, <3>7, <3>8 DEF Lacks
    <3>10. QED BY <3>3, <3>9, <2>0 DEF k1
  <2>3. QED BY <2>1, <2>2
<1>6. QED BY <1>4, <1>5

-----------------------------------------------------------------------------
(* The references and the locks a process has. *)
B(x) == IF x THEN 1 ELSE 0
\* The inode a process updates; the root it takes away, if it is not mounted any more;
Up(c) == IF Top(c.pc) = "upput" THEN c.up ELSE 0
Rip(c) == IF c.mip = 0 THEN c.rip ELSE 0
\* and whether it walks on from a directory it has unlocked.
Walk(c) == Bot(c.pc) \in {"got", "more"}
\* The references a process has to slot s,
RefP(c, s) == B(c.ip = s) + B(c.dip = s) + B(c.fd = s) + B(c.put = s) + B(Up(c) = s) + B(Rip(c) = s)
\* and whether it has locked it.
HoldP(c, s) == c.ip = s \/ c.put = s \/ c.rip = s \/ Up(c) = s \/ (c.dip = s /\ ~Walk(c))

\* The references all processes have, and those mounting has: of a root and what it is mounted on.
ProcRefs(w, s) ==
    Cardinality({p \in Proc : w[p].ip = s}) + Cardinality({p \in Proc : w[p].dip = s})
  + Cardinality({p \in Proc : w[p].fd = s}) + Cardinality({p \in Proc : w[p].put = s})
  + Cardinality({p \in Proc : Up(w[p]) = s}) + Cardinality({p \in Proc : Rip(w[p]) = s})

MountRefs(n, s) == Cardinality({m \in Slot : n[m].mroot = s \/ (m = s /\ n[m].mroot # 0)})

\* The inode table is finite.
LEMMA SlotFinite == IsFiniteSet(Slot)
BY FS_Interval, InodeAssumption DEF Slot

\* Counting a set of processes that differs from another one in p only.
LEMMA CardOff ==
  ASSUME NEW P, IsFiniteSet(P), NEW p \in P, NEW S \in SUBSET P, NEW S1 \in SUBSET P, S \ {p} = S1 \ {p}
  PROVE  /\ Cardinality(S) \in Nat /\ Cardinality(S1) \in Nat
         /\ Cardinality(S1) = Cardinality(S) - B(p \in S) + B(p \in S1)
<1>1. IsFiniteSet(S) /\ IsFiniteSet(S1) BY FS_Subset
<1>2. Cardinality(S) \in Nat /\ Cardinality(S1) \in Nat BY <1>1, FS_CardinalityType
<1>3. Cardinality(S \ {p}) = IF p \in S THEN Cardinality(S) - 1 ELSE Cardinality(S)
  BY <1>1, FS_RemoveElement
<1>4. Cardinality(S1 \ {p}) = IF p \in S1 THEN Cardinality(S1) - 1 ELSE Cardinality(S1)
  BY <1>1, FS_RemoveElement
<1>5. QED BY <1>2, <1>3, <1>4 DEF B

\* The same in hand.
SameHands(c, c1) ==
  /\ c1.ip = c.ip /\ c1.dip = c.dip /\ c1.fd = c.fd /\ c1.put = c.put /\ Up(c1) = Up(c) /\ Rip(c1) = Rip(c)

\* References are counted in natural numbers.
LEMMA RefNat == \A c, s : RefP(c, s) \in Nat
BY DEF RefP, B

\* When only p changes what it has in hand, the references to a slot change by p's.
LEMMA ProcRefsMove ==
  ASSUME NEW w, NEW w1, NEW p \in Proc, NEW s, \A q \in Proc \ {p} : SameHands(w[q], w1[q])
  PROVE  /\ ProcRefs(w, s) \in Nat /\ ProcRefs(w1, s) \in Nat
         /\ RefP(w[p], s) \in Nat /\ RefP(w1[p], s) \in Nat
         /\ ProcRefs(w1, s) = ProcRefs(w, s) - RefP(w[p], s) + RefP(w1[p], s)
<1> DEFINE A1 == {q \in Proc : w[q].ip = s}    b1 == {q \in Proc : w1[q].ip = s}
           A2 == {q \in Proc : w[q].dip = s}   b2 == {q \in Proc : w1[q].dip = s}
           A3 == {q \in Proc : w[q].fd = s}    b3 == {q \in Proc : w1[q].fd = s}
           A4 == {q \in Proc : w[q].put = s}   b4 == {q \in Proc : w1[q].put = s}
           A5 == {q \in Proc : Up(w[q]) = s}   b5 == {q \in Proc : Up(w1[q]) = s}
           A6 == {q \in Proc : Rip(w[q]) = s}  b6 == {q \in Proc : Rip(w1[q]) = s}
<1>1. Cardinality(A1) \in Nat /\ Cardinality(b1) \in Nat /\ Cardinality(b1) = Cardinality(A1) - B(w[p].ip = s) + B(w1[p].ip = s)
  <2>1. A1 \in SUBSET Proc /\ b1 \in SUBSET Proc /\ A1 \ {p} = b1 \ {p} BY DEF SameHands
  <2>2. (p \in A1) = (w[p].ip = s) /\ (p \in b1) = (w1[p].ip = s) OBVIOUS
  <2> HIDE DEF A1, b1
  <2>3. QED BY <2>1, <2>2, ProcAssumption, CardOff
<1>2. Cardinality(A2) \in Nat /\ Cardinality(b2) \in Nat /\ Cardinality(b2) = Cardinality(A2) - B(w[p].dip = s) + B(w1[p].dip = s)
  <2>1. A2 \in SUBSET Proc /\ b2 \in SUBSET Proc /\ A2 \ {p} = b2 \ {p} BY DEF SameHands
  <2>2. (p \in A2) = (w[p].dip = s) /\ (p \in b2) = (w1[p].dip = s) OBVIOUS
  <2> HIDE DEF A2, b2
  <2>3. QED BY <2>1, <2>2, ProcAssumption, CardOff
<1>3. Cardinality(A3) \in Nat /\ Cardinality(b3) \in Nat /\ Cardinality(b3) = Cardinality(A3) - B(w[p].fd = s) + B(w1[p].fd = s)
  <2>1. A3 \in SUBSET Proc /\ b3 \in SUBSET Proc /\ A3 \ {p} = b3 \ {p} BY DEF SameHands
  <2>2. (p \in A3) = (w[p].fd = s) /\ (p \in b3) = (w1[p].fd = s) OBVIOUS
  <2> HIDE DEF A3, b3
  <2>3. QED BY <2>1, <2>2, ProcAssumption, CardOff
<1>4. Cardinality(A4) \in Nat /\ Cardinality(b4) \in Nat /\ Cardinality(b4) = Cardinality(A4) - B(w[p].put = s) + B(w1[p].put = s)
  <2>1. A4 \in SUBSET Proc /\ b4 \in SUBSET Proc /\ A4 \ {p} = b4 \ {p} BY DEF SameHands
  <2>2. (p \in A4) = (w[p].put = s) /\ (p \in b4) = (w1[p].put = s) OBVIOUS
  <2> HIDE DEF A4, b4
  <2>3. QED BY <2>1, <2>2, ProcAssumption, CardOff
<1>5. Cardinality(A5) \in Nat /\ Cardinality(b5) \in Nat /\ Cardinality(b5) = Cardinality(A5) - B(Up(w[p]) = s) + B(Up(w1[p]) = s)
  <2>1. A5 \in SUBSET Proc /\ b5 \in SUBSET Proc /\ A5 \ {p} = b5 \ {p} BY DEF SameHands
  <2>2. (p \in A5) = (Up(w[p]) = s) /\ (p \in b5) = (Up(w1[p]) = s) OBVIOUS
  <2> HIDE DEF A5, b5
  <2>3. QED BY <2>1, <2>2, ProcAssumption, CardOff
<1>6. Cardinality(A6) \in Nat /\ Cardinality(b6) \in Nat /\ Cardinality(b6) = Cardinality(A6) - B(Rip(w[p]) = s) + B(Rip(w1[p]) = s)
  <2>1. A6 \in SUBSET Proc /\ b6 \in SUBSET Proc /\ A6 \ {p} = b6 \ {p} BY DEF SameHands
  <2>2. (p \in A6) = (Rip(w[p]) = s) /\ (p \in b6) = (Rip(w1[p]) = s) OBVIOUS
  <2> HIDE DEF A6, b6
  <2>3. QED BY <2>1, <2>2, ProcAssumption, CardOff
<1>7. /\ ProcRefs(w, s) = Cardinality(A1) + Cardinality(A2) + Cardinality(A3) + Cardinality(A4)
                          + Cardinality(A5) + Cardinality(A6)
      /\ ProcRefs(w1, s) = Cardinality(b1) + Cardinality(b2) + Cardinality(b3) + Cardinality(b4)
                          + Cardinality(b5) + Cardinality(b6)
  BY DEF ProcRefs
<1> HIDE DEF A1, A2, A3, A4, A5, A6, b1, b2, b3, b4, b5, b6
<1>8. RefP(w[p], s) \in Nat /\ RefP(w1[p], s) \in Nat BY RefNat
<1>9. ProcRefs(w, s) \in Nat /\ ProcRefs(w1, s) \in Nat BY <1>1, <1>2, <1>3, <1>4, <1>5, <1>6, <1>7
<1> DEFINE x1 == B(w[p].ip = s)
           y1 == B(w1[p].ip = s)
           x2 == B(w[p].dip = s)
           y2 == B(w1[p].dip = s)
           x3 == B(w[p].fd = s)
           y3 == B(w1[p].fd = s)
           x4 == B(w[p].put = s)
           y4 == B(w1[p].put = s)
           x5 == B(Up(w[p]) = s)
           y5 == B(Up(w1[p]) = s)
           x6 == B(Rip(w[p]) = s)
           y6 == B(Rip(w1[p]) = s)
<1>a. /\ RefP(w[p], s) = x1 + x2 + x3 + x4 + x5 + x6
      /\ RefP(w1[p], s) = y1 + y2 + y3 + y4 + y5 + y6
  BY DEF RefP
<1>b. /\ x1 \in Nat /\ x2 \in Nat /\ x3 \in Nat /\ x4 \in Nat /\ x5 \in Nat /\ x6 \in Nat
      /\ y1 \in Nat /\ y2 \in Nat /\ y3 \in Nat /\ y4 \in Nat /\ y5 \in Nat /\ y6 \in Nat
  BY DEF B
<1>c. /\ Cardinality(b1) = Cardinality(A1) - x1 + y1 /\ Cardinality(b2) = Cardinality(A2) - x2 + y2
      /\ Cardinality(b3) = Cardinality(A3) - x3 + y3 /\ Cardinality(b4) = Cardinality(A4) - x4 + y4
      /\ Cardinality(b5) = Cardinality(A5) - x5 + y5 /\ Cardinality(b6) = Cardinality(A6) - x6 + y6
  BY <1>1, <1>2, <1>3, <1>4, <1>5, <1>6
<1>d. /\ Cardinality(A1) \in Nat /\ Cardinality(A2) \in Nat /\ Cardinality(A3) \in Nat
      /\ Cardinality(A4) \in Nat /\ Cardinality(A5) \in Nat /\ Cardinality(A6) \in Nat
  BY <1>1, <1>2, <1>3, <1>4, <1>5, <1>6
<1> HIDE DEF x1, x2, x3, x4, x5, x6, y1, y2, y3, y4, y5, y6
<1>10. ProcRefs(w1, s) = ProcRefs(w, s) - RefP(w[p], s) + RefP(w1[p], s)
  BY <1>7, <1>a, <1>b, <1>c, <1>d
<1>11. QED BY <1>8, <1>9, <1>10

\* A count is at least what one process, or two, have.
LEMMA NoRefs == \A s \in Slot : RefP(Idle, s) = 0 /\ Up(Idle) = 0 /\ Rip(Idle) = 0
BY SlotFacts DEF RefP, B, Idle, Up, Rip, Top

\* The references of one process are among all references.
LEMMA RefsOne ==
  ASSUME NEW w, w = [q \in Proc |-> w[q]], NEW p \in Proc, NEW s \in Slot
  PROVE  ProcRefs(w, s) \in Nat /\ ProcRefs(w, s) >= RefP(w[p], s)
<1> DEFINE w1 == [w EXCEPT ![p] = Idle]
<1>1. \A q \in Proc \ {p} : SameHands(w[q], w1[q]) BY DEF SameHands
<1>2. w1[p] = Idle OBVIOUS
<1> HIDE DEF w1
<1>3. /\ ProcRefs(w, s) \in Nat /\ ProcRefs(w1, s) \in Nat
      /\ ProcRefs(w1, s) = ProcRefs(w, s) - RefP(w[p], s) + RefP(w1[p], s)
  BY <1>1, ProcRefsMove
<1>4. RefP(w1[p], s) = 0 /\ RefP(w[p], s) \in Nat BY <1>2, NoRefs, RefNat
<1>5. QED BY <1>3, <1>4

\* So are those of two processes together.
LEMMA RefsTwo ==
  ASSUME NEW w, w = [q \in Proc |-> w[q]], NEW p \in Proc, NEW r \in Proc, p # r, NEW s \in Slot
  PROVE  ProcRefs(w, s) >= RefP(w[p], s) + RefP(w[r], s)
<1> DEFINE w1 == [w EXCEPT ![p] = Idle]
<1>1. \A q \in Proc \ {p} : SameHands(w[q], w1[q]) BY DEF SameHands
<1>2. w1[p] = Idle /\ w1[r] = w[r] /\ w1 = [q \in Proc |-> w1[q]] OBVIOUS
<1> HIDE DEF w1
<1>3. ProcRefs(w1, s) >= RefP(w[r], s) BY <1>2, RefsOne
<1>4. QED BY <1>1, <1>2, <1>3, ProcRefsMove, NoRefs, RefNat

-----------------------------------------------------------------------------
(* The inductive invariant. *)
\* What iget is asked for tells what called it.
KeyOK(key, b) == CASE b = "dir" -> key = "mp"
                   [] b = "more" -> key = "sub"
                   [] b = "fson3" -> key = "root"
                   [] OTHER -> key \in InFs

\* Where a file is made or opened: the process has none open.
Opens == {"ialloc", "ialloc2", "restock", "domkfile", "mkinode", "mkname", "open1"}
\* What a process has in hand tells where it is: stack pc and hands belong together.
HandOK(c, pc) ==
  /\ StackOK(pc)
  /\ c.put # 0 <=> Top(pc) \in {"fstrunc", "fsiupdat"}
  /\ c.dip # 0 <=> Bot(pc) \in WithDip
  /\ c.rip # 0 <=> Bot(pc) \in WithRip
  /\ c.mip # 0 <=> Bot(pc) \in WithMip
  /\ c.ip # 0 => Bot(pc) \in WithIp \cup PerhapsIp
  /\ Bot(pc) \in WithIp => c.ip # 0
  /\ Top(pc) = "iget" => c.ip = 0 /\ KeyOK(c.key, Bot(pc))
  /\ Top(pc) = "fsiread" => c.ip # 0
  /\ Top(pc) = "upput" => c.up # 0
  /\ Bot(pc) = "closef" => c.fd # 0
  /\ Bot(pc) = "more" => c.op \in {"open", "creat", "exec", "unlink"}
  /\ Bot(pc) = "plockdir" => c.op = "dotdot"
  /\ Bot(pc) \in {"funmount", "fsoff", "unhang"} => c.op = "unmount"
  /\ c.op \in {"open", "creat", "exec", "unlink"} => c.name \in Name
  /\ c.op \in {"open", "creat"} \/ Bot(pc) \in Opens => c.fd = 0
  /\ Bot(pc) = "putdir" /\ c.ip # 0 => c.fd = 0
  /\ Bot(pc) = "got" => c.op \in {"open", "creat", "exec"}

\* The part about the open file; it holds for c1 when c1 has the file of c, or less to say.
FdOK(c, b) ==
  /\ c.op \in {"open", "creat"} \/ b \in Opens => c.fd = 0
  /\ b = "putdir" /\ c.ip # 0 => c.fd = 0
  /\ b = "got" => c.op \in {"open", "creat", "exec"}

\* An open file is no part of what the place of a process says it has in hand.
LEMMA HandFd == \A c, pc : HandOK(c, pc) => FdOK(c, Bot(pc))
BY DEF HandOK, FdOK

\* Those are places where namei has returned a directory or an inode.
LEMMA OpensIn ==
  /\ Opens \subseteq WithDip \cup WithIp /\ Opens \cap {"", "putdir", "got"} = {}
  /\ \A b : b \notin WithDip \cup WithIp => b \notin Opens \cup {"putdir", "got"}
BY DEF Opens, WithDip, WithIp

\* HandOK looks at the hands only.
LEMMA HandSame ==
  ASSUME NEW c, NEW pc, NEW c1, NEW pc1, HandOK(c, pc), StackOK(pc1), Bot(pc1) = Bot(pc),
         c1.ip = c.ip, c1.dip = c.dip, c1.rip = c.rip, c1.mip = c.mip, c1.fd = c.fd, c1.op = c.op, c1.name = c.name,
         c1.put # 0 <=> Top(pc1) \in {"fstrunc", "fsiupdat"}, Top(pc1) \notin {"iget", "fsiread", "upput"}
  PROVE  HandOK(c1, pc1)
<1> DEFINE b == Bot(pc)
<1>1. /\ c.dip # 0 <=> b \in WithDip
      /\ c.rip # 0 <=> b \in WithRip
      /\ c.mip # 0 <=> b \in WithMip
      /\ c.ip # 0 => b \in WithIp \cup PerhapsIp
      /\ b \in WithIp => c.ip # 0
      /\ b = "closef" => c.fd # 0
      /\ b = "more" => c.op \in {"open", "creat", "exec", "unlink"}
      /\ b = "plockdir" => c.op = "dotdot"
      /\ b \in {"funmount", "fsoff", "unhang"} => c.op = "unmount"
      /\ c.op \in {"open", "creat", "exec", "unlink"} => c.name \in Name
      /\ FdOK(c, b)
  BY HandFd DEF HandOK
<1> HIDE DEF b
<1>2. Bot(pc1) = b BY DEF b
<1>3. FdOK(c1, b) BY <1>1 DEF FdOK
<1>4. QED BY <1>1, <1>2, <1>3 DEF HandOK, FdOK

\* What a process has locked, it has locked once.
Apart(c) ==
  /\ c.ip # 0 => c.ip # c.put /\ (c.ip # c.dip \/ Walk(c))
  /\ c.put # 0 => c.put # c.rip /\ (c.put # c.dip \/ Walk(c))
  /\ c.rip # 0 => c.rip # Up(c)

\* A process is in order,
ProcOK(c) == HandOK(c, c.pc) /\ Apart(c)

\* i_count counts the references of processes, mounting and texts,
CountInv(k, X) == \A s \in Slot : k.node[s].count = ProcRefs(k.u, s) + MountRefs(k.node, s) + X[s]
\* a locked inode was locked by one process, and only what a process has locked is locked,
LockInv(k) ==
  \A s \in Slot :
    /\ k.node[s].lock <=> \E q \in Proc : HoldP(k.u[q], s)
    /\ \A q, r \in Proc : HoldP(k.u[q], s) /\ HoldP(k.u[r], s) => q = r

\* who sleeps for a lock is called when it is given up, for IWANT is set,
SleepInv(k) ==
  \A q \in Proc :
    /\ \A s \in Slot : k.u[q].chan = On(s) => k.node[s].lock /\ k.node[s].want
    /\ k.u[q].chan = <<"ilock", 0>> => k.fs.ilock /\ Top(k.u[q].pc) = "ialloc"
    /\ k.u[q].pc = <<>> => k.u[q].chan = Awake

\* an inode is in one slot, and the slots with none are the free list, unlocked.
TableInv(k) ==
  /\ \A s, t \in Slot : s # t /\ k.node[s].ino # "none" => k.node[s].ino # k.node[t].ino
  /\ \A i \in 1..Len(k.freel) : k.node[k.freel[i]].ino = "none"
  /\ \A s \in Slot : k.node[s].ino = "none" => \E i \in 1..Len(k.freel) : k.freel[i] = s
  /\ \A i, j \in 1..Len(k.freel) : k.freel[i] = k.freel[j] => i = j
  /\ \A s \in Slot : k.node[s].ino = "none" <=> k.node[s].count = 0
  /\ \A s \in Slot : k.node[s].ino = "none" => ~k.node[s].lock

\* The references of texts, X.
Texts(X) == \A s \in Slot : X[s] \in Nat
\* The books.
Core(k, X) == /\ Types(k) /\ Texts(X) /\ \A q \in Proc : ProcOK(k.u[q])
              /\ CountInv(k, X) /\ LockInv(k) /\ SleepInv(k) /\ TableInv(k)

-----------------------------------------------------------------------------
(* A step of p: what it does to the others, to counts, locks, sleepers and the table. *)
Others(k, k1, p) == \A q \in Proc \ {p} : /\ KeepU(k.u[q], k1.u[q], {"chan"})
                                          /\ k1.u[q].chan \in {k.u[q].chan, Awake}

\* The counts go with the references,
Ledger(k, k1, p, X, X1) ==
  \A t \in Slot : k1.node[t].count - RefP(k1.u[p], t) - MountRefs(k1.node, t) - X1[t]
                = k.node[t].count - RefP(k.u[p], t) - MountRefs(k.node, t) - X[t]

\* the locks with what is locked,
Locking(k, k1, p) ==
  \A t \in Slot : /\ k1.node[t].lock <=> (HoldP(k1.u[p], t) \/ (k.node[t].lock /\ ~HoldP(k.u[p], t)))
                  /\ HoldP(k1.u[p], t) => HoldP(k.u[p], t) \/ ~k.node[t].lock

\* and who has to be called is called.
Waking(k, k1, p) ==
  /\ \A q \in Proc \ {p}, t \in Slot :
       k1.u[q].chan = On(t) /\ k.node[t].lock /\ k.node[t].want => k1.node[t].lock /\ k1.node[t].want
  /\ \A q \in Proc \ {p} : k1.u[q].chan = <<"ilock", 0>> /\ k.fs.ilock => k1.fs.ilock
  /\ \A t \in Slot : k1.u[p].chan = On(t) => k1.node[t].lock /\ k1.node[t].want
  /\ k1.u[p].chan = <<"ilock", 0>> => k1.fs.ilock /\ Top(k1.u[p].pc) = "ialloc"
  /\ k1.u[p].pc = <<>> => k1.u[p].chan = Awake

\* A process that is woken has in hand, and has locked, what it had before.
LEMMA KeepHands ==
  ASSUME NEW c, NEW c1, KeepU(c, c1, {"chan"})
  PROVE  /\ SameHands(c, c1) /\ c1.pc = c.pc /\ Walk(c1) = Walk(c)
         /\ \A s : RefP(c1, s) = RefP(c, s)
         /\ \A s : HoldP(c1, s) = HoldP(c, s)
         /\ ProcOK(c1) = ProcOK(c)
<1>1. /\ c1.ip = c.ip /\ c1.dip = c.dip /\ c1.fd = c.fd /\ c1.put = c.put /\ c1.up = c.up
      /\ c1.rip = c.rip /\ c1.mip = c.mip /\ c1.pc = c.pc /\ c1.key = c.key /\ c1.op = c.op /\ c1.name = c.name
  BY DEF KeepU, UserF
<1>2. SameHands(c, c1) /\ Walk(c1) = Walk(c) BY <1>1 DEF SameHands, Up, Rip, Walk
<1>3. \A s : RefP(c1, s) = RefP(c, s) BY <1>1, <1>2 DEF RefP, SameHands
<1>4. \A s : HoldP(c1, s) = HoldP(c, s) BY <1>1, <1>2 DEF HoldP, SameHands
<1>5. HandOK(c1, c1.pc) = HandOK(c, c.pc) BY <1>1 DEF HandOK
<1>6. Apart(c1) = Apart(c) BY <1>1, <1>2 DEF Apart, SameHands
<1>7. QED BY <1>1, <1>2, <1>3, <1>4, <1>5, <1>6 DEF ProcOK

\* So are the references of mounting.
LEMMA MountNat == \A n : \A s \in Slot : MountRefs(n, s) \in Nat
<1> SUFFICES ASSUME NEW n, NEW s \in Slot PROVE MountRefs(n, s) \in Nat OBVIOUS
<1>1. {m \in Slot : n[m].mroot = s \/ (m = s /\ n[m].mroot # 0)} \in SUBSET Slot OBVIOUS
<1>2. QED BY <1>1, SlotFinite, FS_Subset, FS_CardinalityType DEF MountRefs

\* If the books of p balance, every count is exact again.
LEMMA CountKeep ==
  ASSUME NEW k, NEW k1, NEW p \in Proc, NEW X, NEW X1, Types(k), Types(k1), Texts(X), Texts(X1),
         CountInv(k, X), Others(k, k1, p), Ledger(k, k1, p, X, X1)
  PROVE  CountInv(k1, X1)
<1> SUFFICES ASSUME NEW s \in Slot
             PROVE  k1.node[s].count = ProcRefs(k1.u, s) + MountRefs(k1.node, s) + X1[s]
  BY DEF CountInv
<1>1. \A q \in Proc \ {p} : SameHands(k.u[q], k1.u[q]) BY KeepHands DEF Others
<1> DEFINE w == k.u  w1 == k1.u
<1>2. \A q \in Proc \ {p} : SameHands(w[q], w1[q]) BY <1>1
<1> HIDE DEF w, w1
<1>3. /\ ProcRefs(w, s) \in Nat /\ ProcRefs(w1, s) \in Nat
      /\ RefP(w[p], s) \in Nat /\ RefP(w1[p], s) \in Nat
      /\ ProcRefs(w1, s) = ProcRefs(w, s) - RefP(w[p], s) + RefP(w1[p], s)
  BY <1>2, ProcRefsMove, ZenonT(20)
<1>4. k.node[s].count \in Int /\ k1.node[s].count \in Int BY DEF Types, NodesOK, NodeOK
<1>5. MountRefs(k.node, s) \in Nat /\ MountRefs(k1.node, s) \in Nat BY MountNat
<1>6. k.node[s].count = ProcRefs(w, s) + MountRefs(k.node, s) + X[s] BY DEF CountInv, w
<1>7. k1.node[s].count - RefP(w1[p], s) - MountRefs(k1.node, s) - X1[s]
    = k.node[s].count - RefP(w[p], s) - MountRefs(k.node, s) - X[s]
  BY DEF Ledger, w, w1
<1>8. X[s] \in Nat /\ X1[s] \in Nat BY DEF Texts
<1>9. k1.node[s].count = ProcRefs(w1, s) + MountRefs(k1.node, s) + X1[s]
  BY <1>3, <1>4, <1>5, <1>6, <1>7, <1>8
<1>10. QED BY <1>9 DEF w1

\* If the locks of p balance, every lock has one owner again.
LEMMA LockKeep ==
  ASSUME NEW k, NEW k1, NEW p \in Proc, Types(k), Types(k1),
         LockInv(k), Others(k, k1, p), Locking(k, k1, p)
  PROVE  LockInv(k1)
<1>1. \A q \in Proc \ {p}, s \in Slot : HoldP(k1.u[q], s) = HoldP(k.u[q], s) BY KeepHands DEF Others
<1> SUFFICES ASSUME NEW s \in Slot
             PROVE  /\ k1.node[s].lock <=> \E q \in Proc : HoldP(k1.u[q], s)
                    /\ \A q, r \in Proc : HoldP(k1.u[q], s) /\ HoldP(k1.u[r], s) => q = r
  BY DEF LockInv
<1>2. /\ k.node[s].lock <=> \E q \in Proc : HoldP(k.u[q], s)
      /\ \A q, r \in Proc : HoldP(k.u[q], s) /\ HoldP(k.u[r], s) => q = r
  BY DEF LockInv
<1>3. /\ k1.node[s].lock <=> (HoldP(k1.u[p], s) \/ (k.node[s].lock /\ ~HoldP(k.u[p], s)))
      /\ HoldP(k1.u[p], s) => HoldP(k.u[p], s) \/ ~k.node[s].lock
  BY DEF Locking
<1>4. QED BY <1>1, <1>2, <1>3

\* If p wakes whom it should, nobody is forgotten.
LEMMA SleepKeep ==
  ASSUME NEW k, NEW k1, NEW p \in Proc, SleepInv(k), Others(k, k1, p), Waking(k, k1, p)
  PROVE  SleepInv(k1)
<1> SUFFICES ASSUME NEW q \in Proc
             PROVE  /\ \A s \in Slot : k1.u[q].chan = On(s) => k1.node[s].lock /\ k1.node[s].want
                    /\ k1.u[q].chan = <<"ilock", 0>> => k1.fs.ilock /\ Top(k1.u[q].pc) = "ialloc"
                    /\ k1.u[q].pc = <<>> => k1.u[q].chan = Awake
  BY DEF SleepInv
<1>1. CASE q = p BY <1>1 DEF Waking
<1>2. CASE q # p
  <2>1. k1.u[q].chan \in {k.u[q].chan, Awake} /\ k1.u[q].pc = k.u[q].pc BY <1>2, KeepHands DEF Others
  <2>2. ASSUME NEW s \in Slot, k1.u[q].chan = On(s) PROVE k1.node[s].lock /\ k1.node[s].want
    <3>1. k.u[q].chan = On(s) BY <2>1, <2>2, AwakeOn
    <3>2. k.node[s].lock /\ k.node[s].want BY <3>1 DEF SleepInv
    <3>3. QED BY <1>2, <2>2, <3>2 DEF Waking
  <2>3. ASSUME k1.u[q].chan = <<"ilock", 0>> PROVE k1.fs.ilock /\ Top(k1.u[q].pc) = "ialloc"
    <3>1. k.u[q].chan = <<"ilock", 0>> BY <2>1, <2>3 DEF Awake
    <3>2. k.fs.ilock /\ Top(k.u[q].pc) = "ialloc" BY <3>1 DEF SleepInv
    <3>3. k1.fs.ilock BY <1>2, <2>3, <3>2 DEF Waking
    <3>4. QED BY <2>1, <3>2, <3>3
  <2>4. k1.u[q].pc = <<>> => k1.u[q].chan = Awake BY <2>1 DEF SleepInv
  <2>5. QED BY <2>2, <2>3, <2>4
<1>3. QED BY <1>1, <1>2

\* Waking a process leaves it in order.
LEMMA ProcKeep ==
  ASSUME NEW k, NEW k1, NEW p \in Proc, \A q \in Proc : ProcOK(k.u[q]), Others(k, k1, p), ProcOK(k1.u[p])
  PROVE  \A q \in Proc : ProcOK(k1.u[q])
BY KeepHands DEF Others

-----------------------------------------------------------------------------
(* The table: no slot changes hands, z is freed, or z is taken for an inode that was not there. *)
SameSlot(r, r1) == /\ r1.ino = r.ino /\ (r1.count = 0 <=> r.count = 0)
                   /\ r1.lock => r.lock \/ r.ino # "none"

\* No inode comes or goes,
Stays(k, k1) == k1.freel = k.freel /\ \A t \in Slot : SameSlot(k.node[t], k1.node[t])
\* the inode in z goes,
Frees(k, k1, z) ==
  /\ k1.freel = <<z>> \o k.freel /\ \A t \in Slot \ {z} : SameSlot(k.node[t], k1.node[t])
  /\ k.node[z].ino # "none" /\ k1.node[z].ino = "none" /\ k1.node[z].count = 0 /\ ~k1.node[z].lock

\* or key comes, into slot z.
Fills(k, k1, z, key) ==
  /\ k.freel # <<>> /\ z = Head(k.freel) /\ k1.freel = Tail(k.freel)
  /\ \A t \in Slot \ {z} : SameSlot(k.node[t], k1.node[t])
  /\ k1.node[z].ino = key /\ key # "none" /\ k1.node[z].count # 0 /\ \A t \in Slot : k.node[t].ino # key

\* A sequence with one more in front.
LEMMA ConsSeq ==
  ASSUME NEW S, NEW l \in Seq(S), NEW z \in S
  PROVE  /\ Len(<<z>> \o l) = Len(l) + 1 /\ (<<z>> \o l)[1] = z
         /\ \A i \in 1..Len(l) : (<<z>> \o l)[i + 1] = l[i]
         /\ Len(l) \in Nat /\ \A i \in 1..Len(l) : l[i] \in S
OBVIOUS

\* A sequence without its first.
LEMMA TailSeq ==
  ASSUME NEW S, NEW l \in Seq(S), l # <<>>
  PROVE  /\ Len(Tail(l)) = Len(l) - 1 /\ Head(l) = l[1] /\ Len(l) \in Nat /\ Len(l) > 0
         /\ \A i \in 1..(Len(l) - 1) : Tail(l)[i] = l[i + 1]
         /\ \A i \in 1..Len(l) : l[i] \in S
OBVIOUS

\* The hash chains and the free list, when no inode comes or goes,
LEMMA StaysKeep ==
  ASSUME NEW k, NEW k1, Types(k), TableInv(k), Stays(k, k1) PROVE TableInv(k1)
<1>1. \A i \in 1..Len(k.freel) : k.freel[i] \in Slot BY DEF Types
<1>2. k1.freel = k.freel /\ \A t \in Slot : SameSlot(k.node[t], k1.node[t]) BY DEF Stays
<1>3. \A t \in Slot : k1.node[t].ino = k.node[t].ino /\ (k1.node[t].count = 0 <=> k.node[t].count = 0)
                      /\ (k1.node[t].lock => k.node[t].lock \/ k.node[t].ino # "none")
  BY <1>2 DEF SameSlot
<1>4. \A s, t \in Slot : s # t /\ k1.node[s].ino # "none" => k1.node[s].ino # k1.node[t].ino
  BY <1>3 DEF TableInv
<1>5. \A i \in 1..Len(k1.freel) : k1.node[k1.freel[i]].ino = "none" BY <1>1, <1>2, <1>3 DEF TableInv
<1>6. \A s \in Slot : k1.node[s].ino = "none" => \E i \in 1..Len(k1.freel) : k1.freel[i] = s
  BY <1>2, <1>3 DEF TableInv
<1>7. \A i, j \in 1..Len(k1.freel) : k1.freel[i] = k1.freel[j] => i = j BY <1>2 DEF TableInv
<1>8. \A s \in Slot : k1.node[s].ino = "none" <=> k1.node[s].count = 0 BY <1>3 DEF TableInv
<1>9. \A s \in Slot : k1.node[s].ino = "none" => ~k1.node[s].lock BY <1>3 DEF TableInv
<1>10. QED BY <1>4, <1>5, <1>6, <1>7, <1>8, <1>9 DEF TableInv

\* when one goes,
LEMMA FreesKeep ==
  ASSUME NEW k, NEW k1, NEW z \in Slot, Types(k), TableInv(k), Frees(k, k1, z) PROVE TableInv(k1)
<1> DEFINE l == k.freel  l1 == k1.freel
<1>1. l \in Seq(Slot) /\ l1 = <<z>> \o l BY DEF Types, Frees
<1> HIDE DEF l, l1
<1>2. /\ Len(l1) = Len(l) + 1 /\ l1[1] = z /\ (\A i \in 1..Len(l) : l1[i + 1] = l[i])
      /\ Len(l) \in Nat /\ \A i \in 1..Len(l) : l[i] \in Slot
  BY <1>1, ConsSeq
<1>3. \A i \in 1..Len(l1) : \/ i = 1 /\ l1[i] = z
                            \/ i # 1 /\ i - 1 \in 1..Len(l) /\ l1[i] = l[i - 1] /\ l[i - 1] \in Slot
  <2> TAKE i \in 1..Len(l1)
  <2>1. CASE i = 1
    <3>1. l1[1] = z BY <1>2
    <3>2. l1[i] = z BY <2>1, <3>1
    <3>3. QED BY <2>1, <3>2
  <2>2. CASE i # 1
    <3>1. i - 1 \in 1..Len(l) /\ (i - 1) + 1 = i BY <1>2, <2>2
    <3>2. QED BY <2>2, <3>1, <1>2
  <2>3. QED BY <2>1, <2>2
<1>4. \A i \in 1..Len(l) : i + 1 \in 1..Len(l1) BY <1>2
<1>5. /\ \A s, t \in Slot : s # t /\ k.node[s].ino # "none" => k.node[s].ino # k.node[t].ino
      /\ \A i \in 1..Len(l) : k.node[l[i]].ino = "none"
      /\ \A s \in Slot : k.node[s].ino = "none" => \E i \in 1..Len(l) : l[i] = s
      /\ \A i, j \in 1..Len(l) : l[i] = l[j] => i = j
      /\ \A s \in Slot : k.node[s].ino = "none" <=> k.node[s].count = 0
      /\ \A s \in Slot : k.node[s].ino = "none" => ~k.node[s].lock
  BY DEF TableInv, l
<1>6. /\ \A t \in Slot \ {z} : SameSlot(k.node[t], k1.node[t])
      /\ k.node[z].ino # "none" /\ k1.node[z].ino = "none" /\ k1.node[z].count = 0 /\ ~k1.node[z].lock
  BY DEF Frees
<1>7. \A s, t \in Slot : s # t /\ k1.node[s].ino # "none" => k1.node[s].ino # k1.node[t].ino
  BY <1>5, <1>6 DEF SameSlot
<1>8. ASSUME NEW i \in 1..Len(l1) PROVE k1.node[l1[i]].ino = "none"
  <2>1. CASE i = 1
    <3>1. l1[i] = z BY <2>1, <1>3
    <3>2. QED BY <3>1, <1>6
  <2>2. CASE i # 1
    <3> DEFINE a == i - 1
    <3>1. a \in 1..Len(l) /\ l1[i] = l[a] /\ l[a] \in Slot BY <2>2, <1>3
    <3> HIDE DEF a
    <3>2. k.node[l[a]].ino = "none" BY <3>1, <1>5
    <3>3. l[a] # z BY <3>2, <1>6
    <3>4. QED BY <3>1, <3>2, <3>3, <1>6 DEF SameSlot
  <2>3. QED BY <2>1, <2>2
<1>9. \A s \in Slot : k1.node[s].ino = "none" => \E i \in 1..Len(l1) : l1[i] = s
  <2> SUFFICES ASSUME NEW s \in Slot, k1.node[s].ino = "none" PROVE \E i \in 1..Len(l1) : l1[i] = s OBVIOUS
  <2>1. CASE s = z
    <3>1. 1 \in 1..Len(l1) BY <1>2
    <3>2. QED BY <2>1, <3>1, <1>2
  <2>2. CASE s # z
    <3>1. PICK i \in 1..Len(l) : l[i] = s BY <2>2, <1>5, <1>6 DEF SameSlot
    <3>2. i + 1 \in 1..Len(l1) /\ l1[i + 1] = s BY <3>1, <1>2, <1>4
    <3>3. QED BY <3>2
  <2>3. QED BY <2>1, <2>2
<1>10. \A i, j \in 1..Len(l1) : l1[i] = l1[j] => i = j
  <2> SUFFICES ASSUME NEW i \in 1..Len(l1), NEW j \in 1..Len(l1), l1[i] = l1[j] PROVE i = j OBVIOUS
  <2>1. \A n \in 1..Len(l) : l[n] # z BY <1>5, <1>6
  <2>2. (i = 1 /\ l1[i] = z) \/ (i # 1 /\ i - 1 \in 1..Len(l) /\ l1[i] = l[i - 1]) BY <1>3
  <2>3. (j = 1 /\ l1[j] = z) \/ (j # 1 /\ j - 1 \in 1..Len(l) /\ l1[j] = l[j - 1]) BY <1>3
  <2>4. CASE i = 1 BY <2>4, <2>1, <2>2, <2>3
  <2>5. CASE i # 1 /\ j # 1
    <3> DEFINE a == i - 1  b == j - 1
    <3>1. a \in 1..Len(l) /\ b \in 1..Len(l) /\ l[a] = l[b] BY <2>5, <2>2, <2>3
    <3>2. i = a + 1 /\ j = b + 1 BY <1>2
    <3> HIDE DEF a, b
    <3>3. a = b BY <3>1, <1>5
    <3>4. QED BY <3>2, <3>3
  <2>6. QED BY <2>4, <2>5, <2>1, <2>2, <2>3
<1>11. \A s \in Slot : k1.node[s].ino = "none" <=> k1.node[s].count = 0
  BY <1>5, <1>6 DEF SameSlot
<1>12. \A s \in Slot : k1.node[s].ino = "none" => ~k1.node[s].lock
  BY <1>5, <1>6 DEF SameSlot
<1>13. QED BY <1>7, <1>8, <1>9, <1>10, <1>11, <1>12 DEF TableInv, l1

\* and when one comes.
LEMMA FillsKeep ==
  ASSUME NEW k, NEW k1, NEW z, NEW key, Types(k), TableInv(k), Fills(k, k1, z, key) PROVE TableInv(k1)
<1> DEFINE l == k.freel  l1 == k1.freel
<1>1. l \in Seq(Slot) /\ l # <<>> /\ l1 = Tail(l) /\ z = Head(l) BY DEF Types, Fills
<1> HIDE DEF l, l1
<1>2. /\ Len(l1) = Len(l) - 1 /\ z = l[1] /\ Len(l) \in Nat /\ Len(l) > 0
      /\ \A i \in 1..(Len(l) - 1) : l1[i] = l[i + 1]
      /\ \A i \in 1..Len(l) : l[i] \in Slot
  BY <1>1, TailSeq
<1>3. \A i \in 1..Len(l1) : i + 1 \in 1..Len(l) /\ l1[i] = l[i + 1] /\ l[i + 1] \in Slot
  <2> SUFFICES ASSUME NEW i \in 1..Len(l1) PROVE i + 1 \in 1..Len(l) /\ l1[i] = l[i + 1] /\ l[i + 1] \in Slot OBVIOUS
  <2>1. i \in 1..(Len(l) - 1) /\ i + 1 \in 1..Len(l) BY <1>2
  <2>2. QED BY <2>1, <1>2
<1>4. 1 \in 1..Len(l) /\ z \in Slot BY <1>2
<1>5. /\ \A s, t \in Slot : s # t /\ k.node[s].ino # "none" => k.node[s].ino # k.node[t].ino
      /\ \A i \in 1..Len(l) : k.node[l[i]].ino = "none"
      /\ \A s \in Slot : k.node[s].ino = "none" => \E i \in 1..Len(l) : l[i] = s
      /\ \A i, j \in 1..Len(l) : l[i] = l[j] => i = j
      /\ \A s \in Slot : k.node[s].ino = "none" <=> k.node[s].count = 0
      /\ \A s \in Slot : k.node[s].ino = "none" => ~k.node[s].lock
  BY DEF TableInv, l
<1>6. /\ \A t \in Slot \ {z} : SameSlot(k.node[t], k1.node[t])
      /\ k1.node[z].ino = key /\ key # "none" /\ k1.node[z].count # 0 /\ \A t \in Slot : k.node[t].ino # key
  BY DEF Fills
<1>7. \A s, t \in Slot : s # t /\ k1.node[s].ino # "none" => k1.node[s].ino # k1.node[t].ino
  BY <1>4, <1>5, <1>6 DEF SameSlot
<1>8. ASSUME NEW i \in 1..Len(l1) PROVE k1.node[l1[i]].ino = "none"
  <2>1. i + 1 \in 1..Len(l) /\ l1[i] = l[i + 1] /\ l[i + 1] \in Slot /\ i + 1 # 1 BY <1>3
  <2>2. l[i + 1] # z BY <2>1, <1>2, <1>4, <1>5
  <2>3. QED BY <2>1, <2>2, <1>5, <1>6 DEF SameSlot
<1>9. \A s \in Slot : k1.node[s].ino = "none" => \E i \in 1..Len(l1) : l1[i] = s
  <2> SUFFICES ASSUME NEW s \in Slot, k1.node[s].ino = "none" PROVE \E i \in 1..Len(l1) : l1[i] = s OBVIOUS
  <2>1. s # z BY <1>6
  <2>2. PICK i \in 1..Len(l) : l[i] = s BY <2>1, <1>5, <1>6 DEF SameSlot
  <2>3. i # 1 BY <2>1, <2>2, <1>2
  <2>4. i - 1 \in 1..Len(l1) /\ i - 1 \in 1..(Len(l) - 1) /\ (i - 1) + 1 = i BY <2>3, <1>2
  <2>5. l1[i - 1] = s BY <2>2, <2>4, <1>2
  <2>6. QED BY <2>4, <2>5
<1>10. ASSUME NEW i \in 1..Len(l1), NEW j \in 1..Len(l1), l1[i] = l1[j] PROVE i = j
  <2>1. i + 1 \in 1..Len(l) /\ l1[i] = l[i + 1] BY <1>3
  <2>2. j + 1 \in 1..Len(l) /\ l1[j] = l[j + 1] BY <1>3
  <2> DEFINE a == i + 1  b == j + 1
  <2>3. a \in 1..Len(l) /\ b \in 1..Len(l) /\ l[a] = l[b] BY <2>1, <2>2, <1>10
  <2>4. i = a - 1 /\ j = b - 1 BY <1>2
  <2> HIDE DEF a, b
  <2>5. a = b BY <2>3, <1>5
  <2>6. QED BY <2>4, <2>5
<1>11. \A s \in Slot : k1.node[s].ino = "none" <=> k1.node[s].count = 0
  BY <1>5, <1>6 DEF SameSlot
<1>12. \A s \in Slot : k1.node[s].ino = "none" => ~k1.node[s].lock
  BY <1>5, <1>6 DEF SameSlot
<1>13. QED BY <1>7, <1>8, <1>9, <1>10, <1>11, <1>12 DEF TableInv, l1

-----------------------------------------------------------------------------
(* What is mounted, and who mounts it or takes it away. *)
\* Where a process mounts a file system that is not mounted yet, or gives up one that is no more.
Owner == {"fson2", "fson3", "iputrip", "fsoffend"}
\* Where the inode in ip is the one of the number in key.
Named == {"got", "ialloc2", "domkfile", "mkinode", "mkname", "putdir", "open1"}
\* Something is mounted.
IsMounted(k) == \E m \in Slot : k.node[m].mroot # 0
\* Root and directory point at each other; an inode of the file system is in core only while
\* it is mounted, and knows where.
MountInv(k) ==
  /\ \A m \in Slot : k.node[m].mroot # 0 =>
       /\ k.node[m].ino = "mp" /\ k.fs.mdev
       /\ k.node[k.node[m].mroot].ino = "root" /\ k.node[k.node[m].mroot].mpoint = m
  /\ \A s \in Slot : k.node[s].ino \in InFs => \E m \in Slot : k.node[m].mroot # 0 /\ k.node[s].mpoint = m

\* c owns the mounting or unmounting that is under way, and has the root s.
OwnsRoot(c, s) == Bot(c.pc) \in Owner /\ (c.ip = s \/ c.put = s \/ c.rip = s)
\* One process at a time mounts or unmounts, and a root not mounted is in its hands.
OwnerInv(k) ==
  /\ \A p, q \in Proc : Bot(k.u[p].pc) \in Owner /\ Bot(k.u[q].pc) \in Owner => p = q
  /\ \A s \in Slot : k.node[s].ino = "root" =>
       (\E m \in Slot : k.node[m].mroot = s) \/ (\E p \in Proc : OwnsRoot(k.u[p], s))

\* A process on its way has in hand what the way says: the directory mounted on, the root, or a
\* directory or file below it.
PathOK(k, c) ==
  /\ Bot(c.pc) \in Owner => k.fs.mdev /\ ~IsMounted(k)
  /\ \A s \in Slot : RefP(c, s) # 0 /\ k.node[s].ino = "root" /\ ~IsMounted(k) => Bot(c.pc) \in Owner
  /\ c.fd # 0 => k.node[c.fd].ino = c.fino /\ c.fino \in InFs
  /\ Bot(c.pc) = "fson" => k.node[c.ip].ino \in {"mp", "root"}
  /\ Bot(c.pc) = "fson2" => k.node[c.ip].ino = "mp"
  /\ Bot(c.pc) = "dir" /\ c.ip # 0 => \/ k.node[c.ip].ino \in {"mp", "root"}
                                      \/ k.node[c.ip].ino = "sub" /\ c.op # "mount"
  /\ Bot(c.pc) = "more" /\ c.ip # 0 => k.node[c.ip].ino = "sub"
  /\ Bot(c.pc) \in Named /\ c.ip # 0 => k.node[c.ip].ino = c.key /\ c.key \in InFs
  /\ Bot(c.pc) = "fson3" => k.node[c.dip].ino = "mp"
  /\ Bot(c.pc) \in WithDip \ {"fson3"} => k.node[c.dip].ino \in {"root", "sub"}
  /\ Bot(c.pc) \in {"fsoff", "unhang"} => k.node[c.mip].mroot = c.rip
  /\ Bot(c.pc) = "plockdir" => k.node[c.mip].mroot # 0
  /\ Bot(c.pc) = "unhang" => \A s \in Slot : k.node[s].ino \notin {"mp", "none"} =>
                                               s = c.rip /\ k.node[s].count = 1

\* What is mounted is in order.
Mounts(k) == MountInv(k) /\ OwnerInv(k) /\ \A q \in Proc : PathOK(k, k.u[q])

\* Which routines are which: nobody is in two parts of a walk at once.
LEMMA Labels ==
  /\ WithDip \cap WithRip = {} /\ WithDip \cap WithMip = {}
  /\ (WithIp \cup PerhapsIp) \cap WithRip = {} /\ (WithIp \cup PerhapsIp) \cap WithMip = {}
  /\ "" \notin LastL /\ "" \notin Owner /\ "" \notin Named
  /\ WithDip \cap Owner = {"fson3"} /\ WithMip \cap Owner = {}
BY DEF WithDip, WithRip, WithMip, WithIp, PerhapsIp, LastL, Owner, Named

\* What a process has in hand are slots.
LEMMA HandTypes ==
  ASSUME NEW k, Types(k), NEW q \in Proc
  PROVE  LET c == k.u[q] IN
         /\ c.ip \in Opt /\ c.dip \in Opt /\ c.put \in Opt /\ c.up \in Opt /\ c.rip \in Opt
         /\ c.mip \in Opt /\ c.fd \in Opt /\ c.key \in Inos /\ c.pc \in Seq(Label)
         /\ \A x : x \in Opt /\ x # 0 => x \in Slot
BY DEF Types, UsersOK, UserOK, Opt

\* Each hand is a reference.
LEMMA HandRef ==
  ASSUME NEW c, NEW s \in Slot
  PROVE  /\ RefP(c, s) \in Nat
         /\ RefP(c, s) # 0 <=> \/ c.ip = s \/ c.dip = s \/ c.fd = s \/ c.put = s \/ Up(c) = s \/ Rip(c) = s
<1> DEFINE x1 == B(c.ip = s)  x2 == B(c.dip = s)  x3 == B(c.fd = s)  x4 == B(c.put = s)
           x5 == B(Up(c) = s)  x6 == B(Rip(c) = s)
<1>1. RefP(c, s) = x1 + x2 + x3 + x4 + x5 + x6 BY DEF RefP
<1>2. /\ x1 \in Nat /\ x2 \in Nat /\ x3 \in Nat /\ x4 \in Nat /\ x5 \in Nat /\ x6 \in Nat
  BY DEF B
<1>2a. /\ (x1 # 0) = (c.ip = s) /\ (x2 # 0) = (c.dip = s) /\ (x3 # 0) = (c.fd = s)
       /\ (x4 # 0) = (c.put = s) /\ (x5 # 0) = (Up(c) = s) /\ (x6 # 0) = (Rip(c) = s)
  BY DEF B
<1> HIDE DEF x1, x2, x3, x4, x5, x6
<1>3. RefP(c, s) \in Nat /\ (RefP(c, s) # 0 <=> (x1 # 0 \/ x2 # 0 \/ x3 # 0 \/ x4 # 0 \/ x5 # 0 \/ x6 # 0))
  BY <1>1, <1>2
<1>4. QED BY <1>3, <1>2a

\* All references together are a natural number.
LEMMA ProcRefsNat == \A w, s : ProcRefs(w, s) \in Nat
<1> SUFFICES ASSUME NEW w, NEW s PROVE ProcRefs(w, s) \in Nat OBVIOUS
<1>1. \A S \in SUBSET Proc : Cardinality(S) \in Nat
  BY ProcAssumption, FS_Subset, FS_CardinalityType
<1>2. /\ Cardinality({p \in Proc : w[p].ip = s}) \in Nat /\ Cardinality({p \in Proc : w[p].dip = s}) \in Nat
      /\ Cardinality({p \in Proc : w[p].fd = s}) \in Nat /\ Cardinality({p \in Proc : w[p].put = s}) \in Nat
      /\ Cardinality({p \in Proc : Up(w[p]) = s}) \in Nat /\ Cardinality({p \in Proc : Rip(w[p]) = s}) \in Nat
  BY <1>1
<1>3. QED BY <1>2 DEF ProcRefs

\* A mounted root and what it is mounted on are counted.
LEMMA MountPos ==
  ASSUME NEW n, NEW s \in Slot, NEW m \in Slot, n[m].mroot = s \/ (m = s /\ n[m].mroot # 0)
  PROVE  MountRefs(n, s) # 0
<1> DEFINE S == {r \in Slot : n[r].mroot = s \/ (r = s /\ n[r].mroot # 0)}
<1>1. m \in S OBVIOUS
<1>2. IsFiniteSet(S) BY SlotFinite, FS_Subset
<1>3. MountRefs(n, s) = Cardinality(S) BY DEF MountRefs
<1> HIDE DEF S
<1>4. QED BY <1>1, <1>2, <1>3, FS_EmptySet

\* Whoever refers to a slot finds an inode there.
LEMMA RefIno ==
  ASSUME NEW k, NEW X, Core(k, X), NEW s \in Slot,
         \/ \E q \in Proc : RefP(k.u[q], s) # 0
         \/ \E m \in Slot : k.node[m].mroot = s \/ (m = s /\ k.node[m].mroot # 0)
         \/ X[s] # 0
  PROVE  k.node[s].ino # "none" /\ k.node[s].count \in Nat \ {0}
<1>1. k.node[s].count = ProcRefs(k.u, s) + MountRefs(k.node, s) + X[s] BY DEF Core, CountInv
<1>2. MountRefs(k.node, s) \in Nat /\ X[s] \in Nat BY MountNat DEF Core, Texts
<1>3. k.u = [q \in Proc |-> k.u[q]] BY DEF Core, Types, UsersOK
<1>5. ProcRefs(k.u, s) \in Nat BY ProcRefsNat
<1>6. k.node[s].count # 0
  <2>1. CASE \E q \in Proc : RefP(k.u[q], s) # 0
    <3>1. PICK q \in Proc : RefP(k.u[q], s) # 0 BY <2>1
    <3> DEFINE w == k.u
    <3>2. w = [r \in Proc |-> w[r]] BY <1>3
    <3> HIDE DEF w
    <3>3. ProcRefs(w, s) >= RefP(w[q], s) BY <3>2, RefsOne, ZenonT(20)
    <3>4. RefP(w[q], s) \in Nat BY RefNat
    <3>5. ProcRefs(w, s) # 0 BY <3>1, <3>3, <3>4, ProcRefsNat DEF w
    <3>6. QED BY <3>5, <1>1, <1>2, <1>5 DEF w
  <2>2. CASE \E m \in Slot : k.node[m].mroot = s \/ (m = s /\ k.node[m].mroot # 0)
    <3>1. PICK m \in Slot : k.node[m].mroot = s \/ (m = s /\ k.node[m].mroot # 0) BY <2>2
    <3>2. MountRefs(k.node, s) # 0 BY <3>1, MountPos
    <3>3. QED BY <3>2, <1>1, <1>2, <1>5
  <2>3. CASE X[s] # 0 BY <2>3, <1>1, <1>2, <1>5
  <2>4. QED BY <2>1, <2>2, <2>3
<1>7. QED BY <1>1, <1>2, <1>5, <1>6 DEF Core, TableInv

-----------------------------------------------------------------------------

\* c1 is where c was, and has nothing in hand that c has not.
Still(c, c1) ==
  /\ Bot(c1.pc) = Bot(c.pc) /\ c1.op = c.op /\ c1.rip = c.rip /\ c1.mip = c.mip /\ c1.dip = c.dip
  /\ c1.fd # 0 => c1.fd = c.fd /\ c1.fino = c.fino
  /\ c1.ip # 0 => c1.ip = c.ip /\ c1.key = c.key
  /\ \A s \in Slot : RefP(c1, s) # 0 => RefP(c, s) # 0

\* A step that leaves the inodes a process has in hand where they are leaves its walk in order.
LEMMA PathFrame ==
  ASSUME NEW k, NEW k1, NEW c, NEW c1, UserOK(c), UserOK(c1), ProcOK(c), ProcOK(c1), PathOK(k, c), Still(c, c1),
         \A s \in Slot : RefP(c1, s) # 0 =>
           /\ k1.node[s].ino = k.node[s].ino
           /\ k.node[s].ino = "root" /\ ~IsMounted(k1) => ~IsMounted(k),
         Bot(c.pc) \in Owner => k1.fs.mdev /\ ~IsMounted(k1),
         Bot(c.pc) \in WithMip => k1.node[c.mip].mroot = k.node[c.mip].mroot,
         Bot(c.pc) = "unhang" => \A s \in Slot : k1.node[s].ino \notin {"mp", "none"} =>
                                   k1.node[s].ino = k.node[s].ino /\ k1.node[s].count = k.node[s].count
  PROVE  PathOK(k1, c1)
<1> DEFINE b == Bot(c.pc)
<1>1. Bot(c1.pc) = b /\ c1.op = c.op /\ c1.rip = c.rip /\ c1.mip = c.mip /\ c1.dip = c.dip BY DEF Still
<1>2. /\ c1.ip \in Opt /\ c1.dip \in Opt /\ c1.fd \in Opt /\ \A x : x \in Opt /\ x # 0 => x \in Slot
  BY DEF UserOK, Opt
<1>3. /\ c1.dip # 0 <=> b \in WithDip
      /\ b \in WithIp => c1.ip # 0
  BY <1>1 DEF ProcOK, HandOK
<1>4. ASSUME NEW x \in Slot, x = c1.ip \/ x = c1.dip \/ x = c1.fd PROVE k1.node[x].ino = k.node[x].ino
  <2>1. RefP(c1, x) # 0 BY <1>4, HandRef
  <2>2. QED BY <2>1
<1>5. /\ c1.fd # 0 => c1.fd = c.fd /\ c1.fino = c.fino /\ k1.node[c1.fd].ino = k.node[c1.fd].ino
      /\ c1.ip # 0 => c1.ip = c.ip /\ c1.key = c.key /\ k1.node[c1.ip].ino = k.node[c1.ip].ino
      /\ c1.dip # 0 => k1.node[c1.dip].ino = k.node[c1.dip].ino
  BY <1>2, <1>4 DEF Still
<1> HIDE DEF b
<1>6. /\ b \in Owner => k.fs.mdev /\ ~IsMounted(k)
      /\ \A s \in Slot : RefP(c, s) # 0 /\ k.node[s].ino = "root" /\ ~IsMounted(k) => b \in Owner
      /\ c.fd # 0 => k.node[c.fd].ino = c.fino /\ c.fino \in InFs
      /\ b = "fson" => k.node[c.ip].ino \in {"mp", "root"}
      /\ b = "fson2" => k.node[c.ip].ino = "mp"
      /\ b = "dir" /\ c.ip # 0 => \/ k.node[c.ip].ino \in {"mp", "root"}
                                  \/ k.node[c.ip].ino = "sub" /\ c.op # "mount"
      /\ b = "more" /\ c.ip # 0 => k.node[c.ip].ino = "sub"
      /\ b \in Named /\ c.ip # 0 => k.node[c.ip].ino = c.key /\ c.key \in InFs
      /\ b = "fson3" => k.node[c.dip].ino = "mp"
      /\ b \in WithDip \ {"fson3"} => k.node[c.dip].ino \in {"root", "sub"}
      /\ b \in {"fsoff", "unhang"} => k.node[c.mip].mroot = c.rip
      /\ b = "plockdir" => k.node[c.mip].mroot # 0
      /\ b = "unhang" => \A s \in Slot : k.node[s].ino \notin {"mp", "none"} =>
                                               s = c.rip /\ k.node[s].count = 1
  BY DEF PathOK, b
<1>7. {"fson", "fson2"} \subseteq WithIp /\ "fson3" \in WithDip /\ {"fsoff", "unhang", "plockdir"} \subseteq WithMip
  BY DEF WithIp, WithDip, WithMip
<1>8. \A s \in Slot : RefP(c1, s) # 0 => RefP(c, s) # 0 BY DEF Still
<1>9. b \in Owner => k1.fs.mdev /\ ~IsMounted(k1) BY DEF b
<1>10. b \in WithMip => k1.node[c.mip].mroot = k.node[c.mip].mroot BY DEF b
<1>11. b = "unhang" => \A s \in Slot : k1.node[s].ino \notin {"mp", "none"} =>
                                   k1.node[s].ino = k.node[s].ino /\ k1.node[s].count = k.node[s].count
  BY DEF b
<1>12. \A s \in Slot : RefP(c1, s) # 0 /\ k1.node[s].ino = "root" /\ ~IsMounted(k1) => b \in Owner
  BY <1>6, <1>8
<1>13. c1.fd # 0 => k1.node[c1.fd].ino = c1.fino /\ c1.fino \in InFs BY <1>5, <1>6
<1>14. /\ b = "fson" => k1.node[c1.ip].ino \in {"mp", "root"}
       /\ b = "fson2" => k1.node[c1.ip].ino = "mp"
       /\ b = "dir" /\ c1.ip # 0 => \/ k1.node[c1.ip].ino \in {"mp", "root"}
                                    \/ k1.node[c1.ip].ino = "sub" /\ c1.op # "mount"
       /\ b = "more" /\ c1.ip # 0 => k1.node[c1.ip].ino = "sub"
       /\ b \in Named /\ c1.ip # 0 => k1.node[c1.ip].ino = c1.key /\ c1.key \in InFs
  BY <1>1, <1>3, <1>5, <1>6, <1>7
<1>15. /\ b = "fson3" => k1.node[c1.dip].ino = "mp"
       /\ b \in WithDip \ {"fson3"} => k1.node[c1.dip].ino \in {"root", "sub"}
  BY <1>1, <1>3, <1>5, <1>6, <1>7
<1>16. /\ b \in {"fsoff", "unhang"} => k1.node[c1.mip].mroot = c1.rip
       /\ b = "plockdir" => k1.node[c1.mip].mroot # 0
  BY <1>1, <1>6, <1>7, <1>10
<1>17. b = "unhang" => \A s \in Slot : k1.node[s].ino \notin {"mp", "none"} =>
                                               s = c1.rip /\ k1.node[s].count = 1
  BY <1>1, <1>6, <1>11
<1>18. QED BY <1>1, <1>9, <1>12, <1>13, <1>14, <1>15, <1>16, <1>17 DEF PathOK, b

\* A count is at least what one process, the mounts and the texts have,
LEMMA CountAtLeast ==
  ASSUME NEW k, NEW X, Core(k, X), NEW s \in Slot, NEW q \in Proc
  PROVE  /\ k.node[s].count \in Nat /\ RefP(k.u[q], s) \in Nat /\ MountRefs(k.node, s) \in Nat /\ X[s] \in Nat
         /\ k.node[s].count >= RefP(k.u[q], s) + MountRefs(k.node, s) + X[s]
<1> DEFINE w == k.u
<1>1. k.node[s].count = ProcRefs(w, s) + MountRefs(k.node, s) + X[s] BY DEF Core, CountInv
<1>2. MountRefs(k.node, s) \in Nat /\ X[s] \in Nat BY MountNat DEF Core, Texts
<1>3. w = [r \in Proc |-> w[r]] BY DEF Core, Types, UsersOK
<1> HIDE DEF w
<1>4. ProcRefs(w, s) \in Nat /\ ProcRefs(w, s) >= RefP(w[q], s) BY <1>3, RefsOne, ZenonT(20)
<1>5. RefP(w[q], s) \in Nat BY RefNat
<1>6. QED BY <1>1, <1>2, <1>4, <1>5 DEF w

\* or what two processes have.
LEMMA CountTwo ==
  ASSUME NEW k, NEW X, Core(k, X), NEW s \in Slot, NEW p \in Proc, NEW q \in Proc, p # q
  PROVE  k.node[s].count >= RefP(k.u[p], s) + RefP(k.u[q], s) + MountRefs(k.node, s) + X[s]
<1> DEFINE w == k.u
<1>1. k.node[s].count = ProcRefs(w, s) + MountRefs(k.node, s) + X[s] BY DEF Core, CountInv
<1>2. MountRefs(k.node, s) \in Nat /\ X[s] \in Nat BY MountNat DEF Core, Texts
<1>3. w = [r \in Proc |-> w[r]] BY DEF Core, Types, UsersOK
<1> HIDE DEF w
<1>4. ProcRefs(w, s) >= RefP(w[p], s) + RefP(w[q], s) BY <1>3, RefsTwo, ZenonT(20)
<1>5. RefP(w[p], s) \in Nat /\ RefP(w[q], s) \in Nat /\ ProcRefs(w, s) \in Nat BY RefNat, ProcRefsNat
<1>6. QED BY <1>1, <1>2, <1>4, <1>5 DEF w

\* Who mounts nothing changes no reference of mounting.
LEMMA SameMountRefs ==
  ASSUME NEW n, NEW n1, \A m \in Slot : n1[m].mroot = n[m].mroot
  PROVE  \A s \in Slot : MountRefs(n1, s) = MountRefs(n, s)
<1> SUFFICES ASSUME NEW s \in Slot PROVE MountRefs(n1, s) = MountRefs(n, s) OBVIOUS
<1>1. {m \in Slot : n1[m].mroot = s \/ (m = s /\ n1[m].mroot # 0)} = {m \in Slot : n[m].mroot = s \/ (m = s /\ n[m].mroot # 0)}
  OBVIOUS
<1>2. QED BY <1>1 DEF MountRefs

\* A step of p keeps Core if its counts, locks and wakeups balance.
LEMMA CoreStep ==
  ASSUME NEW k, NEW k1, NEW p \in Proc, NEW X, NEW X1, Core(k, X), Types(k1), Texts(X1), Others(k, k1, p),
         Ledger(k, k1, p, X, X1), Locking(k, k1, p), Waking(k, k1, p), ProcOK(k1.u[p]),
         Stays(k, k1) \/ (\E z \in Slot : Frees(k, k1, z)) \/ (\E z \in Slot, key \in Inos : Fills(k, k1, z, key))
  PROVE  Core(k1, X1)
<1>1. Types(k) /\ Texts(X) /\ (\A q \in Proc : ProcOK(k.u[q]))
      /\ CountInv(k, X) /\ LockInv(k) /\ SleepInv(k) /\ TableInv(k)
  BY DEF Core
<1>2. \A q \in Proc : ProcOK(k1.u[q]) BY <1>1, ProcKeep
<1>3. CountInv(k1, X1) BY <1>1, CountKeep
<1>4. LockInv(k1) BY <1>1, LockKeep
<1>5. SleepInv(k1) BY <1>1, SleepKeep
<1>6. TableInv(k1) BY <1>1, StaysKeep, FreesKeep, FillsKeep
<1>7. QED BY <1>2, <1>3, <1>4, <1>5, <1>6 DEF Core

\* What a process has new in hand, it has locked.
Gains(c, c1) == \A t \in Slot : RefP(c1, t) # 0 => RefP(c, t) # 0 \/ HoldP(c1, t)

\* A step that mounts nothing, unmounts nothing and brings no new inode in core.
Plain(k, k1, p, X, X1) ==
  /\ \A t \in Slot : /\ k1.node[t].mroot = k.node[t].mroot /\ k1.node[t].mpoint = k.node[t].mpoint
                     /\ k1.node[t].ino = k.node[t].ino \/ k1.node[t].ino = "none"
                     /\ X1[t] > X[t] => HoldP(k1.u[p], t)
  /\ Gains(k.u[p], k1.u[p])
  /\ k.fs.mdev => k1.fs.mdev \/ Bot(k.u[p].pc) \in Owner
  /\ Bot(k1.u[p].pc) \in Owner => Bot(k.u[p].pc) \in Owner \/ ~k.fs.mdev
  /\ \A s \in Slot : OwnsRoot(k.u[p], s) /\ k1.node[s].ino = "root" => OwnsRoot(k1.u[p], s)

\* A process that is woken is where it was.
LEMMA SamePath ==
  ASSUME NEW c, NEW c1, KeepU(c, c1, {"chan"})
  PROVE  Still(c, c1) /\ Bot(c1.pc) = Bot(c.pc) /\ \A s : OwnsRoot(c1, s) = OwnsRoot(c, s)
<1>1. /\ c1.ip = c.ip /\ c1.dip = c.dip /\ c1.fd = c.fd /\ c1.put = c.put /\ c1.fino = c.fino
      /\ c1.rip = c.rip /\ c1.mip = c.mip /\ c1.pc = c.pc /\ c1.key = c.key /\ c1.op = c.op
  BY DEF KeepU, UserF
<1>2. \A s : RefP(c1, s) = RefP(c, s) BY KeepHands
<1>3. QED BY <1>1, <1>2 DEF Still, OwnsRoot

\* A plain step keeps Mounts.
LEMMA MountsPlain ==
  ASSUME NEW k, NEW k1, NEW p \in Proc, NEW X, NEW X1, Core(k, X), Core(k1, X1), Mounts(k),
         Others(k, k1, p), Ledger(k, k1, p, X, X1), Plain(k, k1, p, X, X1), PathOK(k1, k1.u[p])
  PROVE  Mounts(k1)
<1>0. Types(k) /\ Types(k1) BY DEF Core
<1>1. /\ \A t \in Slot : /\ k1.node[t].mroot = k.node[t].mroot /\ k1.node[t].mpoint = k.node[t].mpoint
                         /\ k1.node[t].ino = k.node[t].ino \/ k1.node[t].ino = "none"
      /\ k.fs.mdev => k1.fs.mdev \/ Bot(k.u[p].pc) \in Owner
  BY DEF Plain
<1>2. IsMounted(k1) = IsMounted(k) BY <1>1 DEF IsMounted
<1>3. \A q \in Proc : PathOK(k, k.u[q]) BY DEF Mounts
<1>4. \A m \in Slot : k.node[m].mroot # 0 => k.node[m].mroot \in Slot
  BY <1>0 DEF Types, NodesOK, NodeOK, Opt
<1>5. MountInv(k1)
  <2>1. ASSUME NEW m \in Slot, k1.node[m].mroot # 0
        PROVE  /\ k1.node[m].ino = "mp" /\ k1.fs.mdev
               /\ k1.node[k1.node[m].mroot].ino = "root" /\ k1.node[k1.node[m].mroot].mpoint = m
    <3> DEFINE r == k.node[m].mroot
    <3>1. k.node[m].mroot # 0 /\ r \in Slot /\ k1.node[m].mroot = r BY <2>1, <1>1, <1>4
    <3>2. k.node[m].ino = "mp" /\ k.fs.mdev /\ k.node[r].ino = "root" /\ k.node[r].mpoint = m
      BY <3>1 DEF Mounts, MountInv
    <3> HIDE DEF r
    <3>3. k1.node[m].ino # "none" BY <2>1, RefIno
    <3>4. k1.node[r].ino # "none" BY <3>1, RefIno
    <3>5. k1.fs.mdev
      <4>1. IsMounted(k) BY <3>1 DEF IsMounted
      <4>2. Bot(k.u[p].pc) \notin Owner BY <4>1, <1>3 DEF PathOK
      <4>3. QED BY <4>2, <3>2, <1>1
    <3>6. QED BY <3>1, <3>2, <3>3, <3>4, <3>5, <1>1
  <2>2. ASSUME NEW s \in Slot, k1.node[s].ino \in InFs
        PROVE  \E m \in Slot : k1.node[m].mroot # 0 /\ k1.node[s].mpoint = m
    <3>1. "none" \notin InFs BY InodeAssumption DEF InFs
    <3>2. k.node[s].ino \in InFs BY <3>1, <2>2, <1>1
    <3>3. \E m \in Slot : k.node[m].mroot # 0 /\ k.node[s].mpoint = m BY <3>2 DEF Mounts, MountInv
    <3>4. QED BY <3>3, <1>1
  <2>3. QED BY <2>1, <2>2 DEF MountInv
<1>6. \A q \in Proc \ {p} : /\ Still(k.u[q], k1.u[q]) /\ Bot(k1.u[q].pc) = Bot(k.u[q].pc)
                            /\ \A s : OwnsRoot(k1.u[q], s) = OwnsRoot(k.u[q], s)
                            /\ \A s : RefP(k1.u[q], s) = RefP(k.u[q], s)
                            /\ \A s : HoldP(k1.u[q], s) = HoldP(k.u[q], s)
  BY SamePath, KeepHands DEF Others
<1>7. OwnerInv(k1)
  <2>1. ASSUME NEW r \in Proc, NEW q \in Proc, Bot(k1.u[r].pc) \in Owner, Bot(k1.u[q].pc) \in Owner PROVE r = q
    <3>1. \A x, y \in Proc : Bot(k.u[x].pc) \in Owner /\ Bot(k.u[y].pc) \in Owner => x = y
      BY DEF Mounts, OwnerInv
    <3>2. \A x \in Proc \ {p} : Bot(k1.u[x].pc) \in Owner => Bot(k.u[x].pc) \in Owner /\ k.fs.mdev
      BY <1>3, <1>6 DEF PathOK
    <3>3. Bot(k1.u[p].pc) \in Owner => Bot(k.u[p].pc) \in Owner \/ ~k.fs.mdev BY DEF Plain
    <3>4. QED BY <2>1, <3>1, <3>2, <3>3
  <2>2. ASSUME NEW s \in Slot, k1.node[s].ino = "root"
        PROVE  (\E m \in Slot : k1.node[m].mroot = s) \/ (\E q \in Proc : OwnsRoot(k1.u[q], s))
    <3>1. k.node[s].ino = "root" BY <2>2, <1>1
    <3>2. (\E m \in Slot : k.node[m].mroot = s) \/ (\E q \in Proc : OwnsRoot(k.u[q], s))
      BY <3>1 DEF Mounts, OwnerInv
    <3>3. OwnsRoot(k.u[p], s) => OwnsRoot(k1.u[p], s) BY <2>2 DEF Plain
    <3>4. QED BY <3>2, <3>3, <1>1, <1>6
  <2>3. QED BY <2>1, <2>2 DEF OwnerInv
<1>8. ASSUME NEW q \in Proc \ {p} PROVE PathOK(k1, k1.u[q])
  <2> DEFINE c == k.u[q]  c1 == k1.u[q]
  <2>1. UserOK(c) /\ UserOK(c1) BY <1>0 DEF Types, UsersOK
  <2>2. ProcOK(c) /\ ProcOK(c1) BY DEF Core
  <2>3. PathOK(k, c) /\ Still(c, c1) BY <1>3, <1>6
  <2>4. ASSUME NEW s \in Slot, RefP(c1, s) # 0
        PROVE  /\ k1.node[s].ino = k.node[s].ino
               /\ k.node[s].ino = "root" /\ ~IsMounted(k1) => ~IsMounted(k)
    <3>1. k1.node[s].ino # "none" BY <2>4, RefIno
    <3>2. QED BY <3>1, <1>1, <1>2
  <2>5. Bot(c.pc) \in Owner => k1.fs.mdev /\ ~IsMounted(k1)
    <3>1. Bot(c.pc) \in Owner => Bot(k.u[p].pc) \notin Owner BY DEF Mounts, OwnerInv
    <3>2. Bot(c.pc) \in Owner => k.fs.mdev /\ ~IsMounted(k) BY <2>3 DEF PathOK
    <3>3. QED BY <3>1, <3>2, <1>1, <1>2
  <2>6. Bot(c.pc) \in WithMip => k1.node[c.mip].mroot = k.node[c.mip].mroot
    <3>1. Bot(c.pc) \in WithMip => c.mip # 0 BY <2>2 DEF ProcOK, HandOK
    <3>2. c.mip # 0 => c.mip \in Slot BY <2>1 DEF UserOK, Opt
    <3>3. QED BY <3>1, <3>2, <1>1
  <2>7. ASSUME Bot(c.pc) = "unhang", NEW s \in Slot, k1.node[s].ino \notin {"mp", "none"}
        PROVE  k1.node[s].ino = k.node[s].ino /\ k1.node[s].count = k.node[s].count
    <3>1. k1.node[s].ino = k.node[s].ino BY <2>7, <1>1
    <3>2. s = c.rip /\ k.node[s].count = 1 /\ k.node[c.mip].mroot = c.rip
      BY <2>3, <2>7, <3>1 DEF PathOK
    <3>3. c.mip \in Slot
      <4>1. c.mip # 0 BY <2>2, <2>7 DEF ProcOK, HandOK, WithMip
      <4>2. QED BY <4>1, <2>1 DEF UserOK, Opt
    <3>4. MountRefs(k.node, s) # 0 BY <3>2, <3>3, MountPos
    <3>5. /\ k.node[s].count >= RefP(k.u[p], s) + MountRefs(k.node, s) + X[s]
          /\ RefP(k.u[p], s) \in Nat /\ MountRefs(k.node, s) \in Nat /\ X[s] \in Nat
      BY CountAtLeast
    <3>6. RefP(k.u[p], s) = 0 /\ X[s] = 0 BY <3>2, <3>4, <3>5
    <3>7. HoldP(k1.u[q], s) BY <3>2, <1>6 DEF HoldP
    <3>8. ~HoldP(k1.u[p], s) BY <3>7 DEF Core, LockInv
    <3>9. RefP(k1.u[p], s) = 0 BY <3>6, <3>8 DEF Plain, Gains
    <3>10. X1[s] \in Nat /\ ~(X1[s] > X[s]) BY <3>8 DEF Plain, Core, Texts
    <3>11. X1[s] = 0 BY <3>6, <3>10
    <3>12. MountRefs(k1.node, s) = MountRefs(k.node, s) BY <1>1, SameMountRefs
    <3>13. k1.node[s].count - RefP(k1.u[p], s) - MountRefs(k1.node, s) - X1[s]
         = k.node[s].count - RefP(k.u[p], s) - MountRefs(k.node, s) - X[s]
      BY DEF Ledger
    <3>14. k1.node[s].count \in Int /\ k.node[s].count \in Int BY <1>0 DEF Types, NodesOK, NodeOK
    <3>15. k1.node[s].count = k.node[s].count BY <3>5, <3>6, <3>9, <3>11, <3>12, <3>13, <3>14
    <3>16. QED BY <3>1, <3>15
  <2>8. Bot(c.pc) = "unhang" => \A s \in Slot : k1.node[s].ino \notin {"mp", "none"} =>
                                   k1.node[s].ino = k.node[s].ino /\ k1.node[s].count = k.node[s].count
    BY <2>7
  <2> HIDE DEF c, c1
  <2>9. PathOK(k1, c1) BY <2>1, <2>2, <2>3, <2>4, <2>5, <2>6, <2>8, PathFrame
  <2>10. QED BY <2>9 DEF c1
<1>9. QED BY <1>5, <1>7, <1>8 DEF Mounts

-----------------------------------------------------------------------------
(* The last reference to an inode is being given up. *)
\* The inode that is written or freed at the last reference has that reference only.
PutOK(k, c) == c.put # 0 => k.node[c.put].count = 1
\* The invariant of a kernel k in which texts have the references X.
Good(k, X) == Core(k, X) /\ Mounts(k) /\ \A q \in Proc : PutOK(k, k.u[q])

\* What only one process has, and has locked, another one does not touch.
LEMMA OnlyHis ==
  ASSUME NEW k, NEW k1, NEW p \in Proc, NEW q \in Proc \ {p}, NEW X, NEW X1, NEW s \in Slot,
         Core(k, X), Core(k1, X1), Others(k, k1, p), Ledger(k, k1, p, X, X1),
         Gains(k.u[p], k1.u[p]), X1[s] > X[s] => HoldP(k1.u[p], s),
         MountRefs(k1.node, s) = MountRefs(k.node, s),
         HoldP(k.u[q], s), RefP(k.u[q], s) + MountRefs(k.node, s) > 0, k.node[s].count = 1
  PROVE  k1.node[s].count = 1
<1>1. /\ k.node[s].count >= RefP(k.u[p], s) + RefP(k.u[q], s) + MountRefs(k.node, s) + X[s]
      /\ RefP(k.u[p], s) \in Nat /\ RefP(k.u[q], s) \in Nat /\ MountRefs(k.node, s) \in Nat /\ X[s] \in Nat
  BY CountAtLeast, CountTwo
<1>2. RefP(k.u[p], s) = 0 /\ X[s] = 0 BY <1>1
<1>3. HoldP(k1.u[q], s) BY KeepHands DEF Others
<1>4. ~HoldP(k1.u[p], s) BY <1>3 DEF Core, LockInv
<1>5. RefP(k1.u[p], s) = 0 BY <1>2, <1>4 DEF Gains
<1>6. X1[s] \in Nat /\ ~(X1[s] > X[s]) BY <1>4 DEF Core, Texts
<1>7. X1[s] = 0 BY <1>2, <1>6
<1>8. k1.node[s].count - RefP(k1.u[p], s) - MountRefs(k1.node, s) - X1[s]
    = k.node[s].count - RefP(k.u[p], s) - MountRefs(k.node, s) - X[s]
  BY DEF Ledger
<1>9. k1.node[s].count \in Int BY DEF Core, Types, NodesOK, NodeOK
<1>10. QED BY <1>1, <1>2, <1>5, <1>7, <1>8, <1>9

\* A last reference stays the last one while it is given up.
LEMMA PutKeep ==
  ASSUME NEW k, NEW k1, NEW p \in Proc, NEW X, NEW X1, Core(k, X), Core(k1, X1),
         \A q \in Proc : PutOK(k, k.u[q]), Others(k, k1, p), Ledger(k, k1, p, X, X1),
         Gains(k.u[p], k1.u[p]), \A s \in Slot : X1[s] > X[s] => HoldP(k1.u[p], s),
         \A q \in Proc \ {p}, s \in Slot : k.u[q].put = s => MountRefs(k1.node, s) = MountRefs(k.node, s),
         PutOK(k1, k1.u[p])
  PROVE  \A q \in Proc : PutOK(k1, k1.u[q])
<1> SUFFICES ASSUME NEW q \in Proc \ {p}, k1.u[q].put # 0 PROVE k1.node[k1.u[q].put].count = 1
  BY DEF PutOK
<1> DEFINE s == k.u[q].put
<1>1. k1.u[q].put = s BY DEF Others, KeepU, UserF
<1>2. s \in Slot /\ k.node[s].count = 1 BY <1>1 DEF PutOK, Core, Types, UsersOK, UserOK, Opt
<1>3. HoldP(k.u[q], s) BY DEF HoldP
<1>4. RefP(k.u[q], s) \in Nat /\ RefP(k.u[q], s) # 0 BY <1>2, HandRef
<1>5. MountRefs(k.node, s) \in Nat /\ MountRefs(k1.node, s) = MountRefs(k.node, s) BY <1>2, MountNat
<1> HIDE DEF s
<1>6. RefP(k.u[q], s) + MountRefs(k.node, s) > 0 BY <1>4, <1>5
<1>7. X1[s] > X[s] => HoldP(k1.u[p], s) BY <1>2
<1>8. k1.node[s].count = 1 BY <1>2, <1>3, <1>5, <1>6, <1>7, OnlyHis
<1>9. QED BY <1>1, <1>8

\* The part of PathOK that is about what c has in hand.
PathAt(k, c, b) ==
  /\ c.fd # 0 => k.node[c.fd].ino = c.fino /\ c.fino \in InFs
  /\ b = "fson" => k.node[c.ip].ino \in {"mp", "root"}
  /\ b = "fson2" => k.node[c.ip].ino = "mp"
  /\ b = "dir" /\ c.ip # 0 => \/ k.node[c.ip].ino \in {"mp", "root"}
                              \/ k.node[c.ip].ino = "sub" /\ c.op # "mount"
  /\ b = "more" /\ c.ip # 0 => k.node[c.ip].ino = "sub"
  /\ b \in Named /\ c.ip # 0 => k.node[c.ip].ino = c.key /\ c.key \in InFs
  /\ b = "fson3" => k.node[c.dip].ino = "mp"
  /\ b \in WithDip \ {"fson3"} => k.node[c.dip].ino \in {"root", "sub"}
  /\ b \in {"fsoff", "unhang"} => k.node[c.mip].mroot = c.rip
  /\ b = "plockdir" => k.node[c.mip].mroot # 0

\* The root of a file system that is not mounted is in the hands of who mounts or unmounts it,
RootOwned(k, c) ==
  \A s \in Slot : RefP(c, s) # 0 /\ k.node[s].ino = "root" /\ ~IsMounted(k) => Bot(c.pc) \in Owner

\* and when it is taken off, nothing else of it is in core.
Empty(k, c) ==
  Bot(c.pc) = "unhang" => \A s \in Slot : k.node[s].ino \notin {"mp", "none"} => s = c.rip /\ k.node[s].count = 1

\* PathOK in parts.
LEMMA PathParts ==
  \A k, c : PathOK(k, c) <=> /\ Bot(c.pc) \in Owner => k.fs.mdev /\ ~IsMounted(k)
                             /\ PathAt(k, c, Bot(c.pc)) /\ RootOwned(k, c) /\ Empty(k, c)
BY DEF PathOK, PathAt, RootOwned, Empty

\* A step that mounts nothing, unmounts nothing and brings nothing new in core.
LEMMA StepGood ==
  ASSUME NEW k, NEW k1, NEW p \in Proc, NEW X, Good(k, X), Types(k1), Others(k, k1, p),
         Ledger(k, k1, p, X, X), Locking(k, k1, p), Waking(k, k1, p), ProcOK(k1.u[p]),
         Stays(k, k1) \/ (\E z \in Slot : Frees(k, k1, z)), Plain(k, k1, p, X, X),
         PathAt(k, k1.u[p], Bot(k1.u[p].pc)), RootOwned(k, k1.u[p]), Empty(k1, k1.u[p]),
         Bot(k1.u[p].pc) \in Owner => k1.fs.mdev /\ ~IsMounted(k), PutOK(k1, k1.u[p])
  PROVE  Good(k1, X)
<1>0. Core(k, X) /\ Mounts(k) /\ (\A q \in Proc : PutOK(k, k.u[q])) /\ Texts(X) BY DEF Good, Core
<1>1. Core(k1, X) BY <1>0, CoreStep
<1>2. /\ \A t \in Slot : /\ k1.node[t].mroot = k.node[t].mroot
                         /\ k1.node[t].ino = k.node[t].ino \/ k1.node[t].ino = "none"
      /\ Gains(k.u[p], k1.u[p])
  BY DEF Plain
<1>3. IsMounted(k1) = IsMounted(k) BY <1>2 DEF IsMounted
<1> DEFINE c1 == k1.u[p]
           b == Bot(c1.pc)
<1>4. /\ c1.ip \in Opt /\ c1.dip \in Opt /\ c1.fd \in Opt /\ c1.mip \in Opt
      /\ \A x : x \in Opt /\ x # 0 => x \in Slot
  BY DEF Types, UsersOK, UserOK, Opt
<1>5. (c1.dip # 0 <=> b \in WithDip) /\ (b \in WithIp => c1.ip # 0) /\ (c1.mip # 0 <=> b \in WithMip)
  BY DEF ProcOK, HandOK
<1>6. \A x \in Slot : RefP(c1, x) # 0 => k1.node[x].ino = k.node[x].ino
  <2>1. \A x \in Slot : RefP(c1, x) # 0 => k1.node[x].ino # "none" BY <1>1, RefIno
  <2>2. QED BY <2>1, <1>2
<1>7. \A x : x # 0 /\ (x = c1.ip \/ x = c1.dip \/ x = c1.fd) => k1.node[x].ino = k.node[x].ino
  <2> SUFFICES ASSUME NEW x, x # 0, x = c1.ip \/ x = c1.dip \/ x = c1.fd PROVE k1.node[x].ino = k.node[x].ino
    OBVIOUS
  <2>1. x \in Slot BY <1>4
  <2>2. RefP(c1, x) # 0 BY <2>1, HandRef
  <2>3. QED BY <2>1, <2>2, <1>6
<1>8. PathAt(k1, c1, b)
  <2>1. PathAt(k, c1, b) OBVIOUS
  <2>2. {"fson", "fson2"} \subseteq WithIp /\ "fson3" \in WithDip /\ {"fsoff", "unhang", "plockdir"} \subseteq WithMip
    BY DEF WithIp, WithDip, WithMip
  <2>3. c1.mip # 0 => k1.node[c1.mip].mroot = k.node[c1.mip].mroot BY <1>2, <1>4
  <2> HIDE DEF c1, b
  <2>4. /\ c1.fd # 0 => k1.node[c1.fd].ino = k.node[c1.fd].ino
        /\ c1.ip # 0 => k1.node[c1.ip].ino = k.node[c1.ip].ino
        /\ c1.dip # 0 => k1.node[c1.dip].ino = k.node[c1.dip].ino
    BY <1>7
  <2>5. /\ b = "fson" => c1.ip # 0
        /\ b = "fson2" => c1.ip # 0
        /\ b \in WithDip => c1.dip # 0
        /\ b = "fson3" => c1.dip # 0
        /\ b \in {"fsoff", "unhang", "plockdir"} => c1.mip # 0
    BY <2>2, <1>5
  <2>6. /\ c1.fd # 0 => k.node[c1.fd].ino = c1.fino /\ c1.fino \in InFs
        /\ b = "fson" => k.node[c1.ip].ino \in {"mp", "root"}
        /\ b = "fson2" => k.node[c1.ip].ino = "mp"
        /\ b = "dir" /\ c1.ip # 0 => \/ k.node[c1.ip].ino \in {"mp", "root"}
                                     \/ k.node[c1.ip].ino = "sub" /\ c1.op # "mount"
        /\ b = "more" /\ c1.ip # 0 => k.node[c1.ip].ino = "sub"
        /\ b \in Named /\ c1.ip # 0 => k.node[c1.ip].ino = c1.key /\ c1.key \in InFs
        /\ b = "fson3" => k.node[c1.dip].ino = "mp"
        /\ b \in WithDip \ {"fson3"} => k.node[c1.dip].ino \in {"root", "sub"}
        /\ b \in {"fsoff", "unhang"} => k.node[c1.mip].mroot = c1.rip
        /\ b = "plockdir" => k.node[c1.mip].mroot # 0
    BY <2>1 DEF PathAt
  <2>7. c1.fd # 0 => k1.node[c1.fd].ino = c1.fino /\ c1.fino \in InFs BY <2>4, <2>6
  <2>8. /\ b = "fson" => k1.node[c1.ip].ino \in {"mp", "root"}
        /\ b = "fson2" => k1.node[c1.ip].ino = "mp"
        /\ b = "dir" /\ c1.ip # 0 => \/ k1.node[c1.ip].ino \in {"mp", "root"}
                                     \/ k1.node[c1.ip].ino = "sub" /\ c1.op # "mount"
        /\ b = "more" /\ c1.ip # 0 => k1.node[c1.ip].ino = "sub"
        /\ b \in Named /\ c1.ip # 0 => k1.node[c1.ip].ino = c1.key /\ c1.key \in InFs
    BY <2>4, <2>5, <2>6
  <2>9. /\ b = "fson3" => k1.node[c1.dip].ino = "mp"
        /\ b \in WithDip \ {"fson3"} => k1.node[c1.dip].ino \in {"root", "sub"}
    BY <2>4, <2>5, <2>6
  <2>10. /\ b \in {"fsoff", "unhang"} => k1.node[c1.mip].mroot = c1.rip
         /\ b = "plockdir" => k1.node[c1.mip].mroot # 0
    BY <2>3, <2>5, <2>6
  <2>11. QED BY <2>7, <2>8, <2>9, <2>10 DEF PathAt
<1>9. RootOwned(k1, c1) BY <1>3, <1>6 DEF RootOwned
<1>10. PathOK(k1, c1) BY <1>3, <1>8, <1>9, PathParts
<1>11. Mounts(k1) BY <1>0, <1>1, <1>10, MountsPlain
<1>12. \A s \in Slot : MountRefs(k1.node, s) = MountRefs(k.node, s) BY <1>2, SameMountRefs
<1>13. \A s \in Slot : ~(X[s] > X[s]) BY <1>0 DEF Texts
<1>14. \A q \in Proc : PutOK(k1, k1.u[q]) BY <1>0, <1>1, <1>2, <1>12, <1>13, PutKeep
<1>15. QED BY <1>1, <1>11, <1>14 DEF Good

-----------------------------------------------------------------------------
(* A step that leaves counts and locks alone. *)
\* Fields of an inode that are no matter to the invariant.
Dull == {"text", "mode", "nlink", "chg"}
\* The inodes but for those fields.
SameNodes(k, k1) == \A t \in Slot : KeepN(k.node[t], k1.node[t], Dull)

\* Such a step leaves alone all that the invariant counts.
LEMMA DullFacts ==
  ASSUME NEW k, NEW k1, SameNodes(k, k1)
  PROVE  \A t \in Slot : /\ k1.node[t].ino = k.node[t].ino /\ k1.node[t].count = k.node[t].count
                         /\ k1.node[t].lock = k.node[t].lock /\ k1.node[t].want = k.node[t].want
                         /\ k1.node[t].mroot = k.node[t].mroot /\ k1.node[t].mpoint = k.node[t].mpoint
BY DEF SameNodes, KeepN, NodeF, Dull

\* A step that leaves counts and locks alone keeps the invariant.
LEMMA MoveGood ==
  ASSUME NEW k, NEW k1, NEW p \in Proc, NEW X, Good(k, X), Types(k1), Others(k, k1, p),
         k1.freel = k.freel, SameNodes(k, k1),
         \A t \in Slot : RefP(k1.u[p], t) = RefP(k.u[p], t) /\ HoldP(k1.u[p], t) = HoldP(k.u[p], t),
         \/ k1.u[p].chan = Awake
         \/ k1.u[p].chan = <<"ilock", 0>> /\ k1.fs.ilock /\ Top(k1.u[p].pc) = "ialloc",
         \A q \in Proc \ {p} : k1.u[q].chan = <<"ilock", 0>> /\ k.fs.ilock => k1.fs.ilock,
         ProcOK(k1.u[p]), PutOK(k, k1.u[p]), PathAt(k, k1.u[p], Bot(k1.u[p].pc)), RootOwned(k, k1.u[p]),
         Empty(k, k1.u[p]),
         k.fs.mdev => k1.fs.mdev \/ Bot(k.u[p].pc) \in Owner,
         Bot(k1.u[p].pc) \in Owner => /\ Bot(k.u[p].pc) \in Owner \/ ~k.fs.mdev
                                      /\ k1.fs.mdev /\ ~IsMounted(k),
         \A s \in Slot : OwnsRoot(k.u[p], s) /\ k.node[s].ino = "root" => OwnsRoot(k1.u[p], s)
  PROVE  Good(k1, X)
<1> DEFINE c == k.u[p]
           c1 == k1.u[p]
<1>1. \A t \in Slot : /\ k1.node[t].ino = k.node[t].ino /\ k1.node[t].count = k.node[t].count
                      /\ k1.node[t].lock = k.node[t].lock /\ k1.node[t].want = k.node[t].want
                      /\ k1.node[t].mroot = k.node[t].mroot /\ k1.node[t].mpoint = k.node[t].mpoint
  BY DullFacts
<1>2. \A t \in Slot : MountRefs(k1.node, t) = MountRefs(k.node, t) BY <1>1, SameMountRefs
<1>3. Core(k, X) /\ LockInv(k) BY DEF Good, Core
<1>4. Ledger(k, k1, p, X, X) BY <1>1, <1>2 DEF Ledger
<1>5. Locking(k, k1, p)
  <2> SUFFICES ASSUME NEW t \in Slot
               PROVE  /\ k1.node[t].lock <=> (HoldP(k1.u[p], t) \/ (k.node[t].lock /\ ~HoldP(k.u[p], t)))
                      /\ HoldP(k1.u[p], t) => HoldP(k.u[p], t) \/ ~k.node[t].lock
    BY DEF Locking
  <2>1. HoldP(k.u[p], t) => k.node[t].lock BY <1>3 DEF LockInv
  <2>2. HoldP(k1.u[p], t) = HoldP(k.u[p], t) OBVIOUS
  <2>3. k1.node[t].lock = k.node[t].lock BY <1>1
  <2>4. k1.node[t].lock <=> k.node[t].lock BY <2>3
  <2>5. HoldP(k1.u[p], t) <=> HoldP(k.u[p], t) BY <2>2
  <2>6. QED BY <2>1, <2>4, <2>5
<1>6. Waking(k, k1, p)
  <2>1. \A t \in Slot : Awake # On(t) /\ On(t) # <<"ilock", 0>> /\ Awake # <<"ilock", 0>> BY DEF Awake, On
  <2>2. \A t \in Slot : k1.u[p].chan # On(t) BY <2>1
  <2>3. \A t \in Slot : k.node[t].lock /\ k.node[t].want => k1.node[t].lock /\ k1.node[t].want BY <1>1
  <2>a. Awake # <<"ilock", 0>> BY DEF Awake
  <2>4. k1.u[p].chan = <<"ilock", 0>> => k1.fs.ilock /\ Top(k1.u[p].pc) = "ialloc" BY <2>a
  <2>5. \A q \in Proc \ {p} : k1.u[q].chan = <<"ilock", 0>> /\ k.fs.ilock => k1.fs.ilock OBVIOUS
  <2>6. k1.u[p].pc = <<>> => k1.u[p].chan = Awake
    <3>1. Top(<<>>) # "ialloc" BY DEF Top
    <3>2. QED BY <3>1
  <2>7. QED BY <2>2, <2>3, <2>4, <2>5, <2>6 DEF Waking
<1>7. Stays(k, k1)
  <2>1. \A t \in Slot : SameSlot(k.node[t], k1.node[t]) BY <1>1 DEF SameSlot
  <2>2. QED BY <2>1 DEF Stays
<1>8. Plain(k, k1, p, X, X)
  <2>1. Gains(c, c1) BY DEF Gains
  <2>2. \A t \in Slot : ~(X[t] > X[t]) BY <1>3 DEF Core, Texts
  <2>3. QED BY <1>1, <2>1, <2>2 DEF Plain
<1>9. Empty(k1, c1) BY <1>1 DEF Empty
<1>10. PutOK(k1, c1)
  <2>1. c1.put # 0 => c1.put \in Slot BY DEF Types, UsersOK, UserOK, Opt
  <2>2. QED BY <1>1, <2>1 DEF PutOK
<1>11. QED BY <1>4, <1>5, <1>6, <1>7, <1>8, <1>9, <1>10, StepGood

-----------------------------------------------------------------------------
(* A reference to s is given up: by c0, that has no hand on it any more, and goes on with rest. *)
\* The references, and the locks, of a process that goes on at b.
RefQ(c, t) == B(c.ip = t) + B(c.dip = t) + B(c.fd = t) + B(Rip(c) = t)
HoldQ(c, t, b) == c.ip = t \/ c.rip = t \/ (c.dip = t /\ b \notin {"got", "more"})

\* What c1 has of c0.
Carries(c0, c1, rest) ==
  /\ c1.ip = c0.ip /\ c1.dip = c0.dip /\ c1.rip = c0.rip /\ c1.mip = c0.mip
  /\ c1.fd = c0.fd /\ c1.fino = c0.fino
  /\ rest # <<>> => c1.op = c0.op /\ c1.key = c0.key /\ c1.name = c0.name /\ Bot(c1.pc) = Bot(rest)
  /\ rest = <<>> => Bot(c1.pc) \in {"", "fstrunc", "fsiupdat"}
                    /\ c1.ip = 0 /\ c1.dip = 0 /\ c1.rip = 0 /\ c1.mip = 0

\* What c1 has of c0, when the inode is written first.
BusyAt(c0, c1, s, rest) ==
  /\ c1.pc \in {<<"fstrunc">> \o rest, <<"fsiupdat">> \o rest}
  /\ c1.put = s /\ KeepU(c0, c1, {"pc", "put"})

\* A process that is in no call has nothing in hand.
LEMMA NoHands ==
  ASSUME NEW c, HandOK(c, <<>>)
  PROVE  c.ip = 0 /\ c.dip = 0 /\ c.put = 0 /\ c.rip = 0 /\ c.mip = 0
<1>1. Top(<<>>) = "" /\ Bot(<<>>) = "" BY DEF Top, Bot
<1>2. QED BY <1>1 DEF HandOK, WithDip, WithIp, PerhapsIp, WithRip, WithMip

\* What it has in hand after it goes on with rest,
LEMMA GoneHands ==
  ASSUME NEW c0, NEW c1, NEW rest \in Seq(Label), HandOK(c0, rest), Top(rest) \notin LeafL,
         GoneTo(c0, c1, rest)
  PROVE  /\ Carries(c0, c1, rest) /\ c1.put = 0 /\ c1.pc = rest
         /\ HandOK(c1, c1.pc) /\ Bot(c1.pc) = Bot(rest) /\ Walk(c1) = (Bot(rest) \in {"got", "more"}) /\ Up(c1) = 0
         /\ \A t \in Slot : RefP(c1, t) = RefQ(c0, t) /\ (HoldP(c1, t) <=> HoldQ(c0, t, Bot(rest)))
<1>1. c1.pc = rest /\ c1.fd = c0.fd /\ c1.fino = c0.fino BY DEF GoneTo
<1>2. Top(rest) \notin {"fstrunc", "fsiupdat", "upput", "iget", "fsiread"} BY DEF LeafL
<1>3. c0.put = 0 BY <1>2 DEF HandOK
<1>4. rest # <<>> => /\ c1.ip = c0.ip /\ c1.dip = c0.dip /\ c1.rip = c0.rip /\ c1.mip = c0.mip /\ c1.up = c0.up
                     /\ c1.put = c0.put /\ c1.op = c0.op /\ c1.key = c0.key /\ c1.name = c0.name
  BY DEF GoneTo, UserF
<1>5. rest = <<>> => /\ c1.ip = 0 /\ c1.dip = 0 /\ c1.put = 0 /\ c1.rip = 0 /\ c1.mip = 0 /\ c1.op = ""
                     /\ c0.ip = 0 /\ c0.dip = 0 /\ c0.rip = 0 /\ c0.mip = 0
  BY NoHands DEF GoneTo
<1>6. c1.ip = c0.ip /\ c1.dip = c0.dip /\ c1.rip = c0.rip /\ c1.mip = c0.mip /\ c1.put = 0 BY <1>3, <1>4, <1>5
<1>6a. Bot(<<>>) = "" BY DEF Bot
<1>7. Carries(c0, c1, rest) BY <1>1, <1>4, <1>5, <1>6, <1>6a DEF Carries
<1>8. Up(c1) = 0 BY <1>1, <1>2 DEF Up
<1>9. Rip(c1) = Rip(c0) BY <1>6 DEF Rip
<1>10. ASSUME NEW t \in Slot PROVE RefP(c1, t) = RefQ(c0, t)
  <2>1. B(c1.put = t) = 0 /\ B(Up(c1) = t) = 0 BY <1>6, <1>8, SlotFacts DEF B
  <2>2. /\ B(c1.ip = t) = B(c0.ip = t) /\ B(c1.dip = t) = B(c0.dip = t) /\ B(c1.fd = t) = B(c0.fd = t)
        /\ B(Rip(c1) = t) = B(Rip(c0) = t)
    BY <1>1, <1>6, <1>9
  <2>3. B(c0.ip = t) \in Nat /\ B(c0.dip = t) \in Nat /\ B(c0.fd = t) \in Nat /\ B(Rip(c0) = t) \in Nat BY DEF B
  <2>4. QED BY <2>1, <2>2, <2>3 DEF RefP, RefQ
<1>11. ASSUME NEW t \in Slot PROVE HoldP(c1, t) <=> HoldQ(c0, t, Bot(rest))
  BY <1>1, <1>6, <1>8, SlotFacts DEF HoldP, HoldQ, Walk
<1>12. HandOK(c1, c1.pc)
  <2>1. CASE rest # <<>> BY <2>1, <1>1, <1>2, <1>3, <1>4 DEF HandOK
  <2>2. CASE rest = <<>>
    <3>1. StackOK(<<>>) BY DEF HandOK, StackOK
    <3>2. Top(<<>>) = "" /\ Bot(<<>>) = "" BY DEF Top, Bot
    <3>3. c1.ip = 0 /\ c1.dip = 0 /\ c1.put = 0 /\ c1.rip = 0 /\ c1.mip = 0 /\ c1.op = "" BY <2>2, <1>5
    <3>4. HandOK(c1, <<>>) BY <3>1, <3>2, <3>3, OpensIn DEF HandOK, WithDip, WithIp, WithRip, WithMip
    <3>5. QED BY <3>4, <2>2, <1>1
  <2>3. QED BY <2>1, <2>2
<1>13. Walk(c1) = (Bot(rest) \in {"got", "more"}) BY <1>1 DEF Walk
<1>14. QED BY <1>1, <1>6, <1>7, <1>8, <1>10, <1>11, <1>12, <1>13

\* and what while the inode it gives up is written first.
LEMMA BusyHands ==
  ASSUME NEW c0, NEW c1, NEW s \in Slot, NEW rest \in Seq(Label), HandOK(c0, rest), Top(rest) \notin LeafL,
         BusyAt(c0, c1, s, rest)
  PROVE  /\ Carries(c0, c1, rest) /\ c1.put = s /\ HandOK(c1, c1.pc) /\ Up(c1) = 0
         /\ Bot(c1.pc) = Bot(rest) \/ rest = <<>>
         /\ Walk(c1) = (Bot(rest) \in {"got", "more"})
         /\ \A t \in Slot : RefP(c1, t) = RefQ(c0, t) + B(s = t) /\ (HoldP(c1, t) <=> HoldQ(c0, t, Bot(rest)) \/ t = s)
<1>1. PICK x \in {"fstrunc", "fsiupdat"} : c1.pc = <<x>> \o rest BY DEF BusyAt
<1>2. /\ x \in Label /\ x \notin LastL /\ \A b : Below(x, b)
  BY DEF Label, LeafL, LastL, WithDip, WithIp, PerhapsIp, WithRip, WithMip, Below
<1>2a. StackOK(rest) BY DEF HandOK
<1>3. /\ c1.pc \in Seq(Label) /\ c1.pc # <<>> /\ StackOK(c1.pc)
      /\ Top(c1.pc) = x /\ Bot(c1.pc) = IF rest = <<>> THEN x ELSE Bot(rest)
  BY <1>1, <1>2, <1>2a, StackPush
<1>4. /\ c1.ip = c0.ip /\ c1.dip = c0.dip /\ c1.rip = c0.rip /\ c1.mip = c0.mip /\ c1.put = s
      /\ c1.fd = c0.fd /\ c1.fino = c0.fino /\ c1.op = c0.op /\ c1.key = c0.key /\ c1.name = c0.name
  BY DEF BusyAt, KeepU, UserF
<1>5. rest = <<>> => c0.ip = 0 /\ c0.dip = 0 /\ c0.rip = 0 /\ c0.mip = 0
  BY NoHands
<1>6. Carries(c0, c1, rest) BY <1>1, <1>3, <1>4, <1>5 DEF Carries
<1>7. Up(c1) = 0 BY <1>3 DEF Up
<1>8. Rip(c1) = Rip(c0) BY <1>4 DEF Rip
<1>9. Bot(<<>>) = "" /\ x \notin {"got", "more", ""} BY DEF Bot
<1>10. Walk(c1) = (Bot(rest) \in {"got", "more"})
  <2>1. CASE rest # <<>> BY <2>1, <1>3 DEF Walk
  <2>2. CASE rest = <<>>
    <3>1. Bot(rest) = "" BY <2>2, <1>9
    <3>2. Bot(c1.pc) = x BY <2>2, <1>3
    <3>3. Bot(rest) \notin {"got", "more"} BY <3>1
    <3>4. Bot(c1.pc) \notin {"got", "more"} BY <3>2, <1>9
    <3>5. ~Walk(c1) BY <3>4 DEF Walk
    <3>6. Walk(c1) \in BOOLEAN BY DEF Walk
    <3>7. QED BY <3>3, <3>5, <3>6
  <2>3. QED BY <2>1, <2>2
<1>11. ASSUME NEW t \in Slot PROVE RefP(c1, t) = RefQ(c0, t) + B(s = t)
  <2>1. B(Up(c1) = t) = 0 BY <1>7, SlotFacts DEF B
  <2>2. /\ B(c1.ip = t) = B(c0.ip = t) /\ B(c1.dip = t) = B(c0.dip = t) /\ B(c1.fd = t) = B(c0.fd = t)
        /\ B(Rip(c1) = t) = B(Rip(c0) = t) /\ B(c1.put = t) = B(s = t)
    BY <1>4, <1>8
  <2>3. /\ B(c0.ip = t) \in Nat /\ B(c0.dip = t) \in Nat /\ B(c0.fd = t) \in Nat /\ B(Rip(c0) = t) \in Nat
        /\ B(s = t) \in Nat
    BY DEF B
  <2>4. QED BY <2>1, <2>2, <2>3 DEF RefP, RefQ
<1>12. ASSUME NEW t \in Slot PROVE HoldP(c1, t) <=> HoldQ(c0, t, Bot(rest)) \/ t = s
  BY <1>4, <1>7, <1>10, SlotFacts DEF HoldP, HoldQ
<1>13. HandOK(c1, c1.pc)
  <2>0. s # 0 BY SlotFacts
  <2>1. CASE rest # <<>>
    <3>1. Bot(c1.pc) = Bot(rest) BY <2>1, <1>3
    <3>2. c0.dip # 0 <=> Bot(rest) \in WithDip BY DEF HandOK
    <3>3. QED BY <2>0, <3>1, <1>3, <1>4 DEF HandOK
  <2>2. CASE rest = <<>>
    <3>1. Bot(c1.pc) = x BY <2>2, <1>3
    <3>2. c1.ip = 0 /\ c1.dip = 0 /\ c1.rip = 0 /\ c1.mip = 0 BY <2>2, <1>4, <1>5
    <3>3. x \notin WithDip \cup WithIp \cup WithRip \cup WithMip \cup {"closef", "more", "plockdir", "funmount", "fsoff", "unhang"}
      BY DEF WithDip, WithIp, WithRip, WithMip
    <3>4. c1.op \in {"open", "creat", "exec", "unlink"} => c1.name \in Name BY <1>4 DEF HandOK
    <3>5. FdOK(c1, x)
      <4>1. FdOK(c0, Bot(rest)) BY HandFd
      <4>2. c1.op = c0.op /\ c1.fd = c0.fd BY <1>4
      <4>3. x \notin Opens \cup {"putdir", "got"} BY <3>3, OpensIn
      <4>4. QED BY <4>1, <4>2, <4>3 DEF FdOK
    <3>6. QED BY <2>0, <3>1, <3>2, <3>3, <3>4, <3>5, <1>3, <1>4 DEF HandOK, FdOK
  <2>3. QED BY <2>1, <2>2
<1>14. QED BY <1>3, <1>4, <1>6, <1>7, <1>10, <1>11, <1>12, <1>13

\* k0 is k with the inode s made ready and p changed.
Prep(k, k0, p, s) ==
  /\ Types(k0) /\ k0.freel = k.freel /\ k0.fs.ilock = k.fs.ilock
  /\ \A t \in Slot \ {s} : KeepN(k.node[t], k0.node[t], Dull)
  /\ KeepN(k.node[s], k0.node[s], Dull \cup {"lock", "want"})
  /\ Others(k, k0, p) /\ k0.u[p].chan = Awake
  /\ \A q \in Proc \ {p} : k0.u[q].chan = On(s) /\ k.node[s].lock /\ k.node[s].want => k0.node[s].want

\* p has in k0 one reference to s less than in k.
Given(k, k0, p, s, rest) ==
  /\ HandOK(k0.u[p], rest) /\ Top(rest) \notin LeafL
  /\ k0.u[p].ip # 0 => k0.u[p].ip # k0.u[p].dip \/ Bot(rest) \in {"got", "more"}
  /\ \A t \in Slot : RefP(k.u[p], t) = RefQ(k0.u[p], t) + B(s = t)
  /\ \A t \in Slot \ {s} : HoldP(k.u[p], t) <=> HoldQ(k0.u[p], t, Bot(rest))

\* Before it gives s up it has touched s only.
LEMMA PrepNodes ==
  ASSUME NEW k, NEW k0, NEW p \in Proc, NEW s \in Slot, Prep(k, k0, p, s)
  PROVE  \A t \in Slot : /\ k0.node[t].ino = k.node[t].ino /\ k0.node[t].count = k.node[t].count
                         /\ t # s => k0.node[t].lock = k.node[t].lock /\ k0.node[t].want = k.node[t].want
                         /\ k0.node[t].mroot = k.node[t].mroot /\ k0.node[t].mpoint = k.node[t].mpoint
BY DEF Prep, KeepN, NodeF, Dull

\* All that follows for counts, locks and sleepers, from what happens to the slots.
LEMMA GiveMoves ==
  ASSUME NEW k, NEW k0, NEW k1, NEW p \in Proc, NEW s \in Slot, NEW rest \in Seq(Label), NEW X, NEW y \in {0, 1},
         NEW g \in BOOLEAN,
         Core(k, X), Prep(k, k0, p, s), Given(k, k0, p, s, rest), Types(k1),
         k.node[s].lock => HoldP(k.u[p], s),
         \A t \in Slot \ {s} : k1.node[t] = k0.node[t],
         k1.node[s].count = k.node[s].count - 1 + y, k1.node[s].mroot = k.node[s].mroot,
         (y = 1) <=> g, k1.node[s].lock <=> g, g => k1.node[s].want = k0.node[s].want,
         k1.fs.ilock = k0.fs.ilock,
         \A t \in Slot : RefP(k1.u[p], t) = RefQ(k0.u[p], t) + (IF s = t THEN y ELSE 0),
         \A t \in Slot : HoldP(k1.u[p], t) <=> (HoldQ(k0.u[p], t, Bot(rest)) \/ (t = s /\ g)),
         ~HoldQ(k0.u[p], s, Bot(rest)), k1.u[p].chan = Awake,
         \A q \in Proc \ {p} : /\ KeepU(k0.u[q], k1.u[q], {"chan"}) /\ k1.u[q].chan \in {k0.u[q].chan, Awake}
                               /\ ~g /\ k0.node[s].want => k1.u[q].chan # On(s)
  PROVE  Others(k, k1, p) /\ Ledger(k, k1, p, X, X) /\ Locking(k, k1, p) /\ Waking(k, k1, p)
<1> DEFINE c == k.u[p]  c0 == k0.u[p]  c1 == k1.u[p]
<1>1. \A t \in Slot : /\ k0.node[t].ino = k.node[t].ino /\ k0.node[t].count = k.node[t].count
                      /\ t # s => k0.node[t].lock = k.node[t].lock /\ k0.node[t].want = k.node[t].want
                      /\ k0.node[t].mroot = k.node[t].mroot /\ k0.node[t].mpoint = k.node[t].mpoint
  BY DEF Prep, KeepN, NodeF, Dull
<1>2. Types(k) /\ LockInv(k) BY DEF Core
<1>3. Others(k, k1, p)
  <2>1. Others(k, k0, p) BY DEF Prep
  <2>2. \A q \in Proc \ {p} : KeepU(k.u[q], k1.u[q], {"chan"}) BY <2>1 DEF Others, KeepU
  <2>3. QED BY <2>1, <2>2 DEF Others
<1>4. \A t \in Slot : k1.node[t].mroot = k.node[t].mroot BY <1>1
<1>5. \A t \in Slot : MountRefs(k1.node, t) = MountRefs(k.node, t) BY <1>4, SameMountRefs
<1>6. Ledger(k, k1, p, X, X)
  <2> SUFFICES ASSUME NEW t \in Slot
               PROVE  k1.node[t].count - RefP(c1, t) - MountRefs(k1.node, t) - X[t]
                    = k.node[t].count - RefP(c, t) - MountRefs(k.node, t) - X[t]
    BY DEF Ledger
  <2>1. k.node[t].count \in Int /\ MountRefs(k.node, t) \in Nat /\ X[t] \in Nat
    BY <1>2, MountNat DEF Core, Texts, Types, NodesOK, NodeOK
  <2>2. RefP(c1, t) \in Nat /\ RefP(c, t) \in Nat /\ RefQ(c0, t) \in Nat BY RefNat DEF RefQ, B
  <2>3. RefP(c, t) = RefQ(c0, t) + B(s = t) BY DEF Given
  <2>4. RefP(c1, t) = RefQ(c0, t) + (IF s = t THEN y ELSE 0) OBVIOUS
  <2>5. CASE t = s
    <3>1. RefP(c, s) = RefQ(c0, s) + 1 /\ RefP(c1, s) = RefQ(c0, s) + y BY <2>3, <2>4, <2>5 DEF B
    <3>2. k1.node[s].count = k.node[s].count - 1 + y OBVIOUS
    <3>3. MountRefs(k1.node, s) = MountRefs(k.node, s) BY <1>5
    <3> DEFINE n == k.node[s].count  n1 == k1.node[s].count  m == MountRefs(k.node, s)  r == RefQ(c0, s)
    <3>4. n \in Int /\ m \in Nat /\ X[s] \in Nat /\ r \in Nat /\ y \in Int BY <2>1, <2>2, <2>5
    <3>5. n1 = n - 1 + y /\ RefP(c, s) = r + 1 /\ RefP(c1, s) = r + y /\ MountRefs(k1.node, s) = m
      BY <3>1, <3>2, <3>3
    <3> HIDE DEF c, c0, c1, n, n1, m, r
    <3>6. n1 - RefP(c1, s) - MountRefs(k1.node, s) - X[s] = n - RefP(c, s) - m - X[s] BY <3>4, <3>5
    <3>7. QED BY <3>6, <2>5 DEF n, n1, m
  <2>6. CASE t # s
    <3>1. RefP(c, t) = RefQ(c0, t) /\ RefP(c1, t) = RefQ(c0, t) BY <2>2, <2>3, <2>4, <2>6 DEF B
    <3>2. k1.node[t].count = k.node[t].count BY <1>1, <2>6
    <3>3. QED BY <3>1, <3>2, <1>5
  <2>7. QED BY <2>5, <2>6
<1>7. \A t \in Slot \ {s} : (k1.node[t].lock <=> k.node[t].lock) /\ (k1.node[t].want <=> k.node[t].want) BY <1>1
<1>8. Locking(k, k1, p)
  <2> SUFFICES ASSUME NEW t \in Slot
               PROVE  /\ k1.node[t].lock <=> (HoldP(c1, t) \/ (k.node[t].lock /\ ~HoldP(c, t)))
                      /\ HoldP(c1, t) => HoldP(c, t) \/ ~k.node[t].lock
    BY DEF Locking
  <2>1. HoldP(c, t) => k.node[t].lock BY <1>2 DEF LockInv
  <2>2. CASE t = s
    <3>1. HoldP(c1, s) <=> g OBVIOUS
    <3>2. k1.node[s].lock <=> g OBVIOUS
    <3>3. k.node[s].lock => HoldP(c, s) OBVIOUS
    <3>4. QED BY <2>2, <3>1, <3>2, <3>3
  <2>3. CASE t # s
    <3>1. HoldP(c, t) <=> HoldQ(c0, t, Bot(rest)) BY <2>3 DEF Given
    <3>2. HoldP(c1, t) <=> HoldQ(c0, t, Bot(rest)) BY <2>3
    <3>3. k1.node[t].lock <=> k.node[t].lock BY <2>3, <1>7
    <3>4. QED BY <2>1, <3>1, <3>2, <3>3
  <2>4. QED BY <2>2, <2>3
<1>9. Waking(k, k1, p)
  <2>1. ASSUME NEW q \in Proc \ {p}, NEW t \in Slot, k1.u[q].chan = On(t), k.node[t].lock, k.node[t].want
        PROVE  k1.node[t].lock /\ k1.node[t].want
    <3>1. CASE t # s BY <3>1, <2>1, <1>7
    <3>2. CASE t = s
      <4>1. k0.u[q].chan = On(s) BY <2>1, <3>2, AwakeOn
      <4>2. k0.node[s].want BY <4>1, <2>1, <3>2 DEF Prep
      <4>3. g BY <4>2, <2>1, <3>2
      <4>4. QED BY <4>2, <4>3, <3>2
    <3>3. QED BY <3>1, <3>2
  <2>2. Awake # <<"ilock", 0>> /\ \A t \in Slot : Awake # On(t) BY AwakeOn DEF Awake
  <2>3. k1.fs.ilock = k.fs.ilock BY DEF Prep
  <2>4. \A q \in Proc \ {p} : k.fs.ilock => k1.fs.ilock BY <2>3
  <2>5. QED BY <2>1, <2>2, <2>4 DEF Waking
<1>10. QED BY <1>3, <1>6, <1>8, <1>9

\* Nothing in hand on t.
LEMMA QEmpty ==
  ASSUME NEW c, NEW t \in Slot, RefQ(c, t) = 0
  PROVE  c.ip # t /\ c.dip # t /\ c.fd # t /\ Rip(c) # t
<1> DEFINE x1 == B(c.ip = t)  x2 == B(c.dip = t)  x3 == B(c.fd = t)  x4 == B(Rip(c) = t)
<1>1. x1 + x2 + x3 + x4 = 0 BY DEF RefQ
<1>2. x1 \in Nat /\ x2 \in Nat /\ x3 \in Nat /\ x4 \in Nat BY DEF B
<1>3. (x1 = 0 => c.ip # t) /\ (x2 = 0 => c.dip # t) /\ (x3 = 0 => c.fd # t) /\ (x4 = 0 => Rip(c) # t)
  BY DEF B
<1> HIDE DEF x1, x2, x3, x4
<1>4. QED BY <1>1, <1>2, <1>3

\* The outcome of iput and idec but for the count that just goes down.
Gave(k, k1, p, s, rest) ==
  \/ k.node[s].count = 1 /\ (Busy(k, k1, p, s, rest) \/ Freed(k, k1, p, s, rest))
  \/ k.node[s].count # 1 /\ Dropped(k, k1, p, s, rest)

\* Nothing is mounted or unmounted, nothing new comes in core.
NoNews(k, k1) == \A t \in Slot : /\ k1.node[t].mroot = k.node[t].mroot /\ k1.node[t].mpoint = k.node[t].mpoint
                                 /\ k1.node[t].ino = k.node[t].ino \/ k1.node[t].ino = "none"

\* Counts, locks and sleepers go together, and nothing new comes.
Moves(k, k1, p, X) ==
  /\ Others(k, k1, p) /\ Ledger(k, k1, p, X, X) /\ Locking(k, k1, p) /\ Waking(k, k1, p)
  /\ Types(k1) /\ ProcOK(k1.u[p]) /\ PutOK(k1, k1.u[p]) /\ NoNews(k, k1)
  /\ Stays(k, k1) \/ \E z \in Slot : Frees(k, k1, z)

\* One that no process but p may have locked, p keeps no lock on it.
GiveLock(k, k0, p, s, rest) ==
  /\ k.node[s].lock => HoldP(k.u[p], s)
  /\ ~HoldQ(k0.u[p], s, Bot(rest))

\* The inode is written first: nothing changes hands but by name,
BusyOut(k, k0, k1, p, s, rest, X) ==
  /\ Moves(k, k1, p, X) /\ Carries(k0.u[p], k1.u[p], rest) /\ k1.u[p].put = s /\ k1.fs.mdev = k0.fs.mdev
  /\ \A t \in Slot : RefP(k1.u[p], t) = RefP(k.u[p], t)
  /\ \A t \in Slot : k1.node[t].count = k.node[t].count

\* or it is given up.
GoneOut(k, k0, k1, p, s, rest, X) ==
  /\ Moves(k, k1, p, X) /\ Carries(k0.u[p], k1.u[p], rest) /\ k1.fs.mdev = k0.fs.mdev
  /\ k0.node[s].count = 1 => k1.node[s].ino = "none"
  /\ \A t \in Slot : RefP(k1.u[p], t) = RefQ(k0.u[p], t)
  /\ \A t \in Slot \ {s} : k1.node[t].count = k.node[t].count

\* Giving up: the inode is written first.
LEMMA GiveBusy ==
  ASSUME NEW k, NEW k0, NEW k1, NEW p \in Proc, NEW s \in Slot, NEW rest \in Seq(Label), NEW X,
         Core(k, X), Prep(k, k0, p, s), Given(k, k0, p, s, rest), GiveLock(k, k0, p, s, rest),
         k0.node[s].count = 1, Busy(k0, k1, p, s, rest)
  PROVE  BusyOut(k, k0, k1, p, s, rest, X)
<1> DEFINE c == k.u[p]  c0 == k0.u[p]  c1 == k1.u[p]
<1>1. \A t \in Slot : /\ k0.node[t].ino = k.node[t].ino /\ k0.node[t].count = k.node[t].count
                      /\ t # s => k0.node[t].lock = k.node[t].lock /\ k0.node[t].want = k.node[t].want
                      /\ k0.node[t].mroot = k.node[t].mroot /\ k0.node[t].mpoint = k.node[t].mpoint
  BY DEF Prep, KeepN, NodeF, Dull
<1>2. /\ Types(k1) /\ k1.freel = k0.freel /\ k1.fs.ilock = k0.fs.ilock /\ k1.fs.mdev = k0.fs.mdev
      /\ (\A q \in Proc \ {p} : k1.u[q] = k0.u[q]) /\ BusyAt(c0, c1, s, rest)
      /\ (\A t \in Slot \ {s} : k1.node[t] = k0.node[t])
      /\ k1.node[s].lock /\ k1.node[s].ino = k0.node[s].ino /\ k1.node[s].count = k0.node[s].count
      /\ k1.node[s].want = k0.node[s].want /\ k1.node[s].mroot = k0.node[s].mroot
      /\ k1.node[s].mpoint = k0.node[s].mpoint
  BY DEF Busy, BusyAt, KeepF, FsF, NodeBut, KeepN, NodeF
<1>3. /\ Carries(c0, c1, rest) /\ c1.put = s /\ HandOK(c1, c1.pc) /\ Up(c1) = 0
      /\ Bot(c1.pc) = Bot(rest) \/ rest = <<>>
      /\ Walk(c1) = (Bot(rest) \in {"got", "more"})
      /\ \A t \in Slot : RefP(c1, t) = RefQ(c0, t) + B(s = t) /\ (HoldP(c1, t) <=> HoldQ(c0, t, Bot(rest)) \/ t = s)
  <2>1. HandOK(c0, rest) /\ Top(rest) \notin LeafL BY DEF Given
  <2>2. BusyAt(c0, c1, s, rest) BY <1>2
  <2> HIDE DEF c0, c1
  <2>3. QED BY <2>1, <2>2, BusyHands
<1>4. c0.chan = Awake /\ k0.fs.ilock = k.fs.ilock /\ k0.freel = k.freel BY DEF Prep
<1>5. c1.chan = Awake BY <1>2, <1>4 DEF BusyAt, KeepU, UserF
<1>6. \A t \in Slot : RefP(c1, t) = RefP(c, t) BY <1>3 DEF Given
<1>7. \A t \in Slot : RefP(c1, t) = RefQ(c0, t) + (IF s = t THEN 1 ELSE 0) BY <1>3 DEF B
<1>8. k.node[s].count = 1 /\ RefP(c, s) = RefQ(c0, s) + 1 BY <1>1 DEF Given, B
<1>9. RefQ(c0, s) = 0
  <2>1. /\ k.node[s].count >= RefP(c, s) + MountRefs(k.node, s) + X[s]
        /\ MountRefs(k.node, s) \in Nat /\ X[s] \in Nat
    BY CountAtLeast
  <2>2. RefQ(c0, s) \in Nat BY DEF RefQ, B
  <2>3. QED BY <1>8, <2>1, <2>2
<1>10. Others(k, k1, p) /\ Ledger(k, k1, p, X, X) /\ Locking(k, k1, p) /\ Waking(k, k1, p)
  <2>1. k1.node[s].count = k.node[s].count - 1 + 1 /\ k1.node[s].mroot = k.node[s].mroot
    BY <1>1, <1>2, <1>8
  <2>2. \A t \in Slot : HoldP(c1, t) <=> (HoldQ(c0, t, Bot(rest)) \/ (t = s /\ TRUE)) BY <1>3
  <2>3. \A q \in Proc \ {p} : /\ KeepU(k0.u[q], k1.u[q], {"chan"}) /\ k1.u[q].chan \in {k0.u[q].chan, Awake}
                              /\ ~TRUE /\ k0.node[s].want => k1.u[q].chan # On(s)
    BY <1>2 DEF KeepU
  <2>4. 1 \in {0, 1} /\ TRUE \in BOOLEAN /\ (1 = 1 <=> TRUE) OBVIOUS
  <2>5. k.node[s].lock => HoldP(c, s) BY DEF GiveLock
  <2>6. ~HoldQ(c0, s, Bot(rest)) BY DEF GiveLock
  <2>7. k1.node[s].lock <=> TRUE BY <1>2
  <2>8. TRUE => k1.node[s].want = k0.node[s].want BY <1>2
  <2>9. Types(k1) /\ k1.fs.ilock = k0.fs.ilock /\ \A t \in Slot \ {s} : k1.node[t] = k0.node[t] BY <1>2
  <2> HIDE DEF c, c0, c1
  <2>10. QED BY <2>1, <2>2, <2>3, <2>4, <2>5, <2>6, <2>7, <2>8, <2>9, <1>5, <1>7, GiveMoves DEF c, c0, c1
<1>11. Apart(c1)
  <2>1. c0.ip # s /\ c0.dip # s BY <1>9, QEmpty
  <2>2. c0.rip # s BY DEF GiveLock, HoldQ
  <2>3. c0.ip # 0 => c0.ip # c0.dip \/ Bot(rest) \in {"got", "more"} BY DEF Given
  <2>4. c1.ip = c0.ip /\ c1.dip = c0.dip /\ c1.rip = c0.rip BY <1>3 DEF Carries
  <2>5. QED BY <2>1, <2>2, <2>3, <2>4, <1>3 DEF Apart
<1>12. PutOK(k1, c1) BY <1>2, <1>3 DEF PutOK
<1>13. NoNews(k, k1) BY <1>1, <1>2 DEF NoNews
<1>14. \A t \in Slot : k1.node[t].count = k.node[t].count BY <1>1, <1>2
<1>15. k.node[s].ino # "none"
  <2>1. RefP(c, s) # 0 BY <1>8, <1>9
  <2>2. QED BY <2>1, RefIno
<1>16. Stays(k, k1)
  <2>1. \A t \in Slot : k1.node[t].ino = k.node[t].ino BY <1>1, <1>2
  <2>2. \A t \in Slot \ {s} : k1.node[t].lock => k.node[t].lock BY <1>1, <1>2
  <2>3. \A t \in Slot : SameSlot(k.node[t], k1.node[t]) BY <2>1, <2>2, <1>14, <1>15 DEF SameSlot
  <2>4. QED BY <2>3, <1>2, <1>4 DEF Stays
<1>17. QED BY <1>2, <1>3, <1>6, <1>10, <1>11, <1>12, <1>13, <1>14, <1>16 DEF Moves, ProcOK, BusyOut

\* Giving up: the reference is gone.
LEMMA GiveGone ==
  ASSUME NEW k, NEW k0, NEW k1, NEW p \in Proc, NEW s \in Slot, NEW rest \in Seq(Label), NEW X,
         Core(k, X), Prep(k, k0, p, s), Given(k, k0, p, s, rest), GiveLock(k, k0, p, s, rest),
         \/ k0.node[s].count = 1 /\ Freed(k0, k1, p, s, rest)
         \/ k0.node[s].count # 1 /\ Dropped(k0, k1, p, s, rest)
  PROVE  GoneOut(k, k0, k1, p, s, rest, X)
<1> DEFINE c == k.u[p]  c0 == k0.u[p]  c1 == k1.u[p]
<1>1. \A t \in Slot : /\ k0.node[t].ino = k.node[t].ino /\ k0.node[t].count = k.node[t].count
                      /\ t # s => k0.node[t].lock = k.node[t].lock /\ k0.node[t].want = k.node[t].want
                      /\ k0.node[t].mroot = k.node[t].mroot /\ k0.node[t].mpoint = k.node[t].mpoint
  BY DEF Prep, KeepN, NodeF, Dull
<1>2. /\ Types(k1) /\ k1.fs = k0.fs /\ GoneTo(c0, c1, rest) /\ CalledBut(k0, k1, p, s)
      /\ (\A t \in Slot \ {s} : k1.node[t] = k0.node[t])
      /\ ~k1.node[s].lock /\ k1.node[s].count = k0.node[s].count - 1
      /\ k1.node[s].mroot = k0.node[s].mroot /\ k1.node[s].mpoint = k0.node[s].mpoint
  BY DEF Freed, Dropped, SameRest, NodeBut, KeepN, NodeF
<1>2a. \/ /\ k0.node[s].count = 1 /\ k1.freel = <<s>> \o k0.freel /\ k1.node[s].ino = "none"
       \/ /\ k0.node[s].count # 1 /\ k1.freel = k0.freel /\ k1.node[s].ino = k0.node[s].ino
  BY DEF Freed, Dropped, SameRest, KeepN, NodeF
<1>3. /\ Carries(c0, c1, rest) /\ c1.put = 0 /\ c1.pc = rest
      /\ HandOK(c1, c1.pc) /\ Bot(c1.pc) = Bot(rest) /\ Walk(c1) = (Bot(rest) \in {"got", "more"}) /\ Up(c1) = 0
      /\ \A t \in Slot : RefP(c1, t) = RefQ(c0, t) /\ (HoldP(c1, t) <=> HoldQ(c0, t, Bot(rest)))
  <2>1. HandOK(c0, rest) /\ Top(rest) \notin LeafL BY DEF Given
  <2>2. GoneTo(c0, c1, rest) BY <1>2
  <2> HIDE DEF c0, c1
  <2>3. QED BY <2>1, <2>2, GoneHands
<1>4. c0.chan = Awake /\ k0.fs.ilock = k.fs.ilock /\ k0.freel = k.freel BY DEF Prep
<1>5. c1.chan = Awake
  <2>1. rest # <<>> => c1.chan = c0.chan BY <1>2 DEF GoneTo, UserF
  <2>2. rest = <<>> => c1.chan = Awake BY <1>2 DEF GoneTo
  <2>3. QED BY <2>1, <2>2, <1>4
<1>7. \A t \in Slot : RefP(c1, t) = RefQ(c0, t) + (IF s = t THEN 0 ELSE 0)
  <2>1. \A t \in Slot : RefQ(c0, t) \in Nat BY DEF RefQ, B
  <2>2. QED BY <2>1, <1>3
<1>10. Others(k, k1, p) /\ Ledger(k, k1, p, X, X) /\ Locking(k, k1, p) /\ Waking(k, k1, p)
  <2>0. k.node[s].count \in Int BY DEF Core, Types, NodesOK, NodeOK
  <2>1. k1.node[s].count = k.node[s].count - 1 + 0 /\ k1.node[s].mroot = k.node[s].mroot
    BY <1>1, <1>2, <2>0
  <2>2. \A t \in Slot : HoldP(c1, t) <=> (HoldQ(c0, t, Bot(rest)) \/ (t = s /\ FALSE)) BY <1>3
  <2>3. \A q \in Proc \ {p} : /\ KeepU(k0.u[q], k1.u[q], {"chan"}) /\ k1.u[q].chan \in {k0.u[q].chan, Awake}
                              /\ ~FALSE /\ k0.node[s].want => k1.u[q].chan # On(s)
    BY <1>2, AwakeOn DEF CalledBut
  <2>4. 0 \in {0, 1} /\ FALSE \in BOOLEAN /\ (0 = 1 <=> FALSE) OBVIOUS
  <2>5. k.node[s].lock => HoldP(c, s) BY DEF GiveLock
  <2>6. ~HoldQ(c0, s, Bot(rest)) BY DEF GiveLock
  <2>7. k1.node[s].lock <=> FALSE BY <1>2
  <2>8. FALSE => k1.node[s].want = k0.node[s].want OBVIOUS
  <2>9. Types(k1) /\ k1.fs.ilock = k0.fs.ilock /\ \A t \in Slot \ {s} : k1.node[t] = k0.node[t] BY <1>2
  <2> HIDE DEF c, c0, c1
  <2>10. QED BY <2>1, <2>2, <2>3, <2>4, <2>5, <2>6, <2>7, <2>8, <2>9, <1>5, <1>7, GiveMoves DEF c, c0, c1
<1>11. Apart(c1)
  <2>3. c0.ip # 0 => c0.ip # c0.dip \/ Bot(rest) \in {"got", "more"} BY DEF Given
  <2>4. c1.ip = c0.ip /\ c1.dip = c0.dip /\ c1.rip = c0.rip BY <1>3 DEF Carries
  <2>5. c1.rip # 0 => c1.rip # Up(c1) BY <1>3
  <2> HIDE DEF c0, c1
  <2>6. QED BY <2>3, <2>4, <2>5, <1>3 DEF Apart
<1>12. PutOK(k1, c1) BY <1>3 DEF PutOK
<1>13. NoNews(k, k1) BY <1>1, <1>2, <1>2a DEF NoNews
<1>14. \A t \in Slot \ {s} : k1.node[t].count = k.node[t].count BY <1>1, <1>2
<1>15. k.node[s].ino # "none" /\ k.node[s].count \in Nat \ {0}
  <2>1. RefP(c, s) = RefQ(c0, s) + 1 BY DEF Given, B
  <2>2. RefQ(c0, s) \in Nat BY DEF RefQ, B
  <2>3. RefP(c, s) # 0 BY <2>1, <2>2
  <2>4. QED BY <2>3, RefIno
<1>16. Stays(k, k1) \/ \E z \in Slot : Frees(k, k1, z)
  <2>1. \A t \in Slot \ {s} : SameSlot(k.node[t], k1.node[t])
    <3>1. \A t \in Slot \ {s} : k1.node[t].ino = k.node[t].ino BY <1>1, <1>2
    <3>2. \A t \in Slot \ {s} : k1.node[t].lock => k.node[t].lock BY <1>1, <1>2
    <3>3. QED BY <3>1, <3>2, <1>14 DEF SameSlot
  <2>2. CASE k0.node[s].count = 1
    <3>1. k1.freel = <<s>> \o k.freel /\ k1.node[s].ino = "none" BY <2>2, <1>2a, <1>4
    <3>2. k1.node[s].count = 0 /\ ~k1.node[s].lock BY <2>2, <1>2
    <3>3. Frees(k, k1, s) BY <2>1, <3>1, <3>2, <1>15 DEF Frees
    <3>4. QED BY <3>3
  <2>3. CASE k0.node[s].count # 1
    <3>1. k1.freel = k.freel /\ k1.node[s].ino = k.node[s].ino BY <2>3, <1>1, <1>2a, <1>4
    <3>2. k1.node[s].count # 0 /\ k.node[s].count # 0 BY <2>3, <1>1, <1>2, <1>15
    <3>3. SameSlot(k.node[s], k1.node[s]) BY <3>1, <3>2, <1>2 DEF SameSlot
    <3>4. QED BY <2>1, <3>1, <3>3 DEF Stays
  <2>4. QED BY <2>2, <2>3
<1>18. k0.node[s].count = 1 => k1.node[s].ino = "none" BY <1>2a
<1>17. QED BY <1>2, <1>3, <1>10, <1>11, <1>12, <1>13, <1>14, <1>16, <1>18 DEF Moves, ProcOK, GoneOut

\* Where p goes on is in order with what is mounted.
Onward(k, k0, p, s, rest) ==
  /\ k.fs.mdev => k0.fs.mdev \/ Bot(k.u[p].pc) \in Owner
  /\ Bot(rest) \in Owner => Bot(k.u[p].pc) \in Owner /\ k0.fs.mdev
  /\ Bot(k.u[p].pc) \in Owner =>
       /\ k.node[s].ino = "root" => k.node[s].count = 1
       /\ Bot(rest) \in Owner \/ \A t \in Slot : RefP(k.u[p], t) # 0 => k.node[t].ino # "root"
  /\ PathAt(k, k0.u[p], Bot(rest))
  /\ Bot(rest) = "unhang" => Bot(k.u[p].pc) = "unhang" /\ k0.u[p].rip = k.u[p].rip /\ s # k.u[p].rip

\* Outside a walk nothing is asked of mounts.
LEMMA NoLabel ==
  \A b \in {"", "fstrunc", "fsiupdat"} :
    /\ b \notin Owner \cup Named \cup WithDip \cup WithIp \cup PerhapsIp \cup WithRip \cup WithMip
    /\ b \notin {"fson", "fson2", "dir", "more", "fson3", "fsoff", "unhang", "plockdir"}
BY DEF Owner, Named, WithDip, WithIp, PerhapsIp, WithRip, WithMip

\* What it carries on with is where it was.
LEMMA CarriesPath ==
  ASSUME NEW k, NEW c0, NEW c1, NEW rest, Carries(c0, c1, rest), PathAt(k, c0, Bot(rest))
  PROVE  PathAt(k, c1, Bot(c1.pc))
<1>1. CASE rest # <<>> BY <1>1 DEF Carries, PathAt
<1>2. CASE rest = <<>>
  <2>1. Bot(c1.pc) \in {"", "fstrunc", "fsiupdat"} BY <1>2 DEF Carries
  <2>2. c1.fd # 0 => k.node[c1.fd].ino = c1.fino /\ c1.fino \in InFs BY DEF Carries, PathAt
  <2>3. QED BY <2>1, <2>2, NoLabel DEF PathAt
<1>3. QED BY <1>1, <1>2

\* Giving a reference up keeps the invariant.
LEMMA GiveGood ==
  ASSUME NEW k, NEW k0, NEW k1, NEW p \in Proc, NEW s \in Slot, NEW rest \in Seq(Label), NEW X,
         Good(k, X), Prep(k, k0, p, s), Given(k, k0, p, s, rest), GiveLock(k, k0, p, s, rest),
         Onward(k, k0, p, s, rest), Gave(k0, k1, p, s, rest)
  PROVE  Good(k1, X)
<1> DEFINE c == k.u[p]  c0 == k0.u[p]  c1 == k1.u[p]
<1>1. Core(k, X) /\ PathOK(k, c) BY DEF Good, Mounts
<1>1a. k0.node[s].count = k.node[s].count BY DEF Prep, KeepN, NodeF, Dull
<1>1b. Core(k, X) BY <1>1
<1>2. /\ Moves(k, k1, p, X) /\ Carries(c0, c1, rest) /\ k1.fs.mdev = k0.fs.mdev
      /\ \A t \in Slot : RefP(c1, t) # 0 => RefP(c, t) # 0
      /\ \A t \in Slot \ {s} : k1.node[t].count = k.node[t].count
      /\ k.node[s].count = 1 => c1.put = s \/ k1.node[s].ino = "none"
  <2>1. CASE k0.node[s].count = 1 /\ Busy(k0, k1, p, s, rest)
    <3>1. BusyOut(k, k0, k1, p, s, rest, X) BY <1>1b, <2>1, GiveBusy
    <3>2. QED BY <3>1, <1>1a, <2>1 DEF BusyOut
  <2>2. CASE \/ k0.node[s].count = 1 /\ Freed(k0, k1, p, s, rest)
             \/ k0.node[s].count # 1 /\ Dropped(k0, k1, p, s, rest)
    <3>0. GoneOut(k, k0, k1, p, s, rest, X) BY <1>1b, <2>2, GiveGone
    <3>1. /\ Moves(k, k1, p, X) /\ Carries(c0, c1, rest) /\ k1.fs.mdev = k0.fs.mdev
          /\ k0.node[s].count = 1 => k1.node[s].ino = "none"
          /\ \A t \in Slot : RefP(c1, t) = RefQ(c0, t)
          /\ \A t \in Slot \ {s} : k1.node[t].count = k.node[t].count
      BY <3>0 DEF GoneOut
    <3>2. \A t \in Slot : RefP(c, t) = RefQ(c0, t) + B(s = t) BY DEF Given
    <3>3. \A t \in Slot : RefQ(c0, t) \in Nat /\ B(s = t) \in Nat BY DEF RefQ, B
    <3>4. \A t \in Slot : RefP(c1, t) # 0 => RefP(c, t) # 0 BY <3>1, <3>2, <3>3
    <3>5. QED BY <3>1, <3>4, <1>1a
  <2>3. QED BY <2>1, <2>2 DEF Gave
<1>3. /\ Others(k, k1, p) /\ Ledger(k, k1, p, X, X) /\ Locking(k, k1, p) /\ Waking(k, k1, p)
      /\ Types(k1) /\ ProcOK(c1) /\ PutOK(k1, c1) /\ NoNews(k, k1)
      /\ Stays(k, k1) \/ \E z \in Slot : Frees(k, k1, z)
  BY <1>2 DEF Moves
<1>4. /\ k.fs.mdev => k0.fs.mdev \/ Bot(c.pc) \in Owner
      /\ Bot(rest) \in Owner => Bot(c.pc) \in Owner /\ k0.fs.mdev
      /\ Bot(c.pc) \in Owner =>
           /\ k.node[s].ino = "root" => k.node[s].count = 1
           /\ Bot(rest) \in Owner \/ \A t \in Slot : RefP(c, t) # 0 => k.node[t].ino # "root"
      /\ PathAt(k, c0, Bot(rest))
      /\ Bot(rest) = "unhang" => Bot(c.pc) = "unhang" /\ c0.rip = c.rip /\ s # c.rip
  BY DEF Onward
<1>5. Bot(<<>>) = "" BY DEF Bot
<1>6. /\ Bot(c1.pc) = Bot(rest) \/ Bot(c1.pc) \in {"", "fstrunc", "fsiupdat"}
      /\ Bot(rest) # "" => Bot(c1.pc) = Bot(rest)
  BY <1>2, <1>5 DEF Carries
<1>7. (Bot(c1.pc) \in Owner \/ Bot(c1.pc) = "unhang" => Bot(c1.pc) = Bot(rest))
      /\ (Bot(rest) \in Owner \/ Bot(rest) = "unhang" => Bot(c1.pc) = Bot(rest))
  BY <1>6, NoLabel
<1>8. \A t \in Slot : RefP(c, t) # 0 /\ k.node[t].ino = "root" /\ ~IsMounted(k) => Bot(c.pc) \in Owner
  BY <1>1 DEF PathOK
<1>9. RootOwned(k, c1) BY <1>2, <1>4, <1>7, <1>8 DEF RootOwned
<1>10. Empty(k1, c1)
  <2> SUFFICES ASSUME Bot(c1.pc) = "unhang", NEW t \in Slot, k1.node[t].ino \notin {"mp", "none"}
               PROVE  t = c1.rip /\ k1.node[t].count = 1
    BY DEF Empty
  <2>1. k.node[t].ino \notin {"mp", "none"} BY <1>3 DEF NoNews
  <2>2. Bot(c.pc) = "unhang" /\ c0.rip = c.rip /\ s # c.rip /\ c1.rip = c0.rip BY <1>2, <1>4, <1>7 DEF Carries
  <2>3. t = c.rip /\ k.node[t].count = 1 BY <1>1, <2>1, <2>2 DEF PathOK
  <2>4. QED BY <2>2, <2>3, <1>2
<1>11. PathAt(k, c1, Bot(c1.pc)) BY <1>2, <1>4, CarriesPath
<1>12. ASSUME NEW t \in Slot, OwnsRoot(c, t), k1.node[t].ino = "root" PROVE OwnsRoot(c1, t)
  <2>1. k.node[t].ino = "root" BY <1>12, <1>3 DEF NoNews
  <2>2. Bot(c.pc) \in Owner /\ (c.ip = t \/ c.put = t \/ c.rip = t) BY <1>12 DEF OwnsRoot
  <2>3. RefP(c, t) # 0
    <3>1. Bot(c.pc) \notin WithMip BY <2>2, Labels
    <3>2. c.mip = 0 BY <3>1, <1>1 DEF Core, ProcOK, HandOK
    <3>3. Rip(c) = c.rip BY <3>2 DEF Rip
    <3>4. QED BY <2>2, <3>3, HandRef
  <2>4. Bot(rest) \in Owner BY <1>4, <2>1, <2>2, <2>3
  <2>5. Bot(c1.pc) \in Owner BY <2>4, <1>7
  <2>6. CASE t = s
    <3>1. k.node[s].count = 1 BY <1>4, <2>1, <2>2, <2>6
    <3>2. QED BY <3>1, <2>5, <2>6, <1>2, <1>12 DEF OwnsRoot
  <2>7. CASE t # s
    <3>1. HoldP(c, t) BY <2>2 DEF HoldP
    <3>2. HoldQ(c0, t, Bot(rest)) BY <3>1, <2>7 DEF Given
    <3>3. c0.ip = t \/ c0.rip = t \/ c0.dip = t BY <3>2 DEF HoldQ
    <3>4. c0.dip # t
      <4>1. HandOK(c0, rest) BY DEF Given
      <4>2. c0.dip # 0 => Bot(rest) \in WithDip BY <4>1 DEF HandOK
      <4>3. c0.dip # 0 => Bot(rest) = "fson3" BY <4>2, <2>4, Labels
      <4>4. c0.dip # 0 => k.node[c0.dip].ino = "mp" BY <4>3, <1>4 DEF PathAt
      <4>5. QED BY <4>4, <2>1, SlotFacts
    <3>5. c1.ip = t \/ c1.rip = t BY <3>3, <3>4, <1>2 DEF Carries
    <3>6. QED BY <3>5, <2>5 DEF OwnsRoot
  <2>8. QED BY <2>6, <2>7
<1>13. Plain(k, k1, p, X, X)
  <2>1. Gains(c, c1) BY <1>2 DEF Gains
  <2>2. \A t \in Slot : ~(X[t] > X[t]) BY <1>1 DEF Core, Texts
  <2>3. k.fs.mdev => k1.fs.mdev \/ Bot(c.pc) \in Owner BY <1>2, <1>4
  <2>4. Bot(c1.pc) \in Owner => Bot(c.pc) \in Owner BY <1>4, <1>7
  <2>5. QED BY <1>3, <1>12, <2>1, <2>2, <2>3, <2>4 DEF Plain, NoNews
<1>14. Bot(c1.pc) \in Owner => k1.fs.mdev /\ ~IsMounted(k) BY <1>1, <1>2, <1>4, <1>7 DEF PathOK
<1>15. QED BY <1>3, <1>9, <1>10, <1>11, <1>13, <1>14, StepGood

-----------------------------------------------------------------------------
(* The steps of the processes, one lemma each. *)

\* c1 has the same things in hand as c, that is neither about to update nor comes from it.
Hop(c, c1) ==
  /\ c1.ip = c.ip /\ c1.dip = c.dip /\ c1.put = c.put /\ c1.rip = c.rip /\ c1.mip = c.mip
  /\ c1.fd = c.fd /\ c1.fino = c.fino
  /\ Top(c.pc) # "upput" /\ Top(c1.pc) # "upput" /\ Walk(c1) = Walk(c)

\* Such a step changes no reference and no lock.
LEMMA HopHands ==
  ASSUME NEW c, NEW c1, Hop(c, c1)
  PROVE  /\ \A t \in Slot : RefP(c1, t) = RefP(c, t) /\ HoldP(c1, t) = HoldP(c, t)
         /\ Up(c) = 0 /\ Up(c1) = 0 /\ Rip(c1) = Rip(c)
         /\ Apart(c) => Apart(c1)
<1>1. Up(c) = 0 /\ Up(c1) = 0 BY DEF Hop, Up
<1>2. Rip(c1) = Rip(c) BY DEF Hop, Rip
<1>3. \A t \in Slot : RefP(c1, t) = RefP(c, t) BY <1>1, <1>2 DEF Hop, RefP
<1>4. \A t \in Slot : HoldP(c1, t) = HoldP(c, t) BY <1>1 DEF Hop, HoldP
<1>5. Apart(c) => Apart(c1) BY <1>1 DEF Hop, Apart
<1>6. QED BY <1>1, <1>2, <1>3, <1>4, <1>5

\* It keeps the invariant.
LEMMA HopGood ==
  ASSUME NEW k, NEW k1, NEW p \in Proc, NEW X, Good(k, X), Types(k1), Others(k, k1, p),
         k1.freel = k.freel, SameNodes(k, k1), k1.u[p].chan = Awake, Hop(k.u[p], k1.u[p]),
         k1.fs.ilock = k.fs.ilock, k1.fs.mdev = k.fs.mdev, HandOK(k1.u[p], k1.u[p].pc),
         PathAt(k, k1.u[p], Bot(k1.u[p].pc)),
         Bot(k1.u[p].pc) \in Owner <=> Bot(k.u[p].pc) \in Owner,
         Bot(k1.u[p].pc) = "unhang" => Bot(k.u[p].pc) = "unhang"
  PROVE  Good(k1, X)
<1> DEFINE c == k.u[p]  c1 == k1.u[p]
<1>1. /\ \A t \in Slot : RefP(c1, t) = RefP(c, t) /\ HoldP(c1, t) = HoldP(c, t)
      /\ Apart(c) => Apart(c1)
  BY HopHands
<1>2. ProcOK(c) /\ PathOK(k, c) /\ PutOK(k, c) BY DEF Good, Core, Mounts
<1>3. ProcOK(c1) BY <1>1, <1>2 DEF ProcOK
<1>4. PutOK(k, c1) BY <1>2 DEF PutOK, Hop
<1>5. RootOwned(k, c1) BY <1>1, <1>2 DEF RootOwned, PathOK
<1>6. Empty(k, c1) BY <1>2 DEF Empty, PathOK, Hop
<1>7. Bot(c1.pc) \in Owner => k1.fs.mdev /\ ~IsMounted(k) BY <1>2 DEF PathOK
<1>8. \A s \in Slot : OwnsRoot(c, s) /\ k.node[s].ino = "root" => OwnsRoot(c1, s)
  BY DEF OwnsRoot, Hop
<1>9. QED BY <1>1, <1>3, <1>4, <1>5, <1>6, <1>7, <1>8, MoveGood

\* The routines on top and in the middle of a stack are none at the bottom.
LEMMA LeafFacts ==
  /\ LeafL \cap LastL = {} /\ MidL \cap LastL = {} /\ LeafL \cap MidL = {}
  /\ \A l \in MidL \cup LeafL : l \notin WithDip \cup WithIp \cup PerhapsIp \cup WithRip \cup WithMip
  /\ WithDip \cup WithIp \cup PerhapsIp \cup WithRip \cup WithMip \subseteq LastL
  /\ Owner \subseteq LastL /\ Named \subseteq LastL
  /\ "upput" \in LeafL /\ "" \notin LastL \cup MidL \cup LeafL
BY DEF LeafL, MidL, LastL, WithDip, WithIp, PerhapsIp, WithRip, WithMip, Owner, Named

\* Where the routine below goes on, or the call ends, nothing changes hands.
LEMMA PopHands ==
  ASSUME NEW c, NEW c1, c.pc \in Seq(Label), c.pc # <<>>, HandOK(c, c.pc), Top(c.pc) \in MidL \cup {"fsiread"},
         GoneTo(c, c1, Tail(c.pc))
  PROVE  /\ Hop(c, c1) /\ HandOK(c1, c1.pc)
         /\ Tail(c.pc) # <<>> => Bot(c1.pc) = Bot(c.pc) /\ c1.op = c.op /\ c1.key = c.key /\ c1.name = c.name
         /\ Tail(c.pc) = <<>> => Bot(c1.pc) = "" /\ Bot(c.pc) \in MidL \cup {"fsiread"}
         /\ Tail(c.pc) # <<>> => c1.chan = c.chan
         /\ Tail(c.pc) = <<>> => c1.chan = Awake
<1> DEFINE r == Tail(c.pc)
<1>1. /\ r \in Seq(Label) /\ StackOK(r) /\ Top(r) \notin LeafL
      /\ r # <<>> => Bot(r) = Bot(c.pc) /\ Top(c.pc) \notin LastL
      /\ r = <<>> => Bot(c.pc) = Top(c.pc) /\ c.pc = <<Top(c.pc)>>
  BY StackPop DEF HandOK
<1>2. c1.pc = r /\ c1.fd = c.fd /\ c1.fino = c.fino BY DEF GoneTo
<1>3. c.put = 0
  <2>1. Top(c.pc) \notin {"fstrunc", "fsiupdat"} BY DEF MidL
  <2>2. QED BY <2>1 DEF HandOK
<1>4. Top(c.pc) # "upput" /\ Top(r) # "upput" /\ Top(r) \notin {"fstrunc", "fsiupdat", "iget", "fsiread"}
  BY <1>1 DEF LeafL, MidL
<1>5. CASE r # <<>>
  <2>1. /\ c1.ip = c.ip /\ c1.dip = c.dip /\ c1.put = c.put /\ c1.rip = c.rip /\ c1.mip = c.mip
        /\ c1.op = c.op /\ c1.key = c.key /\ c1.name = c.name /\ c1.chan = c.chan
    BY <1>5 DEF GoneTo, UserF
  <2>2. Bot(c1.pc) = Bot(c.pc) BY <1>1, <1>2, <1>5
  <2>3. Hop(c, c1) BY <1>2, <1>4, <2>1, <2>2 DEF Hop, Walk
  <2> HIDE DEF r
  <2>4. HandOK(c1, c1.pc) BY <1>1, <1>2, <1>3, <1>4, <2>1, <2>2 DEF HandOK
  <2>5. QED BY <1>5, <2>1, <2>2, <2>3, <2>4 DEF r
<1>6. CASE r = <<>>
  <2>1. Bot(c.pc) \in MidL \cup LeafL BY <1>1, <1>6 DEF LeafL
  <2>2. /\ Bot(c.pc) \notin WithDip \cup WithIp \cup PerhapsIp \cup WithRip \cup WithMip
        /\ Bot(c.pc) \notin {"got", "more"}
    BY <2>1, LeafFacts DEF WithDip
  <2>3. c.ip = 0 /\ c.dip = 0 /\ c.rip = 0 /\ c.mip = 0 BY <2>2 DEF HandOK
  <2>4. /\ c1.ip = 0 /\ c1.dip = 0 /\ c1.put = 0 /\ c1.rip = 0 /\ c1.mip = 0 /\ c1.op = "" /\ c1.chan = Awake
        /\ c1.pc = <<>>
    BY <1>2, <1>6 DEF GoneTo
  <2>5. Top(<<>>) = "" /\ Bot(<<>>) = "" BY DEF Top, Bot
  <2>6. Walk(c1) = Walk(c)
    <3>1. Bot(c1.pc) \notin {"got", "more"} BY <2>4, <2>5
    <3>2. QED BY <3>1, <2>2 DEF Walk
  <2>7. Hop(c, c1) BY <1>2, <1>3, <1>4, <2>3, <2>4, <2>5, <2>6 DEF Hop
  <2>8. "" \notin WithDip \cup WithIp \cup PerhapsIp \cup WithRip \cup WithMip BY LeafFacts
  <2>9. HandOK(c1, c1.pc) BY <1>1, <1>6, <2>4, <2>5, <2>8, OpensIn DEF HandOK
  <2>10. QED BY <1>1, <1>6, <2>4, <2>5, <2>7, <2>9
<1>7. QED BY <1>5, <1>6

\* Still at the same place of the same call.
LEMMA SamePlace ==
  ASSUME NEW k, NEW c, NEW c1, Hop(c, c1), PathOK(k, c), c1.op = c.op, c1.key = c.key
  PROVE  PathAt(k, c1, Bot(c.pc))
BY PathParts DEF Hop, PathAt

\* Such a return keeps the invariant.
LEMMA PopGood ==
  ASSUME NEW k, NEW k1, NEW p \in Proc, NEW X, Good(k, X), Types(k1), Others(k, k1, p),
         k1.freel = k.freel, SameNodes(k, k1), k.u[p].chan = Awake,
         k1.fs.ilock = k.fs.ilock, k1.fs.mdev = k.fs.mdev,
         k.u[p].pc # <<>>, Top(k.u[p].pc) \in MidL \cup {"fsiread"}, GoneTo(k.u[p], k1.u[p], Tail(k.u[p].pc))
  PROVE  Good(k1, X)
<1> DEFINE c == k.u[p]  c1 == k1.u[p]
<1>1. HandOK(c, c.pc) /\ PathOK(k, c) /\ c.pc \in Seq(Label)
  BY HandTypes DEF Good, Core, Mounts, ProcOK
<1>2. /\ Hop(c, c1) /\ HandOK(c1, c1.pc)
      /\ Tail(c.pc) # <<>> => Bot(c1.pc) = Bot(c.pc) /\ c1.op = c.op /\ c1.key = c.key /\ c1.name = c.name
      /\ Tail(c.pc) = <<>> => Bot(c1.pc) = "" /\ Bot(c.pc) \in MidL \cup {"fsiread"}
      /\ Tail(c.pc) # <<>> => c1.chan = c.chan
      /\ Tail(c.pc) = <<>> => c1.chan = Awake
  <2> HIDE DEF c, c1
  <2>1. c.pc # <<>> /\ Top(c.pc) \in MidL \cup {"fsiread"} /\ GoneTo(c, c1, Tail(c.pc)) BY DEF c, c1
  <2>2. QED BY <1>1, <2>1, PopHands
<1>3. PathAt(k, c1, Bot(c1.pc))
  <2>1. CASE Tail(c.pc) # <<>> BY <1>1, <1>2, <2>1, SamePlace
  <2>2. CASE Tail(c.pc) = <<>>
    <3>1. c1.fd # 0 => k.node[c1.fd].ino = c1.fino /\ c1.fino \in InFs BY <1>1, <1>2 DEF PathOK, Hop
    <3>2. Bot(c1.pc) = "" BY <1>2, <2>2
    <3>3. QED BY <3>1, <3>2, NoLabel DEF PathAt
  <2>3. QED BY <2>1, <2>2
<1>4. /\ Bot(c1.pc) \in Owner <=> Bot(c.pc) \in Owner
      /\ Bot(c1.pc) = "unhang" => Bot(c.pc) = "unhang"
  <2>1. MidL \cap Owner = {} /\ "fsiread" \notin Owner /\ "" \notin Owner /\ "" # "unhang" BY DEF MidL, Owner
  <2>2. QED BY <1>2, <2>1
<1>5. c1.chan = Awake BY <1>2
<1>6. QED BY <1>2, <1>3, <1>4, <1>5, HopGood

\* The directory a process has in hand is another one.
LEMMA SetDip ==
  ASSUME NEW k, Types(k), NEW p \in Proc, NEW x \in Opt
  PROVE  LET k1 == [k EXCEPT !.u[p].dip = x] IN
         Types(k1) /\ Only(k, k1, p) /\ KeepU(k.u[p], k1.u[p], {"dip"}) /\ k1.u[p].dip = x
<1> DEFINE c == k.u[p]
           c1 == [c EXCEPT !.dip = x]
           k1 == [k EXCEPT !.u[p].dip = x]
           j == [k EXCEPT !.u[p] = c1]
<1>1. k1 = j OBVIOUS
<1>2. UserOK(c) /\ c = [f \in UserF |-> c[f]] BY DEF Types, UsersOK, UserOK
<1>3. UserOK(c1) /\ KeepU(c, c1, {"dip"}) /\ c1.dip = x BY <1>2 DEF UserOK, UserF, KeepU
<1> HIDE DEF c1
<1>4. Types(j) /\ Only(k, j, p) /\ j.u[p] = c1 BY <1>3, SetUser
<1>5. QED BY <1>1, <1>3, <1>4

\* k with the fields nobody refers by changed, and in it what process p has in hand.
Apt(k, km, p) ==
  /\ Types(km) /\ km.freel = k.freel /\ km.u = k.u /\ SameNodes(k, km) /\ km.fs.ilock = k.fs.ilock
  /\ k.u[p].chan = Awake /\ k.u[p].put = 0 /\ Up(k.u[p]) = 0

\* Where it goes on is in order with what is mounted.
Ordered(k, km, c, s, rest) ==
  /\ k.fs.mdev => km.fs.mdev \/ Bot(c.pc) \in Owner
  /\ Bot(rest) \in Owner => Bot(c.pc) \in Owner /\ km.fs.mdev
  /\ Bot(c.pc) \in Owner =>
       /\ k.node[s].ino = "root" => k.node[s].count = 1
       /\ Bot(rest) \in Owner \/ \A t \in Slot : RefP(c, t) # 0 => k.node[t].ino # "root"
  /\ Bot(rest) # "unhang"

\* It is ready to give s up.
LEMMA AptPrep ==
  ASSUME NEW k, NEW km, NEW k0, NEW p \in Proc, NEW s \in Slot, NEW S,
         Apt(k, km, p), Types(k0), Only(km, k0, p), KeepU(km.u[p], k0.u[p], S),
         "chan" \notin S
  PROVE  Prep(k, k0, p, s)
<1>1. /\ k0.freel = k.freel /\ k0.fs = km.fs /\ k0.node = km.node /\ k0.fs.ilock = k.fs.ilock
  BY DEF Apt, Only
<1>2. \A t \in Slot : KeepN(k.node[t], k0.node[t], Dull) BY <1>1 DEF Apt, SameNodes
<1>3. KeepN(k.node[s], k0.node[s], Dull \cup {"lock", "want"}) BY <1>2 DEF KeepN
<1>4. \A q \in Proc \ {p} : k0.u[q] = k.u[q] BY DEF Apt, Only
<1>5. Others(k, k0, p) BY <1>4 DEF Others, KeepU
<1>6. k0.u[p].chan = Awake BY DEF Apt, KeepU, UserF
<1>7. k0.node[s].want = k.node[s].want BY <1>2 DEF KeepN, NodeF, Dull
<1>8. QED BY <1>1, <1>2, <1>3, <1>5, <1>6, <1>7 DEF Prep

\* iput of the inode in ip,
LEMMA PutIpGood ==
  ASSUME NEW k, NEW km, NEW p \in Proc, NEW rest \in Seq(Label), NEW X, Good(k, X), Apt(k, km, p),
         k.u[p].ip # 0, Top(rest) \notin LeafL, Ordered(k, km, k.u[p], k.u[p].ip, rest),
         k.u[p].dip # 0 => (Walk(k.u[p]) <=> Bot(rest) \in {"got", "more"}),
         \A c0 : KeepU(k.u[p], c0, {"ip"}) /\ c0.ip = 0 => HandOK(c0, rest) /\ PathAt(k, c0, Bot(rest))
  PROVE  Good(PutIp(km, p, rest), X)
<1> DEFINE c == k.u[p]
           s == c.ip
           k0 == [km EXCEPT !.u[p].ip = 0]
           c0 == k0.u[p]
           k1 == Iput(k0, p, s, rest)
<1>1. k1 = PutIp(km, p, rest) BY DEF PutIp, Apt
<1>2. Types(k0) /\ Only(km, k0, p) /\ KeepU(km.u[p], k0.u[p], {"ip"}) /\ k0.u[p].ip = 0
  <2>1. Types(km) BY DEF Apt
  <2>2. 0 \in Opt BY SlotFacts
  <2> HIDE DEF c, s, c0, k1
  <2>3. QED BY ONLY <2>1, <2>2, SetIp, p \in Proc
<1> HIDE DEF k0
<1>3. s \in Slot /\ Core(k, X) /\ ProcOK(c) /\ Types(k) BY HandTypes DEF Good, Core
<1>4. KeepU(c, c0, {"ip"}) /\ c0.ip = 0 BY <1>2 DEF Apt
<1>5. HandOK(c0, rest) /\ PathAt(k, c0, Bot(rest)) BY <1>4
<1>6. Prep(k, k0, p, s) BY <1>2, <1>3, AptPrep
<1>7. /\ c0.dip = c.dip /\ c0.fd = c.fd /\ c0.rip = c.rip /\ c0.mip = c.mip /\ c0.ip = 0
      /\ c.put = 0 /\ Up(c) = 0 /\ Rip(c0) = Rip(c) /\ s # 0
  BY <1>4 DEF KeepU, UserF, Rip, Apt
<1>8. Given(k, k0, p, s, rest)
  <2>1. \A t \in Slot : RefP(c, t) = RefQ(c0, t) + B(s = t)
    <3> SUFFICES ASSUME NEW t \in Slot PROVE RefP(c, t) = RefQ(c0, t) + B(s = t) OBVIOUS
    <3>1. t # 0 BY SlotFacts
    <3>2. B(0 = t) = 0 BY <3>1 DEF B
    <3>3. RefP(c, t) = B(s = t) + B(c.dip = t) + B(c.fd = t) + 0 + 0 + B(Rip(c) = t) BY <1>7, <3>2 DEF RefP
    <3>4. RefQ(c0, t) = 0 + B(c.dip = t) + B(c.fd = t) + B(Rip(c) = t) BY <1>7, <3>2 DEF RefQ
    <3> DEFINE a == B(s = t)  b == B(c.dip = t)  d == B(c.fd = t)  e == B(Rip(c) = t)
    <3>5. a \in Nat /\ b \in Nat /\ d \in Nat /\ e \in Nat BY DEF B
    <3> HIDE DEF a, b, d, e
    <3>6. (a + b + d + 0 + 0 + e) = (0 + b + d + e) + a BY <3>5
    <3>7. QED BY <3>3, <3>4, <3>6 DEF a, b, d, e
  <2>2. \A t \in Slot \ {s} : HoldP(c, t) <=> HoldQ(c0, t, Bot(rest))
    <3> SUFFICES ASSUME NEW t \in Slot \ {s} PROVE HoldP(c, t) <=> HoldQ(c0, t, Bot(rest)) OBVIOUS
    <3>1. t # 0 /\ t # s BY SlotFacts
    <3>2. HoldP(c, t) <=> c.rip = t \/ (c.dip = t /\ ~Walk(c)) BY <1>7, <3>1 DEF HoldP
    <3>3. HoldQ(c0, t, Bot(rest)) <=> c.rip = t \/ (c.dip = t /\ Bot(rest) \notin {"got", "more"})
      BY <1>7, <3>1 DEF HoldQ
    <3>4. c.dip = t => (Walk(c) <=> Bot(rest) \in {"got", "more"}) BY <3>1
    <3>5. QED BY <3>2, <3>3, <3>4
  <2>3. QED BY <1>5, <1>7, <2>1, <2>2 DEF Given
<1>9. GiveLock(k, k0, p, s, rest)
  <2>1. HoldP(c, s) BY DEF HoldP
  <2>2. c.rip = 0
    <3>1. Bot(c.pc) \in WithIp \cup PerhapsIp BY <1>3, <1>7 DEF ProcOK, HandOK
    <3>2. Bot(c.pc) \notin WithRip BY <3>1, Labels
    <3>3. QED BY <3>2, <1>3 DEF ProcOK, HandOK
  <2>3. c.dip = s => Bot(rest) \in {"got", "more"}
    <3>1. c.dip = s => Walk(c) BY <1>3, <1>7 DEF ProcOK, Apart
    <3>2. QED BY <3>1, <1>7
  <2>4. ~HoldQ(c0, s, Bot(rest)) BY <1>7, <2>2, <2>3 DEF HoldQ
  <2>5. QED BY <2>1, <2>4 DEF GiveLock
<1>10. Onward(k, k0, p, s, rest)
  <2>1. k0.fs = km.fs BY <1>2 DEF Only
  <2>2. Ordered(k, km, c, s, rest) OBVIOUS
  <2>3. QED BY <2>1, <2>2, <1>5 DEF Onward, Ordered
<1>11. Gave(k0, k1, p, s, rest)
  <2>1. RefP(c, s) # 0 BY HandRef, <1>3
  <2>2. k.node[s].ino # "none" /\ k.node[s].count \in Nat \ {0} BY <2>1, <1>3, RefIno
  <2>3. k0.node[s].ino # "none" /\ k0.node[s].count # 0
    BY <2>2, <1>3, <1>6 DEF Prep, KeepN, NodeF, Dull
  <2>4. k0.u[p].chan = Awake BY <1>6 DEF Prep
  <2> HIDE DEF s
  <2>5. QED BY <1>2, <1>3, <2>3, <2>4, IputEff DEF Gave
<1>12. Good(k1, X)
  <2> HIDE DEF k1, s
  <2>1. QED BY <1>3, <1>6, <1>8, <1>9, <1>10, <1>11, GiveGood
<1>13. QED BY <1>1, <1>12

\* and of the one in dip.
LEMMA PutDipGood ==
  ASSUME NEW k, NEW km, NEW p \in Proc, NEW rest \in Seq(Label), NEW X, Good(k, X), Apt(k, km, p),
         k.u[p].dip # 0, ~Walk(k.u[p]), Top(rest) \notin LeafL, Ordered(k, km, k.u[p], k.u[p].dip, rest),
         \A c0 : KeepU(k.u[p], c0, {"dip"}) /\ c0.dip = 0 => HandOK(c0, rest) /\ PathAt(k, c0, Bot(rest))
  PROVE  Good(PutDip(km, p, rest), X)
<1> DEFINE c == k.u[p]
           s == c.dip
           k0 == [km EXCEPT !.u[p].dip = 0]
           c0 == k0.u[p]
           k1 == Iput(k0, p, s, rest)
<1>1. k1 = PutDip(km, p, rest) BY DEF PutDip, Apt
<1>2. Types(k0) /\ Only(km, k0, p) /\ KeepU(km.u[p], k0.u[p], {"dip"}) /\ k0.u[p].dip = 0
  <2>1. Types(km) BY DEF Apt
  <2>2. 0 \in Opt BY SlotFacts
  <2> HIDE DEF c, s, c0, k1
  <2>3. QED BY ONLY <2>1, <2>2, SetDip, p \in Proc
<1> HIDE DEF k0
<1>3. s \in Slot /\ Core(k, X) /\ ProcOK(c) /\ Types(k) BY HandTypes DEF Good, Core
<1>4. KeepU(c, c0, {"dip"}) /\ c0.dip = 0 BY <1>2 DEF Apt
<1>5. HandOK(c0, rest) /\ PathAt(k, c0, Bot(rest)) BY <1>4
<1>6. Prep(k, k0, p, s) BY <1>2, <1>3, AptPrep
<1>7. /\ c0.ip = c.ip /\ c0.fd = c.fd /\ c0.rip = c.rip /\ c0.mip = c.mip /\ c0.dip = 0
      /\ c.put = 0 /\ Up(c) = 0 /\ Rip(c0) = Rip(c) /\ s # 0
  BY <1>4 DEF KeepU, UserF, Rip, Apt
<1>7a. c.ip # s BY <1>3, <1>7 DEF ProcOK, Apart
<1>8. Given(k, k0, p, s, rest)
  <2>1. \A t \in Slot : RefP(c, t) = RefQ(c0, t) + B(s = t)
    <3> SUFFICES ASSUME NEW t \in Slot PROVE RefP(c, t) = RefQ(c0, t) + B(s = t) OBVIOUS
    <3>1. t # 0 BY SlotFacts
    <3>2. B(0 = t) = 0 BY <3>1 DEF B
    <3>3. RefP(c, t) = B(c.ip = t) + B(s = t) + B(c.fd = t) + 0 + 0 + B(Rip(c) = t) BY <1>7, <3>2 DEF RefP
    <3>4. RefQ(c0, t) = B(c.ip = t) + 0 + B(c.fd = t) + B(Rip(c) = t) BY <1>7, <3>2 DEF RefQ
    <3> DEFINE a == B(s = t)  b == B(c.ip = t)  d == B(c.fd = t)  e == B(Rip(c) = t)
    <3>5. a \in Nat /\ b \in Nat /\ d \in Nat /\ e \in Nat BY DEF B
    <3> HIDE DEF a, b, d, e
    <3>6. (b + a + d + 0 + 0 + e) = (b + 0 + d + e) + a BY <3>5
    <3>7. QED BY <3>3, <3>4, <3>6 DEF a, b, d, e
  <2>2. \A t \in Slot \ {s} : HoldP(c, t) <=> HoldQ(c0, t, Bot(rest))
    <3> SUFFICES ASSUME NEW t \in Slot \ {s} PROVE HoldP(c, t) <=> HoldQ(c0, t, Bot(rest)) OBVIOUS
    <3>1. t # 0 /\ t # s BY SlotFacts
    <3>2. HoldP(c, t) <=> c.ip = t \/ c.rip = t BY <1>7, <3>1 DEF HoldP
    <3>3. HoldQ(c0, t, Bot(rest)) <=> c.ip = t \/ c.rip = t BY <1>7, <3>1 DEF HoldQ
    <3>5. QED BY <3>2, <3>3
  <2>3. QED BY <1>5, <1>7, <2>1, <2>2 DEF Given
<1>9. GiveLock(k, k0, p, s, rest)
  <2>1. HoldP(c, s) BY DEF HoldP
  <2>2. c.rip = 0
    <3>1. Bot(c.pc) \in WithDip BY <1>3, <1>7 DEF ProcOK, HandOK
    <3>2. Bot(c.pc) \notin WithRip BY <3>1, Labels
    <3>3. QED BY <3>2, <1>3 DEF ProcOK, HandOK
  <2>4. ~HoldQ(c0, s, Bot(rest)) BY <1>7, <1>7a, <2>2 DEF HoldQ
  <2>5. QED BY <2>1, <2>4 DEF GiveLock
<1>10. Onward(k, k0, p, s, rest)
  <2>1. k0.fs = km.fs BY <1>2 DEF Only
  <2>2. Ordered(k, km, c, s, rest) OBVIOUS
  <2>3. QED BY <2>1, <2>2, <1>5 DEF Onward, Ordered
<1>11. Gave(k0, k1, p, s, rest)
  <2>1. RefP(c, s) # 0 BY HandRef, <1>3
  <2>2. k.node[s].ino # "none" /\ k.node[s].count \in Nat \ {0} BY <2>1, <1>3, RefIno
  <2>3. k0.node[s].ino # "none" /\ k0.node[s].count # 0
    BY <2>2, <1>3, <1>6 DEF Prep, KeepN, NodeF, Dull
  <2>4. k0.u[p].chan = Awake BY <1>6 DEF Prep
  <2> HIDE DEF s
  <2>5. QED BY <1>2, <1>3, <2>3, <2>4, IputEff DEF Gave
<1>12. Good(k1, X)
  <2> HIDE DEF k1, s
  <2>1. QED BY <1>3, <1>6, <1>8, <1>9, <1>10, <1>11, GiveGood
<1>13. QED BY <1>1, <1>12

\* When nobody else has a hand on s the references to it are p's.
LEMMA RefsOnly ==
  ASSUME NEW w, w = [q \in Proc |-> w[q]], NEW p \in Proc, NEW s \in Slot,
         \A q \in Proc \ {p} : RefP(w[q], s) = 0
  PROVE  ProcRefs(w, s) = RefP(w[p], s)
<1> DEFINE w1 == [w EXCEPT ![p] = Idle]
<1>1. \A q \in Proc \ {p} : SameHands(w[q], w1[q]) BY DEF SameHands
<1>2. \A q \in Proc : RefP(w1[q], s) = 0
  <2>1. w1[p] = Idle /\ \A q \in Proc \ {p} : w1[q] = w[q] OBVIOUS
  <2>2. QED BY <2>1, NoRefs
<1>3. w1[p] = Idle OBVIOUS
<1> HIDE DEF w1
<1>4. ProcRefs(w1, s) = 0
  <2>1. \A q \in Proc : /\ w1[q].ip # s /\ w1[q].dip # s /\ w1[q].fd # s /\ w1[q].put # s
                        /\ Up(w1[q]) # s /\ Rip(w1[q]) # s
    BY <1>2, HandRef
  <2>2. /\ {q \in Proc : w1[q].ip = s} = {} /\ {q \in Proc : w1[q].dip = s} = {}
        /\ {q \in Proc : w1[q].fd = s} = {} /\ {q \in Proc : w1[q].put = s} = {}
        /\ {q \in Proc : Up(w1[q]) = s} = {} /\ {q \in Proc : Rip(w1[q]) = s} = {}
    BY <2>1
  <2>3. Cardinality({}) = 0 BY FS_EmptySet
  <2>4. ProcRefs(w1, s) = 0 + 0 + 0 + 0 + 0 + 0
    <3>1. /\ Cardinality({q \in Proc : w1[q].ip = s}) = 0 /\ Cardinality({q \in Proc : w1[q].dip = s}) = 0
          /\ Cardinality({q \in Proc : w1[q].fd = s}) = 0 /\ Cardinality({q \in Proc : w1[q].put = s}) = 0
          /\ Cardinality({q \in Proc : Up(w1[q]) = s}) = 0 /\ Cardinality({q \in Proc : Rip(w1[q]) = s}) = 0
      BY ONLY <2>2, <2>3
    <3>2. QED BY ONLY <3>1, Zenon DEF ProcRefs
  <2>5. QED BY <2>4
<1>5. /\ ProcRefs(w, s) \in Nat /\ ProcRefs(w1, s) = ProcRefs(w, s) - RefP(w[p], s) + RefP(w1[p], s)
      /\ RefP(w[p], s) \in Nat
  BY <1>1, ProcRefsMove
<1>5a. RefP(w1[p], s) = 0 BY <1>3, NoRefs
<1>6. QED BY <1>4, <1>5, <1>5a

\* What a text is run from is a plain file.
TextsIn(k, X) == \A s \in Slot : X[s] # 0 => k.node[s].ino \in InFs

\* While a file system is mounted or unmounted, its root is known to that process alone.
LEMMA RootAlone ==
  ASSUME NEW k, NEW X, Good(k, X), TextsIn(k, X), NEW p \in Proc, Bot(k.u[p].pc) \in Owner,
         NEW s \in Slot, k.node[s].ino = "root"
  PROVE  k.node[s].count = RefP(k.u[p], s)
<1>1. Core(k, X) /\ Mounts(k) BY DEF Good
<1>2. ~IsMounted(k) BY <1>1 DEF Mounts, PathOK
<1>3. \A q \in Proc \ {p} : RefP(k.u[q], s) = 0
  <2> SUFFICES ASSUME NEW q \in Proc \ {p}, RefP(k.u[q], s) # 0 PROVE FALSE OBVIOUS
  <2>0. PathOK(k, k.u[q]) BY <1>1 DEF Mounts
  <2>1. Bot(k.u[q].pc) \in Owner BY <2>0, <1>2 DEF PathOK
  <2>2. QED BY <2>1, <1>1 DEF Mounts, OwnerInv
<1>4. MountRefs(k.node, s) = 0
  <2>1. \A m \in Slot : k.node[m].mroot = 0 BY <1>2 DEF IsMounted
  <2>2. {m \in Slot : k.node[m].mroot = s \/ (m = s /\ k.node[m].mroot # 0)} = {} BY <2>1, SlotFacts
  <2>3. Cardinality({}) = 0 BY FS_EmptySet
  <2>4. QED BY <2>2, <2>3 DEF MountRefs
<1>5. X[s] = 0
  <2>1. "root" \notin InFs BY InodeAssumption DEF InFs
  <2>2. QED BY <2>1 DEF TextsIn
<1>6. ProcRefs(k.u, s) = RefP(k.u[p], s)
  <2> DEFINE w == k.u
  <2>1. w = [q \in Proc |-> w[q]] BY <1>1 DEF Core, Types, UsersOK
  <2>2. \A q \in Proc \ {p} : RefP(w[q], s) = 0 BY <1>3
  <2> HIDE DEF w
  <2>3. ProcRefs(w, s) = RefP(w[p], s) BY <2>1, <2>2, RefsOnly, ZenonT(20)
  <2>4. QED BY <2>3 DEF w
<1>7. k.node[s].count = ProcRefs(k.u, s) + MountRefs(k.node, s) + X[s] BY <1>1 DEF Core, CountInv
<1>8. RefP(k.u[p], s) \in Nat BY RefNat
<1>9. QED BY <1>4, <1>5, <1>6, <1>7, <1>8

-----------------------------------------------------------------------------
(* From a step of the program to what the lemmas are about, and back. *)
LEMMA KFacts ==
  ASSUME NEW k, k = K
  PROVE  k.node = node /\ k.freel = freel /\ k.u = u /\ k.fs = fs /\ k.panic = panic
BY DEF K

\* What is known of a process that is at routine l.
LEMMA AtFacts ==
  ASSUME NEW k, k = K, NEW p \in Proc, NEW l, At(p, l), NEW X, Good(k, X)
  PROVE  /\ k.u[p].chan = Awake /\ k.u[p].pc # <<>> /\ Top(k.u[p].pc) = l /\ Rest(p) = Tail(k.u[p].pc)
         /\ k.panic = "" /\ Types(k) /\ HandOK(k.u[p], k.u[p].pc) /\ Apart(k.u[p]) /\ PathOK(k, k.u[p])
         /\ k.u[p].pc \in Seq(Label) /\ StackOK(k.u[p].pc) /\ UserOK(k.u[p])
<1>1. k.u = u /\ k.panic = panic BY KFacts
<1>2. UserOK(k.u[p]) BY DEF Good, Core, Types, UsersOK
<1>3. QED BY <1>1, <1>2 DEF At, Top, Rest, Good, Core, Mounts, ProcOK, HandOK, UserOK

\* Good speaks of the five fields of K only.
LEMMA GoodRec ==
  ASSUME NEW k, NEW X, Good(k, X)
  PROVE  Good([node |-> k.node, freel |-> k.freel, u |-> k.u, fs |-> k.fs, panic |-> k.panic], X)
<1> DEFINE j == [node |-> k.node, freel |-> k.freel, u |-> k.u, fs |-> k.fs, panic |-> k.panic]
<1>1. j.node = k.node /\ j.freel = k.freel /\ j.u = k.u /\ j.fs = k.fs /\ j.panic = k.panic OBVIOUS
<1>2. Shape(j) BY DEF Shape, Five
<1> HIDE DEF j
<1>3. Types(j) BY <1>1, <1>2 DEF Good, Core, Types
<1>4. Core(j, X) BY <1>1, <1>3 DEF Good, Core, CountInv, LockInv, SleepInv, TableInv
<1>5. IsMounted(j) <=> IsMounted(k) BY <1>1 DEF IsMounted
<1>6. MountInv(j) /\ OwnerInv(j) BY <1>1 DEF Good, Mounts, MountInv, OwnerInv
<1>7. ASSUME NEW q \in Proc PROVE PathOK(j, j.u[q])
  <2>1. PathOK(k, k.u[q]) /\ j.u[q] = k.u[q] BY <1>1 DEF Good, Mounts
  <2> DEFINE c == k.u[q]
  <2>2. (Bot(c.pc) \in Owner => j.fs.mdev /\ ~IsMounted(j)) /\ PathAt(k, c, Bot(c.pc)) /\ RootOwned(k, c) /\ Empty(k, c)
    BY <2>1, <1>1, <1>5, PathParts
  <2> HIDE DEF c
  <2>3. PathAt(j, c, Bot(c.pc)) BY <2>2, <1>1 DEF PathAt
  <2>4. RootOwned(j, c) /\ Empty(j, c) BY <2>2, <1>1, <1>5 DEF RootOwned, Empty
  <2>5. PathOK(j, c) BY <2>2, <2>3, <2>4, PathParts
  <2>6. QED BY <2>1, <2>5 DEF c
<1>8. \A q \in Proc : PutOK(j, j.u[q]) BY <1>1 DEF Good, PutOK
<1>9. QED BY <1>4, <1>6, <1>7, <1>8 DEF Good, Mounts, j

\* and back: what Become leaves behind is as good as its record.
LEMMA BecomeGood ==
  ASSUME NEW k1, NEW X, Become(k1), Good(k1, X)
  PROVE  Good(K, X)'
<1>1. K' = [node |-> k1.node, freel |-> k1.freel, u |-> k1.u, fs |-> k1.fs, panic |-> k1.panic]
  BY DEF K, Become
<1>2. QED BY <1>1, GoodRec

\* k1 is k but for what is in the file and on the disk.
Rewritten(k, k1) ==
  /\ Types(k1) /\ k1.u = k.u /\ k1.freel = k.freel /\ k1.panic = k.panic
  /\ SameNodes(k, k1) /\ KeepF(k.fs, k1.fs, {"disk", "sinode", "dir", "updlock"})

\* What is read from or written to the disk is not counted.
LEMMA DullNode ==
  ASSUME NEW k, Types(k), NEW s \in Slot, NEW r, NodeOK(r), KeepN(k.node[s], r, Dull)
  PROVE  Rewritten(k, [k EXCEPT !.node[s] = r])
<1> DEFINE k1 == [k EXCEPT !.node[s] = r]
<1>1. Types(k1) /\ SameRest(k, k1) /\ k1.u = k.u /\ NodeBut(k, k1, s) /\ k1.node[s] = r
  BY SetNode
<1> HIDE DEF k1
<1>2. SameNodes(k, k1) BY <1>1 DEF SameNodes, NodeBut, KeepN
<1>3. Rewritten(k, k1) BY <1>1, <1>2 DEF Rewritten, SameRest, KeepF
<1>4. QED BY <1>3 DEF k1

\* Two such changes are one.
LEMMA RewrittenTrans ==
  ASSUME NEW k, NEW k1, NEW k2, Rewritten(k, k1), Rewritten(k1, k2)
  PROVE  Rewritten(k, k2)
<1>1. SameNodes(k, k2) BY DEF Rewritten, SameNodes, KeepN
<1>2. QED BY <1>1 DEF Rewritten, KeepF

\* Setting the fields of an inode, and what the disk has of it, one after the other.
LEMMA RewrittenFs ==
  ASSUME NEW k, Types(k), NEW f, FsOK(f), KeepF(k.fs, f, {"disk", "sinode", "dir", "updlock"})
  PROVE  Rewritten(k, [k EXCEPT !.fs = f])
<1> DEFINE k1 == [k EXCEPT !.fs = f]
<1>1. Types(k1) /\ k1.node = k.node /\ k1.u = k.u /\ k1.freel = k.freel /\ k1.panic = k.panic /\ k1.fs = f
  BY SetFs
<1> HIDE DEF k1
<1>2. SameNodes(k, k1) BY <1>1 DEF SameNodes, KeepN
<1>3. Rewritten(k, k1) BY <1>1, <1>2 DEF Rewritten
<1>4. QED BY <1>3 DEF k1

LEMMA SetChg ==
  ASSUME NEW k, Types(k), NEW s \in Slot, NEW x
  PROVE  Rewritten(k, [k EXCEPT !.node[s].chg = x])
<1> DEFINE r == [k.node[s] EXCEPT !.chg = x]
<1>1. NodeOK(k.node[s]) BY DEF Types, NodesOK
<1>2. NodeOK(r) /\ KeepN(k.node[s], r, Dull) BY <1>1 DEF NodeOK, NodeF, KeepN, Dull
<1>3. [k EXCEPT !.node[s].chg = x] = [k EXCEPT !.node[s] = r] OBVIOUS
<1> HIDE DEF r
<1>4. Rewritten(k, [k EXCEPT !.node[s] = r]) BY <1>2, DullNode
<1>5. QED BY <1>3, <1>4

LEMMA SetModeNlink ==
  ASSUME NEW k, Types(k), NEW s \in Slot, NEW a, NEW b
  PROVE  Rewritten(k, [k EXCEPT !.node[s].mode = a, !.node[s].nlink = b])
<1> DEFINE r == [k.node[s] EXCEPT !.mode = a, !.nlink = b]
<1>1. NodeOK(k.node[s]) BY DEF Types, NodesOK
<1>2. NodeOK(r) /\ KeepN(k.node[s], r, Dull) BY <1>1 DEF NodeOK, NodeF, KeepN, Dull
<1>3. [k EXCEPT !.node[s].mode = a, !.node[s].nlink = b] = [k EXCEPT !.node[s] = r]
  BY ONLY TRUE
<1> HIDE DEF r
<1>4. Rewritten(k, [k EXCEPT !.node[s] = r]) BY <1>2, DullNode
<1>5. QED BY <1>3, <1>4

LEMMA SetModeChg ==
  ASSUME NEW k, Types(k), NEW s \in Slot, NEW a, NEW b
  PROVE  Rewritten(k, [k EXCEPT !.node[s].mode = a, !.node[s].chg = b])
<1> DEFINE r == [k.node[s] EXCEPT !.mode = a, !.chg = b]
<1>1. NodeOK(k.node[s]) BY DEF Types, NodesOK
<1>2. NodeOK(r) /\ KeepN(k.node[s], r, Dull) BY <1>1 DEF NodeOK, NodeF, KeepN, Dull
<1>3. [k EXCEPT !.node[s].mode = a, !.node[s].chg = b] = [k EXCEPT !.node[s] = r]
  BY ONLY TRUE
<1> HIDE DEF r
<1>4. Rewritten(k, [k EXCEPT !.node[s] = r]) BY <1>2, DullNode
<1>5. QED BY <1>3, <1>4

LEMMA SetModeNlinkChg ==
  ASSUME NEW k, Types(k), NEW s \in Slot, NEW a, NEW b, NEW d
  PROVE  Rewritten(k, [k EXCEPT !.node[s].mode = a, !.node[s].nlink = b, !.node[s].chg = d])
<1> DEFINE r == [k.node[s] EXCEPT !.mode = a, !.nlink = b, !.chg = d]
<1>1. NodeOK(k.node[s]) BY DEF Types, NodesOK
<1>2. NodeOK(r) /\ KeepN(k.node[s], r, Dull) BY <1>1 DEF NodeOK, NodeF, KeepN, Dull
<1>3. [k EXCEPT !.node[s].mode = a, !.node[s].nlink = b, !.node[s].chg = d] = [k EXCEPT !.node[s] = r]
  BY ONLY TRUE
<1> HIDE DEF r
<1>4. Rewritten(k, [k EXCEPT !.node[s] = r]) BY <1>2, DullNode
<1>5. QED BY <1>3, <1>4

LEMMA SetNlinkChg ==
  ASSUME NEW k, Types(k), NEW s \in Slot, NEW a, NEW b
  PROVE  Rewritten(k, [k EXCEPT !.node[s].nlink = a, !.node[s].chg = b])
<1> DEFINE r == [k.node[s] EXCEPT !.nlink = a, !.chg = b]
<1>1. NodeOK(k.node[s]) BY DEF Types, NodesOK
<1>2. NodeOK(r) /\ KeepN(k.node[s], r, Dull) BY <1>1 DEF NodeOK, NodeF, KeepN, Dull
<1>3. [k EXCEPT !.node[s].nlink = a, !.node[s].chg = b] = [k EXCEPT !.node[s] = r]
  BY ONLY TRUE
<1> HIDE DEF r
<1>4. Rewritten(k, [k EXCEPT !.node[s] = r]) BY <1>2, DullNode
<1>5. QED BY <1>3, <1>4

\* fsiupdat writes the inode, or fails to.
LEMMA WrittenEff ==
  ASSUME NEW k, Types(k), NEW s \in Slot, NEW j \in Written(k, s)
  PROVE  Rewritten(k, j)
<1>1. CASE j = k BY <1>1 DEF Rewritten, SameNodes, KeepN, KeepF
<1>2. CASE j = WriteInode(k, s)
  <2> DEFINE k1 == [k EXCEPT !.node[s].chg = FALSE]
             n == k.node[s]
             f == [k1.fs EXCEPT !.disk[n.ino] = [mode |-> n.mode, nlink |-> n.nlink]]
  <2>1. Rewritten(k, k1) BY SetChg
  <2>2. FsOK(k1.fs) BY <2>1 DEF Rewritten, Types
  <2>3. j = k1 \/ j = [k1 EXCEPT !.fs = f] BY <1>2 DEF WriteInode
  <2> HIDE DEF k1
  <2>4. FsOK(f) /\ KeepF(k1.fs, f, {"disk", "sinode", "dir", "updlock"}) BY <2>2 DEF FsOK, FsF, KeepF
  <2> HIDE DEF f
  <2>5. Types(k1) BY <2>1 DEF Rewritten
  <2>6. Rewritten(k1, [k1 EXCEPT !.fs = f]) BY <2>4, <2>5, RewrittenFs
  <2>7. QED BY <2>1, <2>3, <2>6, RewrittenTrans
<1>3. QED BY <1>1, <1>2 DEF Written

\* Such a change, and then on with pc.
LEMMA RewrittenGoto ==
  ASSUME NEW k, Types(k), NEW km, Rewritten(k, km), NEW p \in Proc, NEW pc \in Seq(Label)
  PROVE  LET k1 == Goto(km, p, pc) IN
         /\ Types(k1) /\ Others(k, k1, p) /\ k1.freel = k.freel /\ SameNodes(k, k1) /\ k1.panic = k.panic
         /\ k1.fs.ilock = k.fs.ilock /\ k1.fs.mdev = k.fs.mdev /\ GoneTo(k.u[p], k1.u[p], pc)
<1> DEFINE k1 == Goto(km, p, pc)
<1>1. Types(k1) /\ Only(km, k1, p) /\ GoneTo(km.u[p], k1.u[p], pc)
  BY GotoEff DEF Rewritten
<1> HIDE DEF k1
<1>2. k1.fs = km.fs /\ km.fs.ilock = k.fs.ilock /\ km.fs.mdev = k.fs.mdev
  BY <1>1 DEF Only, Rewritten, KeepF, FsF
<1>3. Others(k, k1, p) BY <1>1 DEF Only, Rewritten, Others, KeepU
<1>4. SameNodes(k, k1) BY <1>1 DEF Only, Rewritten, SameNodes
<1>5. km.u = k.u /\ k1.freel = k.freel /\ k1.panic = k.panic BY <1>1 DEF Only, Rewritten
<1>6. QED BY <1>1, <1>2, <1>3, <1>4, <1>5 DEF k1

\* Such a change, and a return.
LEMMA PopStep ==
  ASSUME NEW k, NEW km, NEW p \in Proc, NEW X, Good(k, X), Rewritten(k, km), k.u[p].chan = Awake,
         k.u[p].pc # <<>>, Top(k.u[p].pc) \in MidL \cup {"fsiread"}
  PROVE  Good(Goto(km, p, Tail(k.u[p].pc)), X)
<1> DEFINE pc == Tail(k.u[p].pc)
           k1 == Goto(km, p, pc)
<1>1. Types(k) /\ k.u[p].pc \in Seq(Label) BY HandTypes DEF Good, Core
<1>2. pc \in Seq(Label) BY <1>1
<1> HIDE DEF pc
<1>3. /\ Types(k1) /\ Others(k, k1, p) /\ k1.freel = k.freel /\ SameNodes(k, k1)
      /\ k1.fs.ilock = k.fs.ilock /\ k1.fs.mdev = k.fs.mdev /\ GoneTo(k.u[p], k1.u[p], pc)
  BY <1>1, <1>2, RewrittenGoto
<1> HIDE DEF k1
<1>4. GoneTo(k.u[p], k1.u[p], Tail(k.u[p].pc)) BY <1>3 DEF pc
<1>5. Good(k1, X) BY <1>3, <1>4, PopGood
<1>6. QED BY <1>5 DEF k1, pc

\* A step that does nothing of the kind.
LEMMA RewrittenSame == \A k : Types(k) => Rewritten(k, k)
BY DEF Rewritten, SameNodes, KeepN, KeepF

\* open with O_TRUNC, or creat, of a file that is there.
LEMMA TruncGood ==
  ASSUME NEW k, k = K, NEW X, Good(k, X), NEW p \in Proc, Trunc(p)
  PROVE  \E k1 : Become(k1) /\ Good(k1, X)
<1> DEFINE c == k.u[p]
           s == c.ip
<1>1. At(p, "trunc") /\ node = k.node /\ u = k.u BY KFacts DEF Trunc
<1>2. /\ c.chan = Awake /\ c.pc # <<>> /\ Top(c.pc) = "trunc" /\ Rest(p) = Tail(c.pc)
      /\ Types(k) /\ HandOK(c, c.pc)
  BY <1>1, AtFacts
<1>3. s \in Slot
  <2>1. Below("trunc", Bot(c.pc)) BY <1>2, StackPop, HandTypes DEF HandOK
  <2>2. Bot(c.pc) = "open1" BY <2>1 DEF Below
  <2>3. QED BY <2>2, <1>2, HandTypes DEF HandOK, WithIp
<1>4. PICK j \in Written(k, s) : Become(Goto([j EXCEPT !.node[s].chg = FALSE], p, Tail(c.pc)))
  BY <1>1, <1>2 DEF Trunc
<1> DEFINE km == [j EXCEPT !.node[s].chg = FALSE]
<1>5. Rewritten(k, j) BY <1>2, <1>3, WrittenEff
<1>6. Rewritten(j, km)
  <2>1. Types(j) BY <1>5 DEF Rewritten
  <2>2. QED BY <2>1, <1>3, SetChg
<1>7. Rewritten(k, km) BY <1>5, <1>6, RewrittenTrans
<1> HIDE DEF km
<1>8. Good(Goto(km, p, Tail(c.pc)), X)
  <2>1. Top(c.pc) \in MidL \cup {"fsiread"} BY <1>2 DEF MidL
  <2>2. QED BY <1>2, <1>7, <2>1, PopStep
<1>9. QED BY <1>4, <1>8 DEF km

\* iget reads the inode from the disk.
LEMMA FsireadGood ==
  ASSUME NEW k, k = K, NEW X, Good(k, X), TextsIn(k, X), NEW p \in Proc, Fsiread(p)
  PROVE  \E k1 : Become(k1) /\ Good(k1, X)
<1> DEFINE c == k.u[p]
           s == c.ip
           r == Tail(c.pc)
<1>1. At(p, "fsiread") /\ node = k.node /\ u = k.u BY KFacts DEF Fsiread
<1>2. /\ c.chan = Awake /\ c.pc # <<>> /\ Top(c.pc) = "fsiread" /\ Rest(p) = r
      /\ Types(k) /\ HandOK(c, c.pc) /\ PathOK(k, c) /\ c.pc \in Seq(Label)
  BY <1>1, AtFacts
<1>3. s \in Slot /\ s # 0 /\ c.put = 0 /\ Up(c) = 0
  <2>1. s # 0 /\ c.put = 0 BY <1>2 DEF HandOK
  <2>2. QED BY <2>1, <1>2, HandTypes DEF Up
<1>4. r \in Seq(Label) /\ StackOK(r) /\ Top(r) \notin LeafL /\ r # <<>> /\ Bot(r) = Bot(c.pc)
      /\ Bot(r) \in {"dir", "more", "got", "dormfile", "ialloc2", "fson3"}
  <2>1. /\ Tail(c.pc) \in Seq(Label) /\ StackOK(Tail(c.pc)) /\ Top(Tail(c.pc)) \notin LeafL
        /\ Tail(c.pc) # <<>> => Bot(Tail(c.pc)) = Bot(c.pc)
        /\ Tail(c.pc) = <<>> => Bot(c.pc) = Top(c.pc)
        /\ Below(Top(c.pc), Bot(c.pc))
    BY <1>2, StackPop DEF HandOK
  <2>2. Bot(c.pc) \in {"dir", "more", "got", "dormfile", "ialloc2", "fson3"} BY <2>1, <1>2 DEF Below
  <2>3. QED BY <2>1, <2>2, <1>2
<1>5. CASE \E d : Become(Goto([k EXCEPT !.node[s].mode = d.mode, !.node[s].nlink = d.nlink], p, r))
  <2>1. PICK d : Become(Goto([k EXCEPT !.node[s].mode = d.mode, !.node[s].nlink = d.nlink], p, r)) BY <1>5
  <2> DEFINE km == [k EXCEPT !.node[s].mode = d.mode, !.node[s].nlink = d.nlink]
  <2>5. Rewritten(k, km) BY <1>2, <1>3, SetModeNlink
  <2>6. Become(Goto(km, p, r)) BY <2>1
  <2> HIDE DEF km
  <2>7. Good(Goto(km, p, r), X) BY <1>2, <2>5, PopStep
  <2>8. QED BY <2>6, <2>7
<1>6. CASE Become(PutIp(k, p, r))
  <2>1. Apt(k, k, p) BY <1>2, <1>3 DEF Apt, SameNodes, KeepN
  <2>2. Ordered(k, k, c, s, r)
    <3>1. Bot(c.pc) \in Owner => k.fs.mdev BY <1>2 DEF PathOK
    <3>2. ASSUME Bot(c.pc) \in Owner, k.node[s].ino = "root" PROVE k.node[s].count = 1
      <4>1. Bot(c.pc) = "fson3" BY <1>4, <3>2 DEF Owner
      <4>2. k.node[c.dip].ino = "mp" /\ (c.fd # 0 => k.node[c.fd].ino \in InFs) BY <1>2, <4>1 DEF PathOK
      <4>3. c.rip = 0 /\ Rip(c) = 0
        <5>1. Bot(c.pc) \notin WithRip BY <4>1 DEF WithRip
        <5>2. QED BY <5>1, <1>2 DEF HandOK, Rip
      <4>4. c.dip # s /\ c.fd # s
        <5>1. "root" \notin InFs BY InodeAssumption DEF InFs
        <5>2. QED BY <5>1, <4>2, <3>2, <1>3
      <4>5. RefP(c, s) = 1
        <5>1. RefP(c, s) = 1 + 0 + 0 + 0 + 0 + 0 BY <1>3, <4>3, <4>4, SlotFacts DEF RefP, B
        <5>2. QED BY <5>1
      <4>6. QED BY <3>2, <4>5, <1>3, RootAlone
    <3>3. Bot(r) # "unhang" BY <1>4
    <3>4. QED BY <1>4, <3>1, <3>2, <3>3 DEF Ordered
  <2>3. ASSUME NEW c0, KeepU(c, c0, {"ip"}), c0.ip = 0 PROVE HandOK(c0, r) /\ PathAt(k, c0, Bot(r))
    <3>1. /\ c0.dip = c.dip /\ c0.put = c.put /\ c0.rip = c.rip /\ c0.mip = c.mip /\ c0.fd = c.fd
          /\ c0.fino = c.fino /\ c0.op = c.op /\ c0.key = c.key /\ c0.name = c.name
      BY <2>3 DEF KeepU, UserF
    <3>2. Top(r) \notin {"fstrunc", "fsiupdat", "iget", "fsiread", "upput"} BY <1>4 DEF LeafL
    <3>3. Bot(r) \notin WithIp BY <1>4 DEF WithIp
    <3> HIDE DEF r
    <3>4. HandOK(c0, r) BY <1>2, <1>3, <1>4, <2>3, <3>1, <3>2, <3>3 DEF HandOK
    <3>5. PathAt(k, c0, Bot(r))
      <4>1. PathAt(k, c, Bot(r)) BY <1>2, <1>4, PathParts
      <4>2. Bot(r) \notin {"fson", "fson2"} BY <1>4
      <4>3. QED BY <4>1, <4>2, <2>3, <3>1 DEF PathAt
    <3>6. QED BY <3>4, <3>5
  <2>4. Walk(c) <=> Bot(r) \in {"got", "more"} BY <1>4 DEF Walk
  <2> HIDE DEF r
  <2>5. Good(PutIp(k, p, r), X) BY <1>3, <1>4, <2>1, <2>2, <2>3, <2>4, PutIpGood
  <2>6. QED BY <1>6, <2>5
<1>7. QED BY <1>1, <1>2, <1>5, <1>6 DEF Fsiread

\* Nothing in hand changes, and it goes on with pc.
LEMMA HopStep ==
  ASSUME NEW k, NEW km, NEW p \in Proc, NEW X, NEW pc \in Seq(Label), pc # <<>>, Good(k, X), Types(km),
         Others(k, km, p), km.freel = k.freel, SameNodes(k, km), km.fs.ilock = k.fs.ilock,
         km.fs.mdev = k.fs.mdev, km.u[p].chan = Awake,
         \A c1 : KeepU(km.u[p], c1, {"pc"}) /\ c1.pc = pc =>
                   Hop(k.u[p], c1) /\ HandOK(c1, pc) /\ PathAt(k, c1, Bot(pc)),
         Bot(pc) \in Owner <=> Bot(k.u[p].pc) \in Owner,
         Bot(pc) = "unhang" => Bot(k.u[p].pc) = "unhang"
  PROVE  Good(Goto(km, p, pc), X)
<1> DEFINE k1 == Goto(km, p, pc)
           c1 == k1.u[p]
<1>1. Types(k1) /\ Only(km, k1, p) /\ GoneTo(km.u[p], k1.u[p], pc) BY GotoEff
<1> HIDE DEF k1
<1>2. KeepU(km.u[p], c1, {"pc"}) /\ c1.pc = pc BY <1>1 DEF GoneTo, KeepU
<1>3. Hop(k.u[p], c1) /\ HandOK(c1, pc) /\ PathAt(k, c1, Bot(pc)) BY <1>2
<1>4. c1.chan = Awake BY <1>2 DEF KeepU, UserF
<1>5. Others(k, k1, p) BY <1>1 DEF Only, Others
<1>6. k1.freel = k.freel /\ SameNodes(k, k1) /\ k1.fs.ilock = k.fs.ilock /\ k1.fs.mdev = k.fs.mdev
  BY <1>1 DEF Only, SameNodes
<1>7. Good(k1, X) BY <1>1, <1>2, <1>3, <1>4, <1>5, <1>6, HopGood
<1>8. QED BY <1>7 DEF k1

\* A stack of one routine is in order.
LEMMA OneStack ==
  ASSUME NEW l \in Label, Below(l, l)
  PROVE  /\ <<l>> \in Seq(Label) /\ <<l>> # <<>> /\ StackOK(<<l>>) /\ Top(<<l>>) = l /\ Bot(<<l>>) = l
<1>0. Len(<<>>) = 0 /\ 1..0 = {} OBVIOUS
<1>a. StackOK(<<>>) BY <1>0 DEF StackOK
<1>b. <<>> \in Seq(Label) OBVIOUS
<1>c. Top(<<>>) = "" BY DEF Top
<1>1. <<>> \in Seq(Label) /\ StackOK(<<>>) /\ Top(<<>>) = "" /\ "" \notin LeafL
  BY <1>a, <1>b, <1>c, LeafFacts
<1>2. <<l>> \o <<>> = <<l>> OBVIOUS
<1>3. QED BY <1>1, <1>2, StackPush

\* A routine of namei may stand alone.
LEMMA LastBelow == \A l \in LastL : l \in Label /\ Below(l, l)
<1>1. \A l \in LastL : l \in Label BY DEF Label
<1>2. \A l \in LastL : l \notin {"iget", "fsiread", "trunc", "xaccess", "xaccess2", "xscan0", "xscan", "xuntext",
        "xalloc", "xwait", "xload", "xfree", "xpoip", "xdone", "update0", "update", "upput", "xswapped", "xccdec"}
  BY DEF LastL, WithDip, WithIp, PerhapsIp, WithRip, WithMip
<1>3. QED BY <1>1, <1>2 DEF Below

\* Another routine in the place of the one on top.
LEMMA OverTop ==
  ASSUME NEW pc \in Seq(Label), StackOK(pc), pc # <<>>, NEW l \in Label \ LastL,
         Below(l, IF Tail(pc) = <<>> THEN l ELSE Bot(pc))
  PROVE  LET pc1 == <<l>> \o Tail(pc) IN
         /\ pc1 \in Seq(Label) /\ pc1 # <<>> /\ StackOK(pc1) /\ Top(pc1) = l
         /\ Bot(pc1) = IF Tail(pc) = <<>> THEN l ELSE Bot(pc)
<1>1. /\ Tail(pc) \in Seq(Label) /\ StackOK(Tail(pc)) /\ Top(Tail(pc)) \notin LeafL
      /\ Tail(pc) # <<>> => Bot(Tail(pc)) = Bot(pc)
  BY StackPop
<1>2. QED BY <1>1, StackPush

\* Neither in a walk before nor after.
LEMMA NoWalk ==
  ASSUME NEW c, NEW c1, Bot(c.pc) \notin {"got", "more"}, Bot(c1.pc) \notin {"got", "more"}
  PROVE  Walk(c1) = Walk(c)
BY DEF Walk

\* One field of a process set.
SetOp(k, p, x) == [k EXCEPT !.u[p].op = x]

\* One field of a process.
LEMMA SetOpEff ==
  ASSUME NEW k, Types(k), NEW p \in Proc, NEW x
  PROVE  Types(SetOp(k, p, x)) /\ Only(k, SetOp(k, p, x), p)
         /\ KeepU(k.u[p], SetOp(k, p, x).u[p], {"op"}) /\ SetOp(k, p, x).u[p].op = x
<1> DEFINE c == [k.u[p] EXCEPT !.op = x]
           k1 == SetOp(k, p, x)
           j == [k EXCEPT !.u[p] = c]
<1>0. UserOK(k.u[p]) /\ k.u[p] = [f \in UserF |-> k.u[p][f]] BY DEF Types, UsersOK, UserOK
<1>1. k1 = j BY DEF SetOp
<1>2. c = [f \in UserF |-> c[f]] /\ c.op = x /\ KeepU(k.u[p], c, {"op"}) BY <1>0 DEF UserF, KeepU
<1> HIDE DEF c
<1>3. UserOK(c) BY <1>0, <1>2 DEF UserOK, KeepU, UserF
<1>4. Types(j) /\ Only(k, j, p) /\ j.u[p] = c BY <1>3, SetUser
<1> HIDE DEF k1, j
<1>5. QED BY <1>1, <1>2, <1>4 DEF k1

\* A process is to update slot x.
SetUpd(k, p, x) == [k EXCEPT !.u[p].up = x]

LEMMA SetUpdEff ==
  ASSUME NEW k, Types(k), NEW p \in Proc, NEW x \in Opt
  PROVE  Types(SetUpd(k, p, x)) /\ Only(k, SetUpd(k, p, x), p)
         /\ KeepU(k.u[p], SetUpd(k, p, x).u[p], {"up"}) /\ SetUpd(k, p, x).u[p].up = x
<1> DEFINE c == [k.u[p] EXCEPT !.up = x]
           k1 == SetUpd(k, p, x)
           j == [k EXCEPT !.u[p] = c]
<1>0. UserOK(k.u[p]) /\ k.u[p] = [f \in UserF |-> k.u[p][f]] BY DEF Types, UsersOK, UserOK
<1>1. k1 = j BY DEF SetUpd
<1>2. c = [f \in UserF |-> c[f]] /\ c.up = x /\ KeepU(k.u[p], c, {"up"}) BY <1>0 DEF UserF, KeepU
<1> HIDE DEF c
<1>3. UserOK(c) BY <1>0, <1>2 DEF UserOK, KeepU, UserF
<1>4. Types(j) /\ Only(k, j, p) /\ j.u[p] = c BY <1>3, SetUser
<1> HIDE DEF k1, j
<1>5. QED BY <1>1, <1>2, <1>4 DEF k1

\* Only p changes.
LEMMA OnlyFacts ==
  ASSUME NEW k, NEW km, NEW p \in Proc, Only(k, km, p)
  PROVE  Others(k, km, p) /\ km.freel = k.freel /\ SameNodes(k, km) /\ km.fs = k.fs
BY DEF Only, Others, KeepU, SameNodes, KeepN

\* sync begins.
LEMMA SyncGood ==
  ASSUME NEW k, k = K, NEW X, Good(k, X), NEW p \in Proc, Sync(p)
  PROVE  \E k1 : Become(k1) /\ Good(k1, X)
<1> DEFINE c == k.u[p]
           km == SetOp(k, p, "sync")
           pc == <<"update0">>
<1>1. c.pc = <<>> /\ Become([k EXCEPT !.u[p].op = "sync", !.u[p].pc = <<"update0">>]) BY KFacts DEF Sync, Call
<1>2. Types(k) /\ HandOK(c, <<>>) /\ PathOK(k, c) /\ c.chan = Awake
  BY <1>1 DEF Good, Core, ProcOK, SleepInv, Mounts
<1>3. pc \in Seq(Label) /\ pc # <<>> /\ StackOK(pc) /\ Top(pc) = "update0" /\ Bot(pc) = "update0"
  BY OneStack DEF Label, MidL, Below
<1>4. Goto(km, p, pc) = [k EXCEPT !.u[p].op = "sync", !.u[p].pc = <<"update0">>] BY DEF Goto, SetOp
<1>5. Types(km) /\ Only(k, km, p) /\ KeepU(c, km.u[p], {"op"}) /\ km.u[p].op = "sync"
  BY <1>2, SetOpEff
<1> HIDE DEF km
<1>6. Top(<<>>) = "" /\ Bot(<<>>) = "" BY DEF Top, Bot
<1>7. ASSUME NEW c1, KeepU(km.u[p], c1, {"pc"}), c1.pc = pc
      PROVE  Hop(c, c1) /\ HandOK(c1, pc) /\ PathAt(k, c1, Bot(pc))
  <2>1. /\ c1.ip = c.ip /\ c1.dip = c.dip /\ c1.put = c.put /\ c1.rip = c.rip /\ c1.mip = c.mip /\ c1.fd = c.fd
        /\ c1.fino = c.fino /\ c1.op = "sync"
    BY <1>5, <1>7 DEF KeepU, UserF
  <2>2. c.ip = 0 /\ c.dip = 0 /\ c.put = 0 /\ c.rip = 0 /\ c.mip = 0 BY <1>2, NoHands
  <2>3. Hop(c, c1)
    <3>1. Walk(c1) = Walk(c) BY <1>1, <1>3, <1>6, <1>7, NoWalk
    <3>2. QED BY <3>1, <1>1, <1>3, <1>6, <1>7, <2>1 DEF Hop
  <2>4. "update0" \notin WithDip \cup WithIp \cup PerhapsIp \cup WithRip \cup WithMip BY LeafFacts DEF MidL
  <2>5. HandOK(c1, pc) BY <1>3, <2>1, <2>2, <2>4, OpensIn DEF HandOK
  <2>6. PathAt(k, c1, Bot(pc))
    <3>1. "update0" \notin Named /\ "update0" \notin WithDip BY <2>4 DEF Named
    <3>2. c1.fd # 0 => k.node[c1.fd].ino = c1.fino /\ c1.fino \in InFs BY <1>2, <2>1 DEF PathOK
    <3>3. QED BY <1>3, <3>1, <3>2 DEF PathAt
  <2>7. QED BY <2>3, <2>5, <2>6
<1>8. Bot(pc) \notin Owner /\ Bot(c.pc) \notin Owner /\ Bot(pc) # "unhang" BY <1>1, <1>3, <1>6 DEF Owner
<1>9. km.u[p].chan = Awake BY <1>2, <1>5 DEF KeepU, UserF
<1>10. Others(k, km, p) /\ km.freel = k.freel /\ SameNodes(k, km) /\ km.fs = k.fs BY <1>5, OnlyFacts
<1> HIDE DEF c, pc
<1>11. Good(Goto(km, p, pc), X) BY <1>3, <1>5, <1>7, <1>8, <1>9, <1>10, HopStep DEF c
<1>12. QED BY <1>1, <1>4, <1>11 DEF km, pc

\* update goes from one of its loops to the next.
LEMMA RetopStep ==
  ASSUME NEW k, NEW km, NEW p \in Proc, NEW X, NEW l \in MidL, Good(k, X), Types(km),
         Others(k, km, p), km.freel = k.freel, SameNodes(k, km), km.fs.ilock = k.fs.ilock,
         km.fs.mdev = k.fs.mdev, k.u[p].chan = Awake, KeepU(k.u[p], km.u[p], {"up"}),
         k.u[p].pc # <<>>, Top(k.u[p].pc) \in MidL,
         Below(l, IF Tail(k.u[p].pc) = <<>> THEN l ELSE Bot(k.u[p].pc))
  PROVE  Good(Goto(km, p, <<l>> \o Tail(k.u[p].pc)), X)
<1> DEFINE c == k.u[p]
           pc == <<l>> \o Tail(c.pc)
<1>1. HandOK(c, c.pc) /\ PathOK(k, c) /\ c.pc \in Seq(Label) /\ StackOK(c.pc) /\ c.pc # <<>>
  BY HandTypes DEF Good, Core, Mounts, ProcOK, HandOK
<1>2. l \in Label \ LastL /\ l \notin LeafL BY LeafFacts DEF Label
<1>3. /\ pc \in Seq(Label) /\ pc # <<>> /\ StackOK(pc) /\ Top(pc) = l
      /\ Bot(pc) = IF Tail(c.pc) = <<>> THEN l ELSE Bot(c.pc)
  <2> DEFINE b == c.pc
  <2>1. /\ b \in Seq(Label) /\ StackOK(b) /\ b # <<>> /\ Below(l, IF Tail(b) = <<>> THEN l ELSE Bot(b)) BY <1>1
  <2> HIDE DEF b
  <2>2. LET pc1 == <<l>> \o Tail(b) IN
         /\ pc1 \in Seq(Label) /\ pc1 # <<>> /\ StackOK(pc1) /\ Top(pc1) = l
         /\ Bot(pc1) = IF Tail(b) = <<>> THEN l ELSE Bot(b)
    BY <2>1, <1>2, OverTop
  <2>3. QED BY <2>2 DEF b
<1>4. Tail(c.pc) = <<>> => Bot(c.pc) \in MidL /\ c.ip = 0 /\ c.dip = 0 /\ c.rip = 0 /\ c.mip = 0
  <2> SUFFICES ASSUME Tail(c.pc) = <<>> PROVE Bot(c.pc) \in MidL /\ c.ip = 0 /\ c.dip = 0 /\ c.rip = 0 /\ c.mip = 0
    OBVIOUS
  <2>1. Bot(c.pc) = Top(c.pc) BY <1>1, StackPop
  <2>2. Bot(c.pc) \notin WithDip \cup WithIp \cup PerhapsIp \cup WithRip \cup WithMip BY <2>1, LeafFacts
  <2>3. QED BY <2>1, <2>2, <1>1 DEF HandOK
<1>5. c.put = 0 /\ Top(c.pc) # "upput" /\ Top(pc) # "upput"
      /\ Top(pc) \notin {"fstrunc", "fsiupdat", "iget", "fsiread", "upput"}
  <2>1. Top(c.pc) \notin LeafL /\ Top(pc) \notin LeafL BY <1>2, <1>3, LeafFacts
  <2>2. QED BY <2>1, <1>1 DEF HandOK, LeafL
<1>6. km.u[p].chan = Awake BY DEF KeepU, UserF
<1>7. ASSUME NEW c1, KeepU(km.u[p], c1, {"pc"}), c1.pc = pc
      PROVE  Hop(c, c1) /\ HandOK(c1, pc) /\ PathAt(k, c1, Bot(pc))
  <2>1. /\ c1.ip = c.ip /\ c1.dip = c.dip /\ c1.put = c.put /\ c1.rip = c.rip /\ c1.mip = c.mip /\ c1.fd = c.fd
        /\ c1.fino = c.fino /\ c1.op = c.op /\ c1.key = c.key /\ c1.name = c.name
    BY <1>7 DEF KeepU, UserF
  <2>2. l \notin {"got", "more", "closef", "plockdir", "funmount", "fsoff", "unhang"} BY LeafFacts DEF MidL
  <2>3. l \notin WithDip \cup WithIp \cup PerhapsIp \cup WithRip \cup WithMip BY LeafFacts
  <2> HIDE DEF pc
  <2>4. Walk(c1) = Walk(c)
    <3>1. CASE Tail(c.pc) = <<>>
      <4>1. Bot(c.pc) \notin {"got", "more"} /\ Bot(c1.pc) \notin {"got", "more"}
        BY <3>1, <1>3, <1>4, <1>7, <2>2 DEF MidL
      <4>2. QED BY <4>1, NoWalk
    <3>2. CASE Tail(c.pc) # <<>> BY <3>2, <1>3, <1>7 DEF Walk
    <3>3. QED BY <3>1, <3>2
  <2>5. Hop(c, c1) BY <1>5, <1>7, <2>1, <2>4 DEF Hop
  <2>6. HandOK(c1, pc)
    <3>1. CASE Tail(c.pc) = <<>>
      <4>1. Bot(pc) = l BY <3>1, <1>3
      <4>2. FdOK(c1, l)
        <5>1. FdOK(c, Bot(c.pc)) BY <1>1, HandFd
        <5>2. l \notin Opens \cup {"putdir", "got"} BY <2>3, OpensIn
        <5>3. QED BY <5>1, <5>2, <2>1 DEF FdOK
      <4>3. QED BY <3>1, <4>1, <4>2, <1>1, <1>3, <1>4, <1>5, <2>1, <2>2, <2>3 DEF HandOK, FdOK
    <3>2. CASE Tail(c.pc) # <<>>
      <4>1. Bot(pc) = Bot(c.pc) BY <3>2, <1>3
      <4>2. FdOK(c1, Bot(c.pc))
        <5>1. FdOK(c, Bot(c.pc)) BY <1>1, HandFd
        <5>2. QED BY <5>1, <2>1 DEF FdOK
      <4>3. c.put = 0 /\ Top(pc) \notin {"fstrunc", "fsiupdat", "iget", "fsiread", "upput"}
        <5>1. Top(c.pc) \notin {"fstrunc", "fsiupdat"} /\ Top(pc) = l BY <1>3 DEF MidL
        <5>2. QED BY <5>1, <1>1 DEF HandOK, MidL
      <4>4. QED BY <4>1, <4>3, <1>1, <1>3, <2>1, HandSame
    <3>3. QED BY <3>1, <3>2
  <2>7. PathAt(k, c1, Bot(pc))
    <3>1. CASE Tail(c.pc) = <<>>
      <4>1. Bot(pc) = l BY <3>1, <1>3
      <4>2. c1.fd # 0 => k.node[c1.fd].ino = c1.fino /\ c1.fino \in InFs BY <1>1, <2>1 DEF PathOK
      <4>3. c1.ip = 0 /\ l \notin WithDip /\ l \notin {"fson", "fson2", "fson3", "fsoff", "unhang", "plockdir"}
        BY <3>1, <1>4, <2>1, <2>3 DEF WithDip, WithIp, WithRip, WithMip
      <4>4. QED BY <4>1, <4>2, <4>3 DEF PathAt
    <3>2. CASE Tail(c.pc) # <<>>
      <4>1. Bot(pc) = Bot(c.pc) BY <3>2, <1>3
      <4>2. PathAt(k, c1, Bot(c.pc)) BY <1>1, <2>1, <2>5, SamePlace
      <4>3. QED BY <4>1, <4>2
    <3>3. QED BY <3>1, <3>2
  <2>8. QED BY <2>5, <2>6, <2>7
<1>8. /\ Bot(pc) \in Owner <=> Bot(c.pc) \in Owner
      /\ Bot(pc) = "unhang" => Bot(c.pc) = "unhang"
  <2>1. MidL \cap Owner = {} /\ "unhang" \notin MidL BY DEF MidL, Owner
  <2> HIDE DEF pc
  <2>2. QED BY <1>3, <1>4, <2>1
<1> HIDE DEF c, pc
<1>9. Good(Goto(km, p, pc), X) BY <1>3, <1>6, <1>7, <1>8, HopStep DEF c
<1>10. QED BY <1>9 DEF c, pc

\* The lock that lets one process at a time into update.
LEMMA SetUpdlock ==
  ASSUME NEW k, Types(k), NEW x
  PROVE  Rewritten(k, [k EXCEPT !.fs.updlock = x])
<1> DEFINE f == [k.fs EXCEPT !.updlock = x]
<1>1. FsOK(k.fs) BY DEF Types
<1>2. FsOK(f) /\ KeepF(k.fs, f, {"disk", "sinode", "dir", "updlock"}) BY <1>1 DEF FsOK, FsF, KeepF
<1>3. [k EXCEPT !.fs.updlock = x] = [k EXCEPT !.fs = f] OBVIOUS
<1> HIDE DEF f
<1>4. QED BY <1>2, <1>3, RewrittenFs

\* update returns at once if another process is in it.
LEMMA Update0Good ==
  ASSUME NEW k, k = K, NEW X, Good(k, X), NEW p \in Proc, Update0(p)
  PROVE  \E k1 : Become(k1) /\ Good(k1, X)
<1> DEFINE c == k.u[p]
           k2 == [k EXCEPT !.fs.updlock = TRUE]
           km == SetUpd(k2, p, 0)
<1>1. At(p, "update0") /\ fs = k.fs BY KFacts DEF Update0
<1>2. /\ c.chan = Awake /\ c.pc # <<>> /\ Top(c.pc) = "update0" /\ Rest(p) = Tail(c.pc)
      /\ Types(k) /\ HandOK(c, c.pc) /\ c.pc \in Seq(Label) /\ StackOK(c.pc)
  BY <1>1, AtFacts
<1>3. CASE fs.updlock
  <2>1. Become(Goto(k, p, Tail(c.pc))) BY <1>1, <1>2, <1>3 DEF Update0
  <2>2. Good(Goto(k, p, Tail(c.pc)), X) BY <1>2, RewrittenSame, PopStep DEF MidL
  <2>3. QED BY <2>1, <2>2
<1>4. CASE ~fs.updlock
  <2>1. Become(Goto([k EXCEPT !.fs.updlock = TRUE, !.u[p].up = 0], p, <<"update">> \o Tail(c.pc)))
    BY <1>1, <1>2, <1>4 DEF Update0
  <2>2. [k EXCEPT !.fs.updlock = TRUE, !.u[p].up = 0] = km BY DEF SetUpd
  <2>3. Rewritten(k, k2) BY <1>2, SetUpdlock
  <2> HIDE DEF k2
  <2>4. Types(k2) /\ k2.u = k.u /\ k2.freel = k.freel /\ SameNodes(k, k2) /\ k2.fs.ilock = k.fs.ilock
        /\ k2.fs.mdev = k.fs.mdev
    BY <2>3 DEF Rewritten, KeepF, FsF
  <2>5. Types(km) /\ Only(k2, km, p) /\ KeepU(k2.u[p], km.u[p], {"up"}) BY <2>4, SetUpdEff, SlotFacts
  <2> HIDE DEF km
  <2>6. /\ Others(k, km, p) /\ km.freel = k.freel /\ SameNodes(k, km) /\ km.fs.ilock = k.fs.ilock
        /\ km.fs.mdev = k.fs.mdev /\ KeepU(c, km.u[p], {"up"})
    BY <2>4, <2>5 DEF Only, Others, KeepU, SameNodes
  <2>7. "update" \in MidL /\ Top(c.pc) \in MidL /\ Below("update", IF Tail(c.pc) = <<>> THEN "update" ELSE Bot(c.pc))
    <3>1. Below("update0", Bot(c.pc)) BY <1>2, StackPop
    <3>2. Bot(c.pc) \in {"fsoff", "iputrip", "update0", "update", "upput"} BY <3>1 DEF Below
    <3>3. QED BY <3>2, <1>2 DEF Below, MidL
  <2>8. Good(Goto(km, p, <<"update">> \o Tail(c.pc)), X) BY <1>2, <2>5, <2>6, <2>7, RetopStep
  <2>9. QED BY <2>1, <2>2, <2>8
<1>5. QED BY <1>3, <1>4

\* A process whose stack is one routine deep.
LastFacts(k, p, l) ==
  /\ k.u[p].chan = Awake /\ k.u[p].pc \in Seq(Label) /\ k.u[p].pc # <<>> /\ Tail(k.u[p].pc) = <<>>
  /\ Bot(k.u[p].pc) = l /\ Top(k.u[p].pc) = l
  /\ Types(k) /\ HandOK(k.u[p], k.u[p].pc) /\ Apart(k.u[p]) /\ PathOK(k, k.u[p]) /\ UserOK(k.u[p])
  /\ k.u[p].put = 0 /\ Up(k.u[p]) = 0
  /\ k.u[p].dip # 0 <=> l \in WithDip
  /\ k.u[p].rip # 0 <=> l \in WithRip
  /\ k.u[p].mip # 0 <=> l \in WithMip
  /\ k.u[p].ip # 0 => l \in WithIp \cup PerhapsIp
  /\ l \in WithIp => k.u[p].ip # 0
  /\ FdOK(k.u[p], l)
  /\ PathAt(k, k.u[p], l)

\* A process at a bottom routine.
LEMMA LastAt ==
  ASSUME NEW k, k = K, NEW p \in Proc, NEW l \in LastL, At(p, l), NEW X, Good(k, X)
  PROVE  LastFacts(k, p, l) /\ Rest(p) = <<>>
<1> DEFINE c == k.u[p]
<1>1. /\ c.chan = Awake /\ c.pc # <<>> /\ Top(c.pc) = l /\ Rest(p) = Tail(c.pc)
      /\ Types(k) /\ HandOK(c, c.pc) /\ Apart(c) /\ PathOK(k, c)
      /\ c.pc \in Seq(Label) /\ StackOK(c.pc) /\ UserOK(c)
  BY AtFacts
<1> HIDE DEF c
<1>2. /\ Tail(c.pc) = <<>> => Bot(c.pc) = Top(c.pc)
      /\ Top(c.pc) \in LastL => Tail(c.pc) = <<>>
  BY <1>1, StackPop
<1>3. Tail(c.pc) = <<>> /\ Bot(c.pc) = l BY <1>1, <1>2
<1>4. l \notin LeafL BY LeafFacts
<1>5. c.put = 0 /\ Up(c) = 0 BY <1>1, <1>4 DEF HandOK, Up, LeafL
<1>6. PathAt(k, c, l) BY <1>1, <1>3, PathParts
<1>7. /\ c.dip # 0 <=> l \in WithDip
      /\ c.rip # 0 <=> l \in WithRip
      /\ c.mip # 0 <=> l \in WithMip
      /\ c.ip # 0 => l \in WithIp \cup PerhapsIp
      /\ l \in WithIp => c.ip # 0
  BY <1>1, <1>3 DEF HandOK
<1>8. FdOK(c, l) BY <1>1, <1>3, HandFd
<1>9. QED BY <1>1, <1>3, <1>5, <1>6, <1>7, <1>8 DEF c, LastFacts

\* It goes on at another routine with the same things in hand.
LEMMA TurnStep ==
  ASSUME NEW k, NEW km, NEW p \in Proc, NEW X, NEW pc \in Seq(Label), NEW l, NEW l1, pc # <<>>, Good(k, X),
         LastFacts(k, p, l), Types(km), Others(k, km, p), km.freel = k.freel, SameNodes(k, km),
         km.fs.ilock = k.fs.ilock, km.fs.mdev = k.fs.mdev, KeepU(k.u[p], km.u[p], {"op", "key"}),
         km.u[p].op \in {k.u[p].op, "failed"}, StackOK(pc), Top(pc) \notin LeafL, Bot(pc) = l1,
         l1 \in WithDip <=> l \in WithDip, l1 \in WithRip <=> l \in WithRip, l1 \in WithMip <=> l \in WithMip,
         k.u[p].ip # 0 => l1 \in WithIp \cup PerhapsIp, l1 \in WithIp => k.u[p].ip # 0,
         l \notin {"got", "more"}, l1 \notin {"closef", "more", "got", "plockdir", "fsoff", "unhang"},
         l1 = "funmount" => k.u[p].op = "unmount" /\ km.u[p].op = k.u[p].op,
         l1 \in Opens \/ (l1 = "putdir" /\ k.u[p].ip # 0) => k.u[p].fd = 0,
         PathAt(k, km.u[p], l1), l1 \in Owner <=> l \in Owner
  PROVE  Good(Goto(km, p, pc), X)
<1> DEFINE c == k.u[p]
<1>1. /\ c.chan = Awake /\ Bot(c.pc) = l /\ Top(c.pc) = l /\ HandOK(c, c.pc) /\ c.put = 0
      /\ c.dip # 0 <=> l \in WithDip
      /\ c.rip # 0 <=> l \in WithRip
      /\ c.mip # 0 <=> l \in WithMip
  BY DEF LastFacts
<1>2. /\ km.u[p].ip = c.ip /\ km.u[p].dip = c.dip /\ km.u[p].put = c.put /\ km.u[p].rip = c.rip
      /\ km.u[p].mip = c.mip /\ km.u[p].fd = c.fd /\ km.u[p].fino = c.fino /\ km.u[p].name = c.name
      /\ km.u[p].chan = c.chan /\ km.u[p].up = c.up
  BY DEF KeepU, UserF
<1>3. c.op \in {"open", "creat", "exec", "unlink"} => c.name \in Name BY <1>1 DEF HandOK
<1>4. Top(c.pc) # "upput" /\ Top(pc) \notin {"fstrunc", "fsiupdat", "iget", "fsiread", "upput"}
  <2>1. Top(c.pc) # "upput"
    <3>1. SUFFICES ASSUME l = "upput" PROVE FALSE BY <1>1
    <3>2. CASE c.pc = <<>> BY <3>2, <3>1, <1>1 DEF Top
    <3>3. CASE c.pc # <<>>
      <4>1. Up(c) = c.up /\ Up(c) = 0 BY <3>1, <1>1 DEF Up, LastFacts
      <4>2. c.up # 0 BY <3>1, <1>1 DEF HandOK
      <4>3. QED BY <4>1, <4>2
    <3>4. QED BY <3>2, <3>3
  <2>2. QED BY <2>1 DEF LeafL
<1> HIDE DEF c
<1>5. ASSUME NEW c1, KeepU(km.u[p], c1, {"pc"}), c1.pc = pc
      PROVE  Hop(c, c1) /\ HandOK(c1, pc) /\ PathAt(k, c1, Bot(pc))
  <2>1. /\ c1.ip = c.ip /\ c1.dip = c.dip /\ c1.put = c.put /\ c1.rip = c.rip
        /\ c1.mip = c.mip /\ c1.fd = c.fd /\ c1.fino = c.fino /\ c1.name = c.name
        /\ c1.op = km.u[p].op /\ c1.key = km.u[p].key
    BY ONLY <1>2, <1>5 DEF KeepU, UserF
  <2>2. Walk(c1) = Walk(c) BY <1>1, <1>5, NoWalk
  <2>3. Hop(c, c1) BY <1>4, <1>5, <2>1, <2>2 DEF Hop
  <2>4. HandOK(c1, pc)
    <3>1. c1.op \in {"open", "creat", "exec", "unlink"} => c1.name \in Name BY <1>3, <2>1 DEF c
    <3>2. l1 = "funmount" => c1.op = "unmount" BY <2>1
    <3>3. (c1.ip # 0 => l1 \in WithIp \cup PerhapsIp) /\ (l1 \in WithIp => c1.ip # 0) BY <2>1 DEF c
    <3>4. FdOK(c1, l1)
      <4>1. FdOK(c, l) BY DEF c, LastFacts
      <4>2. l1 \in Opens \/ (l1 = "putdir" /\ c1.ip # 0) => c1.fd = 0 BY <2>1 DEF c
      <4>3. c1.op \in {"open", "creat"} => c.op \in {"open", "creat"} BY <2>1 DEF c
      <4>4. QED BY <4>1, <4>2, <4>3, <2>1 DEF FdOK
    <3>5. QED BY <1>1, <1>4, <2>1, <3>1, <3>2, <3>3, <3>4 DEF HandOK, FdOK
  <2>5. PathAt(k, c1, Bot(pc))
    <3>1. PathAt(k, km.u[p], l1) OBVIOUS
    <3>2. QED BY <1>2, <2>1, <3>1 DEF PathAt
  <2>6. QED BY <2>3, <2>4, <2>5
<1>6. QED BY <1>1, <1>2, <1>5, HopStep DEF c

\* What such a change leaves alone.
RewSides(k, km, p) ==
  /\ Types(km) /\ Others(k, km, p) /\ km.freel = k.freel /\ SameNodes(k, km) /\ km.u = k.u
  /\ km.fs.ilock = k.fs.ilock /\ km.fs.mdev = k.fs.mdev

\* What is written to disk changes no process.
LEMMA RewFacts ==
  ASSUME NEW k, NEW km, NEW p \in Proc, Rewritten(k, km)
  PROVE  RewSides(k, km, p)
<1>1. Others(k, km, p) BY DEF Rewritten, Others, KeepU
<1>2. km.fs.ilock = k.fs.ilock /\ km.fs.mdev = k.fs.mdev BY DEF Rewritten, KeepF, FsF
<1>3. QED BY <1>1, <1>2 DEF Rewritten, RewSides

\* The stack that is one routine deep, and the one with another routine on it.
LEMMA LastStack ==
  ASSUME NEW l \in LastL
  PROVE  /\ <<l>> \in Seq(Label) /\ <<l>> # <<>> /\ StackOK(<<l>>) /\ Top(<<l>>) = l /\ Bot(<<l>>) = l
         /\ Top(<<l>>) \notin LeafL /\ Tail(<<l>>) = <<>>
<1>1. l \in Label /\ Below(l, l) BY LastBelow
<1>2. l \notin LeafL BY LeafFacts
<1>3. Tail(<<l>>) = <<>> OBVIOUS
<1>4. QED BY <1>1, <1>2, <1>3, OneStack

\* A stack of two.
LEMMA OnLast ==
  ASSUME NEW l \in LastL, NEW m \in Label \ LastL, Below(m, l)
  PROVE  LET pc == <<m, l>> IN
         /\ pc \in Seq(Label) /\ pc # <<>> /\ StackOK(pc) /\ Top(pc) = m /\ Bot(pc) = l
<1> DEFINE pc == <<l>>
<1>1. /\ pc \in Seq(Label) /\ pc # <<>> /\ StackOK(pc) /\ Top(pc) = l /\ Bot(pc) = l /\ Top(pc) \notin LeafL
  BY LastStack
<1>2. <<m, l>> = <<m>> \o pc OBVIOUS
<1> HIDE DEF pc
<1>3. Below(m, IF pc = <<>> THEN m ELSE Bot(pc)) BY <1>1
<1> DEFINE pc1 == <<m>> \o pc
<1>4. pc1 \in Seq(Label) /\ pc1 # <<>> /\ StackOK(pc1) /\ Top(pc1) = m /\ Bot(pc1) = IF pc = <<>> THEN m ELSE Bot(pc)
  BY <1>1, <1>3, StackPush
<1> HIDE DEF pc1
<1>5. QED BY <1>1, <1>2, <1>4 DEF pc1

\* The inode and the directory of a step on its own name.
LEMMA NewName ==
  ASSUME NEW k, NEW c, NEW c1, NEW l, NEW l1, PathAt(k, c, l), KeepU(c, c1, {"op"}), l \in Named, l1 \in Named,
         l \in WithDip, l1 \in WithDip
  PROVE  PathAt(k, c1, l1)
<1>1. /\ c1.ip = c.ip /\ c1.dip = c.dip /\ c1.fd = c.fd /\ c1.fino = c.fino /\ c1.key = c.key
  BY DEF KeepU, UserF
<1>2. l1 \notin {"fson", "fson2", "dir", "more", "fson3", "fsoff", "unhang", "plockdir"} /\ l # "fson3"
  BY DEF Named
<1>3. QED BY <1>1, <1>2 DEF PathAt

\* A new file: its inode is written,
LEMMA MkinodeGood ==
  ASSUME NEW k, k = K, NEW X, Good(k, X), NEW p \in Proc, Mkinode(p)
  PROVE  \E k1 : Become(k1) /\ Good(k1, X)
<1> DEFINE c == k.u[p]
           s == c.ip
           pc == <<"mkname">>
<1>1. At(p, "mkinode") /\ u = k.u BY KFacts DEF Mkinode
<1>2. LastFacts(k, p, "mkinode") BY <1>1, LastAt DEF LastL, WithDip
<1>3. s \in Slot /\ Types(k) BY <1>2, HandTypes DEF LastFacts, WithIp
<1>4. PICK j \in Written(k, s) : Become(Goto(j, p, pc)) BY <1>1 DEF Mkinode
<1>5. Rewritten(k, j) BY <1>3, <1>4, WrittenEff
<1>6. RewSides(k, j, p) BY <1>5, RewFacts
<1>7. "mkname" \in LastL /\ "mkname" \in WithDip /\ "mkinode" \in WithDip /\ "mkname" \in WithIp
      /\ "mkname" \notin WithRip \cup WithMip \cup Owner /\ "mkinode" \notin WithRip \cup WithMip \cup Owner
      /\ "mkinode" \in WithIp /\ "mkinode" \in Named /\ "mkname" \in Named
  BY DEF LastL, WithDip, WithIp, WithRip, WithMip, Owner, Named
<1>8. PathAt(k, j.u[p], "mkname")
  <2>1. PathAt(k, c, "mkinode") BY <1>2 DEF LastFacts
  <2>2. KeepU(c, j.u[p], {"op"}) BY <1>6 DEF RewSides, KeepU
  <2>3. QED BY <2>1, <2>2, <1>7, NewName
<1>9. KeepU(c, j.u[p], {"op", "key"}) /\ j.u[p].op = c.op BY <1>6 DEF RewSides, KeepU
<1>10. pc \in Seq(Label) /\ pc # <<>> /\ StackOK(pc) /\ Top(pc) \notin LeafL /\ Bot(pc) = "mkname"
  BY <1>7, LastStack
<1>11. c.ip # 0 BY <1>2, <1>7 DEF LastFacts
<1>14. c.fd = 0 BY <1>2 DEF LastFacts, FdOK, Opens
<1>15. "mkname" \notin {"funmount", "closef", "more", "got", "plockdir", "fsoff", "unhang"}
       /\ "mkinode" \notin {"got", "more"}
  OBVIOUS
<1>16. j.u[p].op \in {c.op, "failed"} BY <1>9
<1> HIDE DEF pc, c
<1>12. Good(Goto(j, p, pc), X)
  BY <1>2, <1>6, <1>7, <1>8, <1>9, <1>10, <1>11, <1>14, <1>15, <1>16, TurnStep DEF RewSides, c
<1>13. QED BY <1>4, <1>12

\* A routine one deep gives up the inode in ip, or in dip.
LEMMA GiveIp ==
  ASSUME NEW k, NEW km, NEW p \in Proc, NEW X, NEW rest \in Seq(Label), NEW l, NEW l1, Good(k, X),
         LastFacts(k, p, l), Types(km), km.u = k.u, km.freel = k.freel, SameNodes(k, km),
         km.fs.ilock = k.fs.ilock, k.fs.mdev => km.fs.mdev \/ l \in Owner, k.u[p].ip # 0,
         StackOK(rest), Top(rest) \notin LeafL, Bot(rest) = l1,
         l1 \in WithDip <=> l \in WithDip, l1 \in WithRip <=> l \in WithRip, l1 \in WithMip <=> l \in WithMip,
         l1 \notin WithIp, l1 \notin Owner, l \notin {"got", "more"},
         l1 \notin {"closef", "more", "got", "plockdir", "fsoff", "unhang"}, l1 \in WithDip => l # "fson3",
         l1 \in Opens => k.u[p].fd = 0,
         l \in Owner => \A t \in Slot : RefP(k.u[p], t) # 0 => k.node[t].ino # "root"
  PROVE  Good(PutIp(km, p, rest), X)
<1> DEFINE c == k.u[p]
<1>1. /\ c.chan = Awake /\ Bot(c.pc) = l /\ Top(c.pc) = l /\ HandOK(c, c.pc) /\ c.put = 0 /\ Up(c) = 0
      /\ c.dip # 0 <=> l \in WithDip
      /\ c.rip # 0 <=> l \in WithRip
      /\ c.mip # 0 <=> l \in WithMip
      /\ PathAt(k, c, l) /\ Types(k)
  BY DEF LastFacts
<1>2. Apt(k, km, p) BY <1>1 DEF Apt
<1>3. c.ip \in Slot BY <1>1, HandTypes
<1>4. Ordered(k, km, c, c.ip, rest)
  <2>1. RefP(c, c.ip) # 0 BY <1>3, HandRef
  <2>2. l \in Owner => k.node[c.ip].ino # "root" BY <1>3, <2>1
  <2>3. QED BY <1>1, <2>2 DEF Ordered
<1>5. c.dip # 0 => (Walk(c) <=> Bot(rest) \in {"got", "more"}) BY <1>1 DEF Walk
<1>6. c.op \in {"open", "creat", "exec", "unlink"} => c.name \in Name BY <1>1 DEF HandOK
<1>7. Top(rest) \notin {"fstrunc", "fsiupdat", "iget", "fsiread", "upput"} BY DEF LeafL
<1>8. l1 # "funmount" /\ l1 \notin {"fson", "fson2", "fson3"} BY DEF WithIp, Owner
<1> HIDE DEF c
<1>9. ASSUME NEW c0, KeepU(c, c0, {"ip"}), c0.ip = 0 PROVE HandOK(c0, rest) /\ PathAt(k, c0, Bot(rest))
  <2>1. /\ c0.dip = c.dip /\ c0.put = c.put /\ c0.rip = c.rip /\ c0.mip = c.mip /\ c0.fd = c.fd
        /\ c0.fino = c.fino /\ c0.op = c.op /\ c0.key = c.key /\ c0.name = c.name
    BY <1>9 DEF KeepU, UserF
  <2>2. FdOK(c0, l1)
    <3>1. FdOK(c, l) BY DEF c, LastFacts
    <3>2. l1 \in Opens => c.fd = 0 BY DEF c
    <3>3. QED BY <3>1, <3>2, <1>9, <2>1 DEF FdOK
  <2>5. HandOK(c0, rest) BY <1>1, <1>6, <1>7, <1>8, <1>9, <2>1, <2>2 DEF HandOK, FdOK
  <2>3. PathAt(k, c0, Bot(rest)) BY <1>1, <1>8, <1>9, <2>1 DEF PathAt
  <2>6. QED BY <2>5, <2>3
<1>10. QED BY <1>2, <1>4, <1>5, <1>9, PutIpGood DEF c

\* The directory in dip.
LEMMA GiveDip ==
  ASSUME NEW k, NEW km, NEW p \in Proc, NEW X, NEW rest \in Seq(Label), NEW l, NEW l1, Good(k, X),
         LastFacts(k, p, l), Types(km), km.u = k.u, km.freel = k.freel, SameNodes(k, km),
         km.fs.ilock = k.fs.ilock, k.fs.mdev => km.fs.mdev \/ l \in Owner,
         l \in WithDip, l \notin {"got", "more"},
         StackOK(rest), Top(rest) \notin LeafL, Bot(rest) = l1, l1 \in {"", "iput", "open1"},
         k.u[p].ip # 0 <=> l1 # "", l1 = "open1" => l \in Named /\ k.u[p].fd = 0,
         l \in Owner => \A t \in Slot : RefP(k.u[p], t) # 0 => k.node[t].ino # "root"
  PROVE  Good(PutDip(km, p, rest), X)
<1> DEFINE c == k.u[p]
<1>1. /\ c.chan = Awake /\ Bot(c.pc) = l /\ Top(c.pc) = l /\ HandOK(c, c.pc) /\ c.put = 0 /\ Up(c) = 0
      /\ c.dip # 0 <=> l \in WithDip
      /\ c.rip # 0 <=> l \in WithRip
      /\ c.mip # 0 <=> l \in WithMip
      /\ PathAt(k, c, l) /\ Types(k)
  BY DEF LastFacts
<1>2. Apt(k, km, p) BY <1>1 DEF Apt
<1>3. c.dip # 0 /\ c.dip \in Slot /\ c.rip = 0 /\ c.mip = 0 BY <1>1, HandTypes DEF WithDip, WithRip, WithMip
<1>4. Ordered(k, km, c, c.dip, rest)
  <2>1. RefP(c, c.dip) # 0 BY <1>3, HandRef
  <2>2. l \in Owner => k.node[c.dip].ino # "root" BY <1>3, <2>1
  <2>3. l1 \notin Owner /\ l1 # "unhang" BY DEF Owner
  <2>4. QED BY <1>1, <2>2, <2>3 DEF Ordered
<1>5. ~Walk(c) BY <1>1 DEF Walk
<1>6. c.op \in {"open", "creat", "exec", "unlink"} => c.name \in Name BY <1>1 DEF HandOK
<1>7. Top(rest) \notin {"fstrunc", "fsiupdat", "iget", "fsiread", "upput"} BY DEF LeafL
<1>8. l1 \notin WithDip \cup WithRip \cup WithMip \cup PerhapsIp \cup {"closef", "funmount"}
      /\ (l1 \in WithIp <=> l1 # "")
  BY DEF WithIp, WithDip, WithRip, WithMip, PerhapsIp
<1>9. l1 \in Named => l \in Named BY DEF Named
<1> HIDE DEF c
<1>10. ASSUME NEW c0, KeepU(c, c0, {"dip"}), c0.dip = 0 PROVE HandOK(c0, rest) /\ PathAt(k, c0, Bot(rest))
  <2>1. /\ c0.ip = c.ip /\ c0.put = c.put /\ c0.rip = c.rip /\ c0.mip = c.mip /\ c0.fd = c.fd
        /\ c0.fino = c.fino /\ c0.op = c.op /\ c0.key = c.key /\ c0.name = c.name
    BY <1>10 DEF KeepU, UserF
  <2>2. c0.ip # 0 <=> l1 # "" BY <2>1 DEF c
  <2>6. FdOK(c0, l1)
    <3>1. FdOK(c, l) BY DEF c, LastFacts
    <3>2. l1 \in Opens => c.fd = 0 BY DEF c, Opens
    <3>3. QED BY <3>1, <3>2, <2>1 DEF FdOK
  <2>3. HandOK(c0, rest) BY <1>1, <1>3, <1>6, <1>7, <1>8, <1>10, <2>1, <2>2, <2>6 DEF HandOK, FdOK
  <2>4. PathAt(k, c0, Bot(rest)) BY <1>1, <1>8, <1>9, <1>10, <2>1 DEF PathAt
  <2>5. QED BY <2>3, <2>4
<1>11. QED BY <1>2, <1>3, <1>4, <1>5, <1>10, PutDipGood DEF c

\* The stack of a process in no call.
LEMMA EmptyStack == /\ <<>> \in Seq(Label) /\ StackOK(<<>>) /\ Top(<<>>) = "" /\ Bot(<<>>) = "" /\ "" \notin LeafL
                    /\ "" \notin WithDip \cup WithIp \cup PerhapsIp \cup WithRip \cup WithMip \cup Owner \cup Named
<1>1. <<>> \in Seq(Label) /\ Len(<<>>) = 0 OBVIOUS
<1>2. StackOK(<<>>) BY DEF StackOK
<1>3. "" \notin LeafL BY DEF LeafL
<1>4. "" \notin WithDip \cup WithIp \cup PerhapsIp \cup WithRip \cup WithMip \cup Owner \cup Named BY NoLabel
<1>5. QED BY <1>1, <1>2, <1>3, <1>4 DEF Top, Bot

\* The last thing of a call: the inode is given up.
LEMMA PutLastGood ==
  ASSUME NEW k, k = K, NEW X, Good(k, X), NEW p \in Proc, PutLast(p)
  PROVE  \E k1 : Become(k1) /\ Good(k1, X)
<1>1. At(p, "iput") /\ Become(PutIp(k, p, <<>>)) BY DEF PutLast
<1>2. LastFacts(k, p, "iput") BY <1>1, LastAt DEF LastL, WithIp
<1>3. "iput" \in WithIp /\ "iput" \notin WithDip \cup WithRip \cup WithMip \cup Owner
  BY DEF WithDip, WithIp, WithRip, WithMip, Owner
<1>4. Types(k) /\ k.u[p].ip # 0 BY <1>2, <1>3 DEF LastFacts
<1>5. RewSides(k, k, p) BY <1>4, RewrittenSame, RewFacts
<1>6. Good(PutIp(k, p, <<>>), X) BY <1>2, <1>3, <1>4, <1>5, EmptyStack, OpensIn, GiveIp DEF RewSides
<1>7. QED BY <1>1, <1>6

=============================================================================
