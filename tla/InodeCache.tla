----------------------------- MODULE InodeCache -----------------------------
(***************************************************************************)
(* The in-core inodes of the kernel: the inode table with its hash chains, *)
(* free list, reference counts and locks (src/v10/sys/os/iget.c), walked   *)
(* by path names (fs/fsnami.c), filled and written back by the type 0 file *)
(* system (fs/fs.c, fs/alloc.c), mounted upon and unmounted.               *)
(*                                                                         *)
(* The kernel is not preemptive: a process runs until it sleeps.  One step *)
(* is the code between two places where it may sleep (a lock, a disk       *)
(* transfer); pc is the stack of routines still to be run or returned to.  *)
(*                                                                         *)
(* One file system hangs below the directory "mp" of another one; its root *)
(* directory "root" and the directory "sub" in it hold plain files.  The   *)
(* outer file system is always there.  A slot of the table is 0 where the  *)
(* code has NULL.                                                          *)
(***************************************************************************)
EXTENDS Integers, Sequences, FiniteSets

CONSTANTS Proc,        \* processes
          NInode,      \* slots of the inode table
          File,        \* inode numbers of the mounted file system, directories apart
          Name,        \* names its directories may hold
          NICINOD,     \* free inode numbers kept in the super block
          NText,       \* entries of the text table (none: no shared text)
          Scenarios    \* what is run: see Init

ASSUME InodeAssumption == /\ NInode \in Nat \ {0}
                          /\ NICINOD \in Nat \ {0}
                          /\ NText \in Nat
                          /\ {"mp", "root", "sub", "none"} \cap File = {}
ASSUME ProcAssumption == IsFiniteSet(Proc)
ASSUME FiniteAssumption == IsFiniteSet(File)

\* A scenario is a directory to begin with, what each process does, and whether the
\* file system is mounted at first: then two slots are in use.
ASSUME ScenarioAssumption ==
  \A r \in Scenarios : /\ r.dir \in [Name -> File \cup {"none"}]
                       /\ r.mounted \in BOOLEAN
                       /\ r.mounted => NInode >= 2

VARIABLES node,        \* the inode table
          freel,       \* ifreel: free slots, the next one to be used first
          u,           \* what a process has in hand
          fs,          \* the disk, and the super block in core
          run,         \* the scenario: what each process does, what may fail
          panic        \* the message of a panic, "" while there is none

Slot == 1..NInode
Awake == <<"awake", 0>>
On(s) == <<"inode", s>>                \* the address a waiter for slot s sleeps on
Free == [ino |-> "none", count |-> 0, lock |-> FALSE, want |-> FALSE, text |-> FALSE,
         mode |-> TRUE, nlink |-> 1, chg |-> FALSE, mroot |-> 0, mpoint |-> 0]
Idle == [pc |-> <<>>, chan |-> Awake, op |-> "", name |-> "", key |-> "none",
         ip |-> 0, dip |-> 0, put |-> 0, up |-> 0, rip |-> 0, mip |-> 0, fd |-> 0, fino |-> "none", fw |-> FALSE]

(***************************************************************************)
(* The state a step works on, and what a step leaves behind.               *)
(***************************************************************************)
K == [node |-> node, freel |-> freel, u |-> u, fs |-> fs, panic |-> panic]
Become(k) == /\ node' = k.node /\ freel' = k.freel
             /\ u' = k.u /\ fs' = k.fs /\ panic' = k.panic /\ run' = run

\* Go on with pc; at the end of a system call only the open file is kept.
Goto(k, p, pc) ==
  IF pc = <<>> THEN [k EXCEPT !.u[p] = [Idle EXCEPT !.fd = k.u[p].fd, !.fino = k.u[p].fino,
                                                        !.fw = k.u[p].fw]]
  ELSE [k EXCEPT !.u[p].pc = pc]
Panic(k, why) == [k EXCEPT !.panic = why]
Wakeup(k, c) == [k EXCEPT !.u = [q \in DOMAIN k.u |-> IF k.u[q].chan = c
                                                      THEN [k.u[q] EXCEPT !.chan = Awake]
                                                      ELSE k.u[q]]]
SleepOn(k, p, s) == [k EXCEPT !.node[s].want = TRUE, !.u[p].chan = On(s)]
Lock(k, s) == [k EXCEPT !.node[s].lock = TRUE]

\* Mutant: the lock is dropped and the sleepers are left alone.
Prele_Silent(k, s) == [k EXCEPT !.node[s].lock = FALSE]

\* prele: unlock, and wake up whoever wanted the lock.
Prele(k, s) ==
  LET k1 == [k EXCEPT !.node[s].lock = FALSE, !.node[s].want = FALSE] IN
  IF k.node[s].want THEN Wakeup(k1, On(s)) ELSE k1

InCore(k, i) == \E s \in Slot : k.node[s].ino = i

(***************************************************************************)
(* Giving an inode up.  The last reference writes the inode back, or frees *)
(* the file when no name is left (t_put is fsput), and may sleep in that.  *)
(***************************************************************************)
\* Mutant: the list may grow past its end.
Ifree_Unbounded(k, i) == IF k.fs.ilock THEN k ELSE [k EXCEPT !.fs.sinode = Append(@, i)]

\* ifree: note the number in the super block, unless the list is full or being filled.
Ifree(k, i) ==
  IF k.fs.ilock \/ Len(k.fs.sinode) >= NICINOD THEN k
  ELSE [k EXCEPT !.fs.sinode = Append(@, i)]

\* The end of idec: out of the hash chain, unlocked, on the free list.
Unhash(k, s) ==
  IF k.node[s].ino = "none" THEN Panic(k, "idec")
  ELSE LET k1 == Prele(k, s) IN
       [k1 EXCEPT !.node[s] = [@ EXCEPT !.ino = "none", !.text = FALSE, !.chg = FALSE,
                                        !.count = k.node[s].count - 1],
                  !.freel = <<s>> \o @]

\* The start of idec on the last reference; fsput decides what has to be written.
Idec1(k, p, s, rest) ==
  LET k1 == Lock(k, s)
      busy == [k1 EXCEPT !.u[p].put = s]
      n == k.node[s] IN
  CASE n.nlink = 0 /\ n.mode -> Goto(busy, p, <<"fstrunc">> \o rest)
    [] n.nlink = 0 /\ ~n.mode -> Goto([Ifree(busy, n.ino) EXCEPT !.node[s].chg = TRUE],
                                      p, <<"fsiupdat">> \o rest)
    [] n.nlink # 0 /\ n.chg -> Goto(busy, p, <<"fsiupdat">> \o rest)
    [] OTHER -> Goto(Unhash(k1, s), p, rest)

\* iput: give up a locked inode; then go on with rest.
Iput(k, p, s, rest) ==
  CASE k.node[s].count = 0 -> Panic(k, "i_count==0")
    [] k.node[s].count = 1 -> Idec1(k, p, s, rest)
    [] OTHER -> Goto(Prele([k EXCEPT !.node[s].count = @ - 1], s), p, rest)

\* idec: give up a reference, the lock is somebody else's business.
Idec(k, p, s, rest) ==
  CASE k.node[s].count = 0 -> Panic(k, "i_count==0")
    [] k.node[s].count = 1 -> Idec1(k, p, s, rest)
    [] OTHER -> Goto([k EXCEPT !.node[s].count = @ - 1], p, rest)

PutIp(k, p, rest) == Iput([k EXCEPT !.u[p].ip = 0], p, k.u[p].ip, rest)
PutDip(k, p, rest) == Iput([k EXCEPT !.u[p].dip = 0], p, k.u[p].dip, rest)

-----------------------------------------------------------------------------
\* Routines a process comes to without having slept: it keeps the processor there.
AtOnce == {"got", "more", "open1", "dormfile", "putdir", "ialloc", "ialloc2", "domkfile", "iput",
           "update0", "update", "fson", "fson3", "funmount", "fsoff"}
           \cup {"getxfile", "xaccess", "xaccess2", "xscan0", "xscan", "xpoip", "xdone", "swapped"}
Keeps(p) == u[p].pc # <<>> /\ u[p].chan = Awake /\ Head(u[p].pc) \in AtOnce

\* Process p runs, and the routine on top of its stack is l.
At(p, l) == /\ panic = ""
            /\ u[p].chan = Awake
            /\ u[p].pc # <<>>
            /\ Head(u[p].pc) = l
            /\ \A q \in Proc \ {p} : ~Keeps(q)
Rest(p) == Tail(u[p].pc)

Fails(what) == what \in run.fails

\* fsiupdat has the block of the inode: the inode goes to disk, if the block could be read.
WriteInode(k, s) ==
  LET n == k.node[s]
      k1 == [k EXCEPT !.node[s].chg = FALSE] IN
  IF n.ino \in File THEN [k1 EXCEPT !.fs.disk[n.ino] = [mode |-> n.mode, nlink |-> n.nlink]] ELSE k1
Written(k, s) == {WriteInode(k, s)} \cup (IF Fails("iupdat") THEN {k} ELSE {})

\* fstrunc has written the inode and freed the blocks: ifree, and it is to be written again.
Fstrunc(p) ==
  /\ At(p, "fstrunc")
  /\ LET s == u[p].put IN
     \E k \in Written(K, s) :
       Become(Goto([Ifree(k, node[s].ino) EXCEPT !.node[s].mode = FALSE, !.node[s].chg = TRUE],
                   p, <<"fsiupdat">> \o Rest(p)))

\* The inode has been written, idec ends.
Fsiupdat(p) ==
  /\ At(p, "fsiupdat")
  /\ \E k \in Written(K, u[p].put) : Become(Goto([Unhash(k, u[p].put) EXCEPT !.u[p].put = 0], p, Rest(p)))

-----------------------------------------------------------------------------
(***************************************************************************)
(* Finding an inode.                                                       *)
(***************************************************************************)
\* A free slot becomes the inode of number key, blank but for its name.
NewInode(k, p, key) ==
  LET s == Head(k.freel) IN
  [k EXCEPT !.freel = Tail(@),
            !.node[s] = [@ EXCEPT !.ino = key, !.count = 1, !.lock = TRUE, !.want = FALSE,
                                  !.text = FALSE, !.chg = FALSE, !.mroot = 0,
                                  !.mpoint = IF key \in File \cup {"sub"} THEN k.node[k.u[p].dip].mpoint ELSE 0],
            !.u[p].ip = s]

\* Mutant: a sleeper does not search again, it takes the slot it slept for.
Iget_NoLoop(k, p, key, rest) ==
  LET hit == {s \in Slot : k.node[s].ino = key}
      slept == {s \in Slot : k.u[p].rip = s}
      s0 == CHOOSE s \in IF slept = {} THEN hit ELSE slept : TRUE IN
  CASE hit \cup slept # {} ->
         LET s == IF ~k.node[s0].lock /\ k.node[s0].mroot # 0 THEN k.node[s0].mroot ELSE s0 IN
         IF k.node[s].lock
         THEN [Goto(SleepOn(k, p, s), p, <<"iget">> \o rest) EXCEPT !.u[p].key = key, !.u[p].rip = s]
         ELSE Goto([Lock(k, s) EXCEPT !.node[s].count = @ + 1, !.u[p].ip = s, !.u[p].rip = 0], p, rest)
    [] hit \cup slept = {} /\ k.freel # <<>> -> Goto(NewInode(k, p, key), p, <<"fsiread">> \o rest)
    [] OTHER -> Goto([k EXCEPT !.u[p].ip = 0], p, rest)

\* iget: the inode of that number, locked; through a mount point to the root mounted on it.
\* A locked one is slept for and then looked for again.  A blank one is read next.  With
\* no slot left there is no inode (ENFILE).
Iget(k0, p, key, rest) ==
  LET k == [k0 EXCEPT !.u[p].key = key]
      hit == {s \in Slot : k.node[s].ino = key}
      s0 == CHOOSE s \in hit : TRUE IN
  CASE hit # {} ->
         LET s == IF ~k.node[s0].lock /\ k.node[s0].mroot # 0 THEN k.node[s0].mroot ELSE s0 IN
         IF k.node[s].lock THEN Goto(SleepOn(k, p, s), p, <<"iget">> \o rest)
         ELSE Goto([Lock(k, s) EXCEPT !.node[s].count = @ + 1, !.u[p].ip = s], p, rest)
    [] hit = {} /\ k.freel # <<>> -> Goto(NewInode(k, p, key), p, <<"fsiread">> \o rest)
    [] OTHER -> Goto([k EXCEPT !.u[p].ip = 0], p, rest)

IgetAgain(p) == At(p, "iget") /\ Become(Iget(K, p, u[p].key, Rest(p)))

\* fsiread: the fields come from the disk; a block that cannot be read gives the inode up.
Fsiread(p) ==
  /\ At(p, "fsiread")
  /\ LET s == u[p].ip
         d == IF node[s].ino \in File THEN fs.disk[node[s].ino] ELSE [mode |-> TRUE, nlink |-> 1] IN
     \/ Become(Goto([K EXCEPT !.node[s].mode = d.mode, !.node[s].nlink = d.nlink], p, Rest(p)))
     \/ Fails("iread") /\ Become(PutIp(K, p, Rest(p)))

-----------------------------------------------------------------------------
(***************************************************************************)
(* Path names "/mp", "/mp/<name>", "/mp/sub/<name>" and "/mp/.." (fsnami). *)
(* The walk reaches "mp" or what is mounted there with the inode locked;   *)
(* "dir" is the return from the search of the directory.                   *)
(***************************************************************************)
Call(p, op) == /\ panic = "" /\ u[p].pc = <<>> /\ op \in run.does[p]
               /\ \A q \in Proc \ {p} : ~Keeps(q)

Namei(p) ==
  \E op \in {"open", "creat", "exec", "unlink", "dotdot", "mount", "unmount"}, n \in Name :
    /\ Call(p, op)
    /\ op \in {"open", "creat"} => u[p].fd = 0
    /\ op \in {"dotdot", "mount", "unmount"} => n = CHOOSE m \in Name : TRUE
    /\ Become(Iget([K EXCEPT !.u[p].op = op, !.u[p].name = n], p, "mp", <<"dir">>))

\* The directory entry is there: let the directory go, but keep it, and get the file.
Enter(p, ino, then) ==
  LET dp == u[p].ip IN
  Iget([Prele(K, dp) EXCEPT !.u[p].ip = 0, !.u[p].dip = dp], p, ino, then)

\* plock(mip) of "..", and the reference that is taken only then.
PlockDir(k, p, s) ==
  IF k.node[s].lock THEN [Goto(SleepOn(k, p, s), p, <<"plockdir">>) EXCEPT !.u[p].mip = s]
  ELSE Goto([Lock(k, s) EXCEPT !.node[s].count = @ + 1, !.u[p].ip = s, !.u[p].mip = 0], p, <<"iput">>)

\* ".." of the mounted root: on to the directory it is mounted on.
Cross(p) == PlockDir(PutIp(K, p, <<"plockdir">>), p, node[u[p].ip].mpoint)

\* The directory at hand is the last one of the path name.
InPlace(p) == node[u[p].ip].ino = IF u[p].name \in run.insub THEN "sub" ELSE "root"

Dir(p) ==
  /\ At(p, "dir")
  /\ LET dp == u[p].ip
         op == u[p].op
         there == fs.dir[u[p].name] # "none"
         hold == [K EXCEPT !.u[p].ip = 0, !.u[p].dip = dp] IN
     CASE dp = 0 -> Become(Goto(K, p, <<>>))
       [] dp # 0 /\ op = "mount" -> Become(Goto(K, p, <<"fson">>))
       [] dp # 0 /\ op = "unmount" -> Become(Goto(K, p, <<"funmount">>))
       [] dp # 0 /\ op = "dotdot" ->
            Become(IF node[dp].ino = "root" THEN Cross(p) ELSE PutIp(K, p, <<>>))
       [] dp # 0 /\ op \in {"open", "creat", "exec", "unlink"} ->
            CASE node[dp].ino = "mp" -> Become(PutIp(K, p, <<>>))               \* ENOENT
              [] node[dp].ino = "root" /\ u[p].name \in run.insub ->
                   Become(Enter(p, "sub", <<"more">>))
              [] InPlace(p) /\ there /\ op # "unlink" -> Become(Enter(p, fs.dir[u[p].name], <<"got">>))
              [] InPlace(p) /\ there /\ op = "unlink" ->
                   Become(Iget(hold, p, fs.dir[u[p].name], <<"dormfile">>))
              [] InPlace(p) /\ ~there /\ op = "creat" -> Become(Goto(hold, p, <<"ialloc">>))
              [] OTHER -> Become(PutIp(K, p, <<>>))                              \* ENOENT

\* More of the path name to walk: the file found is the next directory.
More(p) == /\ At(p, "more")
           /\ Become(Idec([K EXCEPT !.u[p].dip = 0], p, u[p].dip, <<"dir">>))
PlockDirAgain(p) == At(p, "plockdir") /\ Become(PlockDir(K, p, u[p].mip))

\* The path ends here: give the inode up.
PutLast(p) == At(p, "iput") /\ Become(PutIp(K, p, <<>>))

\* The file is there: give the directory up.
Got(p) ==
  /\ At(p, "got")
  /\ Become(Idec([K EXCEPT !.u[p].dip = 0], p, u[p].dip,
                  CASE u[p].ip = 0 -> <<>>
                    [] u[p].ip # 0 /\ u[p].op = "exec" -> <<"getxfile">>
                    [] u[p].ip # 0 /\ u[p].op = "creat" -> IF NText = 0 THEN <<"trunc", "open1">>
                                                            ELSE <<"xaccess", "trunc", "open1">>
                    [] OTHER -> <<"open1">>))

\* creat of a file that was there: it has been truncated.
Trunc(p) ==
  /\ At(p, "trunc")
  /\ \E k \in Written(K, u[p].ip) : Become(Goto([k EXCEPT !.node[u[p].ip].chg = FALSE], p, Rest(p)))

\* open1: unlock the file and keep it in a file structure, if there is one.
Open1(p) ==
  /\ At(p, "open1")
  /\ LET s == u[p].ip IN
     \/ Become(Goto([Prele(K, s) EXCEPT !.u[p].ip = 0, !.u[p].fd = s, !.u[p].fino = u[p].key,
                                    !.u[p].fw = (u[p].op = "creat")], p, <<>>))
     \/ Become(Iput([Prele(K, s) EXCEPT !.u[p].ip = 0], p, s, <<>>))

\* closef: plock, then iput.
Closef(k, p) ==
  LET s == k.u[p].fd IN
  IF k.node[s].lock THEN Goto(SleepOn(k, p, s), p, <<"closef">>)
  ELSE Iput([Lock(k, s) EXCEPT !.u[p].fd = 0, !.u[p].fino = "none", !.u[p].fw = FALSE], p, s, <<>>)

\* close; what was read or written may have changed the inode.
Close(p) ==
  \E changed \in BOOLEAN :
    /\ Call(p, "close") /\ u[p].fd # 0
    /\ Become(Closef([K EXCEPT !.u[p].op = "close", !.node[u[p].fd].chg = @ \/ changed], p))
CloseLater(p) == At(p, "closef") /\ Become(Closef(K, p))

-----------------------------------------------------------------------------
(***************************************************************************)
(* Making and removing files.                                              *)
(***************************************************************************)
\* dormfile has the inode of the name to be removed, and the directory, both locked.
Dormfile(p) ==
  /\ At(p, "dormfile")
  /\ Become(IF u[p].ip = 0 THEN PutDip(K, p, <<>>)
            ELSE Goto(K, p, IF NText = 0 THEN <<"rmname">> ELSE <<"xscan0", "rmname">>))

\* writei(dp) has returned: the name is gone, or the directory could not be written; the
\* link is counted off all the same.
Rmname(p) ==
  /\ At(p, "rmname")
  /\ LET s == u[p].ip IN
     \E left \in {"none"} \cup (IF Fails("writei") THEN {fs.dir[u[p].name]} ELSE {}) :
       Become(PutIp([K EXCEPT !.fs.dir[u[p].name] = left,
                              !.node[s].nlink = @ - 1, !.node[s].chg = TRUE], p, <<"putdir">>))

\* The directory is given up; then open1, that goes to iput when there was an error.
Putdir(p) ==
  /\ At(p, "putdir")
  /\ Become(PutDip(K, p, CASE u[p].ip = 0 -> <<>>
                          [] u[p].ip # 0 /\ u[p].op = "failed" -> <<"iput">>
                          [] OTHER -> <<"open1">>))

\* The inode ialloc chose has been read: it must not have a mode.
Ialloc2(p) ==
  /\ At(p, "ialloc2")
  /\ LET s == u[p].ip IN
     CASE s = 0 -> Become(Goto(K, p, <<"ialloc">>))
       [] s # 0 /\ node[s].mode -> Become(PutIp(K, p, <<"ialloc">>))
       [] OTHER -> Become(Goto(K, p, <<"domkfile">>))

\* ialloc: the next number of the list that is not in core; with an empty list, restock.
Ialloc(p) ==
  /\ At(p, "ialloc")
  /\ IF fs.sinode # <<>>
     THEN LET i == fs.sinode[Len(fs.sinode)]
              k == [K EXCEPT !.fs.sinode = SubSeq(@, 1, Len(@) - 1), !.u[p].key = i] IN
          CASE InCore(K, i) -> Become(k)                              \* dupinod
            [] ~InCore(K, i) /\ freel = <<>> -> Become(Goto(k, p, <<"domkfile">>))
            [] OTHER -> Become(Iget(k, p, i, <<"ialloc2">>))
     ELSE IF fs.ilock THEN Become([K EXCEPT !.u[p].chan = <<"ilock", 0>>])
     ELSE Become(Goto([K EXCEPT !.fs.ilock = TRUE], p, <<"restock">>))

\* The scan of the i-list: numbers without a mode on disk that are not in core.
Restock(p) ==
  /\ At(p, "restock")
  /\ LET free == {i \in File : ~fs.disk[i].mode /\ ~InCore(K, i)}
         room == NICINOD - Len(fs.sinode) IN
     \E take \in {t \in SUBSET free : Cardinality(t) <= room /\ (free # {} => t # {})} :
       LET list == CHOOSE l \in [1..Cardinality(take) -> take] : \A i \in take : \E j \in DOMAIN l : l[j] = i
           k == Wakeup([K EXCEPT !.fs.sinode = @ \o list, !.fs.ilock = FALSE], <<"ilock", 0>>) IN
       Become(Goto(k, p, IF k.fs.sinode = <<>> THEN <<"domkfile">> ELSE <<"ialloc">>))

\* Mutant: the inode is left to a delayed write, the name is entered at once.
Domkfile_Delayed(p) ==
  /\ At(p, "domkfile")
  /\ LET s == u[p].ip IN
     Become(IF s = 0 THEN PutDip(K, p, <<>>)
            ELSE Goto([K EXCEPT !.node[s].mode = TRUE, !.node[s].nlink = 1, !.node[s].chg = TRUE],
                      p, <<"mkname">>))

\* domkfile: the new inode is set up and written; writei(dp) then enters the name.
Domkfile(p) ==
  /\ At(p, "domkfile")
  /\ LET s == u[p].ip IN
     Become(IF s = 0 THEN PutDip(K, p, <<>>)
            ELSE Goto([K EXCEPT !.node[s].mode = TRUE, !.node[s].nlink = 1, !.node[s].chg = TRUE],
                      p, <<"mkinode">>))
Mkinode(p) ==
  /\ At(p, "mkinode")
  /\ \E k \in Written(K, u[p].ip) : Become(Goto(k, p, <<"mkname">>))
Mkname(p) ==
  /\ At(p, "mkname")
  /\ \/ Become(Goto([K EXCEPT !.fs.dir[u[p].name] = node[u[p].ip].ino], p, <<"putdir">>))
     \/ Fails("writei") /\ Become(Goto([K EXCEPT !.u[p].op = "failed"], p, <<"putdir">>))

-----------------------------------------------------------------------------
(***************************************************************************)
(* sync: update writes back the inodes nobody has locked, one by one.      *)
(***************************************************************************)
Sync(p) ==
  /\ Call(p, "sync")
  /\ Become([K EXCEPT !.u[p].op = "sync", !.u[p].pc = <<"update0">>])

Update0(p) ==
  /\ At(p, "update0")
  /\ Become(IF fs.updlock THEN Goto(K, p, Rest(p))
            ELSE Goto([K EXCEPT !.fs.updlock = TRUE, !.u[p].up = 0], p, <<"update">> \o Rest(p)))

\* The next inode that is in use and not locked is locked, referenced and written.
Update(p) ==
  /\ At(p, "update")
  /\ LET todo == {s \in Slot : s > u[p].up /\ ~node[s].lock /\ node[s].count > 0} IN
     IF todo = {} THEN Become(Goto([K EXCEPT !.fs.updlock = FALSE], p, Rest(p)))
     ELSE LET s == CHOOSE t \in todo : \A r \in todo : t <= r IN
          Become(Goto([Lock(K, s) EXCEPT !.node[s].count = @ + 1, !.u[p].up = s],
                      p, <<"upput">> \o Rest(p)))

\* iupdat has returned.
Upput(p) ==
  /\ At(p, "upput")
  /\ LET s == u[p].up IN
     \E k \in IF node[s].chg THEN Written(K, s) ELSE {K} :
       Become(Iput(k, p, s, <<"update">> \o Rest(p)))

-----------------------------------------------------------------------------
(***************************************************************************)
(* mount and unmount (fson, fsoff).                                        *)
(***************************************************************************)
\* fson: not on the file system's own root, and not a device that is mounted already.
Fson(p) ==
  /\ At(p, "fson")
  /\ Become(IF node[u[p].ip].ino = "root" \/ fs.mdev THEN PutIp(K, p, <<>>)
            ELSE Goto([K EXCEPT !.fs.mdev = TRUE], p, <<"fson2">>))

\* The super block is there: get the root inode.
Fson2(p) ==
  /\ At(p, "fson2")
  /\ \/ Become(Iget([K EXCEPT !.fs.ilock = FALSE, !.u[p].dip = u[p].ip, !.u[p].ip = 0],
                    p, "root", <<"fson3">>))
     \/ Fails("iread") /\ Become(PutIp([K EXCEPT !.fs.mdev = FALSE], p, <<>>))

Fson3(p) ==
  /\ At(p, "fson3")
  /\ LET rip == u[p].ip
         mp == u[p].dip IN
     CASE rip = 0 -> Become(PutDip([K EXCEPT !.fs.mdev = FALSE], p, <<>>))
       [] rip # 0 /\ node[rip].count # 1 -> Become(PutIp([K EXCEPT !.fs.mdev = FALSE], p, <<"putdir">>))
       [] OTHER ->
            LET k == [K EXCEPT !.node[mp].mroot = rip, !.node[mp].count = @ + 1,
                               !.node[rip].mpoint = mp, !.u[p].ip = 0] IN
            Become(PutDip(Prele(k, rip), p, <<>>))

\* funmount has the inode the path leads to; fsoff locks the root it gave up, at once.
Funmount(p) ==
  /\ At(p, "funmount")
  /\ LET rip == u[p].ip
         mip == node[rip].mpoint IN
     IF mip = 0 THEN Become(PutIp(K, p, <<>>))
     ELSE IF node[mip].mroot # rip THEN Become(PutIp(K, p, <<>>))
     ELSE LET k == PutIp(K, p, <<"update0", "fsoff">>) IN
          Become([Goto(Lock(k, rip), p, IF NText = 0 THEN k.u[p].pc ELSE <<"xscan0">> \o k.u[p].pc)
                    EXCEPT !.u[p].rip = rip, !.u[p].mip = mip])

\* plock(mip); then nothing is mounted there any more.
Unhang(k, p) ==
  LET mip == k.u[p].mip IN
  IF k.node[mip].lock THEN Goto(SleepOn(k, p, mip), p, <<"unhang">>)
  ELSE Iput([Lock(k, mip) EXCEPT !.node[mip].mroot = 0, !.u[p].mip = 0], p, mip, <<"iputrip">>)

\* Mutant: the count of the root alone decides whether the file system is busy.
Fsoff_RootOnly(p) ==
  /\ At(p, "fsoff")
  /\ Become(IF node[u[p].rip].count > 1 THEN Goto(Prele(K, u[p].rip), p, <<>>) ELSE Unhang(K, p))

\* fsoff after update: busy, if anyone has an inode of the file system (ifsbusy).
Fsoff(p) ==
  /\ At(p, "fsoff")
  /\ LET rip == u[p].rip
         others == {s \in Slot \ {rip} : node[s].count > 0 /\ node[s].mpoint = node[rip].mpoint} IN
     Become(IF node[rip].count > 1 \/ others # {} THEN Goto(Prele(K, rip), p, <<>>) ELSE Unhang(K, p))

UnhangLater(p) == At(p, "unhang") /\ Become(Unhang(K, p))
Iputrip(p) == At(p, "iputrip") /\ Become(Iput([K EXCEPT !.u[p].rip = 0], p, u[p].rip, <<"fsoffend">>))
Fsoffend(p) == At(p, "fsoffend") /\ Become(Goto([K EXCEPT !.fs.mdev = FALSE], p, <<>>))

-----------------------------------------------------------------------------
\* The free slots have been used before, for files that still exist.  When the scenario
\* has the file system mounted, slot 1 is "mp" and slot 2 its root.
Init ==
  /\ run \in Scenarios
  /\ node = [s \in Slot |->
              CASE s = 1 /\ run.mounted -> [Free EXCEPT !.ino = "mp", !.count = 1, !.mroot = 2]
                [] s = 2 /\ run.mounted -> [Free EXCEPT !.ino = "root", !.count = 1, !.mpoint = 1]
                [] OTHER -> Free]
  /\ freel = IF run.mounted THEN [i \in 1..(NInode - 2) |-> i + 2] ELSE [i \in 1..NInode |-> i]
  /\ u = [p \in Proc |-> Idle]
  /\ fs = [disk |-> [i \in File |-> [mode |-> \E n \in Name : run.dir[n] = i,
                                     nlink |-> IF \E n \in Name : run.dir[n] = i THEN 1 ELSE 0]],
           dir |-> run.dir, sinode |-> <<>>, ilock |-> FALSE, updlock |-> FALSE, mdev |-> run.mounted]
  /\ panic = ""

InodeStep(p) ==
  \/ Namei(p) \/ IgetAgain(p) \/ Fsiread(p) \/ Dir(p) \/ More(p) \/ PlockDirAgain(p) \/ PutLast(p) \/ Got(p)
  \/ Trunc(p) \/ Open1(p) \/ Close(p) \/ CloseLater(p) \/ Fstrunc(p) \/ Fsiupdat(p)
  \/ Dormfile(p) \/ Rmname(p) \/ Putdir(p) \/ Ialloc(p) \/ Ialloc2(p) \/ Restock(p)
  \/ Domkfile(p) \/ Mkinode(p) \/ Mkname(p)
  \/ Sync(p) \/ Update0(p) \/ Update(p) \/ Upput(p)
  \/ Fson(p) \/ Fson2(p) \/ Fson3(p) \/ Funmount(p) \/ Fsoff(p) \/ UnhangLater(p)
  \/ Iputrip(p) \/ Fsoffend(p)
Next == \E p \in Proc : InodeStep(p)

vars == <<node, freel, u, fs, run, panic>>
Spec == Init /\ [][Next]_vars

-----------------------------------------------------------------------------
(***************************************************************************)
(* Properties.                                                             *)
(***************************************************************************)
Inos == {"mp", "root", "sub", "none"} \cup File
InodeTypeOK ==
  /\ node \in [Slot -> [ino : Inos, count : Nat, lock : BOOLEAN, want : BOOLEAN, text : BOOLEAN,
                        mode : BOOLEAN, nlink : 0..1, chg : BOOLEAN, mroot : {0} \cup Slot,
                        mpoint : {0} \cup Slot]]
  /\ \A i \in DOMAIN freel : freel[i] \in Slot
  /\ \A p \in DOMAIN u : /\ u[p].fd \in {0} \cup Slot
                        /\ u[p].ip \in {0} \cup Slot
                        /\ u[p].dip \in {0} \cup Slot
  /\ \A i \in DOMAIN fs.sinode : fs.sinode[i] \in File
  /\ Len(fs.sinode) <= NICINOD

\* An inode number is in the table once, and the slots that are not in use, and only
\* they, are on the free list, once each: iget searches before it takes a slot.
OneSlotPerInode ==
  /\ \A s, t \in Slot : s # t /\ node[s].ino # "none" => node[s].ino # node[t].ino
  /\ {s \in Slot : node[s].ino = "none"} = {freel[i] : i \in DOMAIN freel}
  /\ Len(freel) = Cardinality({freel[i] : i \in DOMAIN freel})
  /\ \A s \in Slot : node[s].ino = "none" => node[s].count = 0

\* Updating: p is in iupdat for slot u[p].up.
Updating(p) == u[p].pc # <<>> /\ Head(u[p].pc) = "upput"

\* The references to an inode: processes at work, open files, mounts.
Refs(s) ==
    Cardinality({p \in Proc : u[p].ip = s}) + Cardinality({p \in Proc : u[p].dip = s})
  + Cardinality({p \in Proc : u[p].fd = s}) + Cardinality({p \in Proc : u[p].put = s})
  + Cardinality({p \in Proc : Updating(p) /\ u[p].up = s})
  + Cardinality({m \in Slot : node[m].mroot = s \/ (m = s /\ node[m].mroot # 0)})
  + (IF \E p \in Proc : u[p].rip = s /\ u[p].mip = 0 THEN 1 ELSE 0)

\* Walking: the directory in dip has been unlocked for the search of the next inode.
Walking(p) == \E i \in DOMAIN u[p].pc : u[p].pc[i] \in {"got", "more"}
Holders(s) == {p \in Proc : \/ u[p].ip = s \/ u[p].put = s \/ u[p].rip = s
                            \/ Updating(p) /\ u[p].up = s
                            \/ u[p].dip = s /\ ~Walking(p)}

\* A locked inode is locked by one process, and one that is not locked by none.
LockedByOne(s) == Cardinality(Holders(s)) = IF node[s].lock THEN 1 ELSE 0

\* Nobody sleeps for a lock that is free, or that will be dropped without a wakeup.
NoInodeSleeperForgotten ==
  /\ \A p \in Proc, s \in Slot : u[p].chan = On(s) => node[s].lock /\ node[s].want
  /\ \A p \in Proc : u[p].chan = <<"ilock", 0>> => fs.ilock

\* A file that has a name has its inode: no one frees it, and no other name is given it.
NamedFilesLive ==
  /\ \A n \in Name : fs.dir[n] # "none" => fs.disk[fs.dir[n]] = [mode |-> TRUE, nlink |-> 1]
  /\ \A m, n \in Name : m # n /\ fs.dir[m] # "none" => fs.dir[m] # fs.dir[n]

\* A file system that is not mounted has nothing in core but for who mounts or unmounts it.
UnmountedIsGone ==
  ~fs.mdev => \A s \in Slot : node[s].ino \notin {"mp", "none"} => node[s].count = 0

NoPanic == panic = ""
=============================================================================
