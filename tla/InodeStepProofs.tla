-------------------------- MODULE InodeStepProofs --------------------------
(***************************************************************************)
(* The steps of InodeCache, one lemma for each: in a kernel that is Good   *)
(* the step leaves a kernel that is Good.  This module has those that      *)
(* start from an inode in hand, update and close, and all that iget does.  *)
(***************************************************************************)
EXTENDS InodeLemmas

\* A name is entered in the directory, or taken out.
LEMMA SetDirName ==
  ASSUME NEW k, Types(k), NEW n, NEW x, n \in Name => x \in InFs \cup {"none"}
  PROVE  Rewritten(k, [k EXCEPT !.fs.dir[n] = x])
<1> DEFINE d == [k.fs.dir EXCEPT ![n] = x]
           f == [k.fs EXCEPT !.dir = d]
<1>1. FsOK(k.fs) BY DEF Types
<1>2. d = [m \in Name |-> d[m]] /\ \A m \in Name : d[m] \in InFs \cup {"none"} BY <1>1 DEF FsOK
<1> HIDE DEF d
<1>3. FsOK(f) /\ KeepF(k.fs, f, {"disk", "sinode", "dir", "updlock"}) BY <1>1, <1>2 DEF FsOK, FsF, KeepF
<1>4. [k EXCEPT !.fs.dir[n] = x] = [k EXCEPT !.fs = f] BY DEF d
<1> HIDE DEF f
<1>5. QED BY <1>3, <1>4, RewrittenFs

\* unlink: the name is taken out of the directory.
LEMMA RmnameGood ==
  ASSUME NEW k, k = K, NEW X, Good(k, X), NEW p \in Proc, Rmname(p)
  PROVE  \E k1 : Become(k1) /\ Good(k1, X)
<1> DEFINE c == k.u[p]
           s == c.ip
           n == c.name
           rest == <<"putdir">>
<1>1. At(p, "rmname") /\ u = k.u /\ node = k.node /\ fs = k.fs BY KFacts DEF Rmname
<1>2. LastFacts(k, p, "rmname") BY <1>1, LastAt DEF LastL, WithDip
<1>3. s \in Slot /\ Types(k) /\ c.ip # 0 BY <1>2, HandTypes DEF LastFacts, WithIp
<1>4. PICK left \in {"none", k.fs.dir[n]} :
        Become(PutIp([k EXCEPT !.fs.dir[n] = left, !.node[s].nlink = @ - 1, !.node[s].chg = TRUE], p, rest))
  BY <1>1 DEF Rmname
<1> DEFINE k2 == [k EXCEPT !.fs.dir[n] = left]
           km == [k2 EXCEPT !.node[s].nlink = k2.node[s].nlink - 1, !.node[s].chg = TRUE]
<1>5. km = [k EXCEPT !.fs.dir[n] = left, !.node[s].nlink = @ - 1, !.node[s].chg = TRUE] BY ONLY TRUE
<1>6. Rewritten(k, k2)
  <2>1. n \in Name => left \in InFs \cup {"none"} BY <1>3, <1>4 DEF Types, FsOK
  <2>2. QED BY <1>3, <2>1, SetDirName
<1>7. Rewritten(k2, km)
  <2>1. Types(k2) BY <1>6 DEF Rewritten
  <2> HIDE DEF k2
  <2>2. QED BY <2>1, <1>3, SetNlinkChg
<1> HIDE DEF km, k2
<1>8. RewSides(k, km, p) BY <1>6, <1>7, RewrittenTrans, RewFacts
<1>9. "putdir" \in LastL /\ "putdir" \in WithDip /\ "rmname" \in WithDip /\ "putdir" \notin WithIp
      /\ "putdir" \notin WithRip \cup WithMip \cup Owner /\ "rmname" \notin WithRip \cup WithMip \cup Owner
  BY DEF LastL, WithDip, WithIp, WithRip, WithMip, Owner
<1>10. rest \in Seq(Label) /\ StackOK(rest) /\ Top(rest) \notin LeafL /\ Bot(rest) = "putdir" BY <1>9, LastStack
<1> HIDE DEF rest
<1>11. Good(PutIp(km, p, rest), X) BY <1>2, <1>3, <1>8, <1>9, <1>10, OpensIn, GiveIp DEF RewSides
<1>12. QED BY <1>4, <1>5, <1>11

\* The directory is given up; open goes on with the inode.
LEMMA PutdirGood ==
  ASSUME NEW k, k = K, NEW X, Good(k, X), NEW p \in Proc, Putdir(p)
  PROVE  \E k1 : Become(k1) /\ Good(k1, X)
<1> DEFINE c == k.u[p]
           rest == CASE c.ip = 0 -> <<>>
                     [] c.ip # 0 /\ c.op = "failed" -> <<"iput">>
                     [] OTHER -> <<"open1">>
           l1 == CASE c.ip = 0 -> ""
                   [] c.ip # 0 /\ c.op = "failed" -> "iput"
                   [] OTHER -> "open1"
<1>1. At(p, "putdir") /\ Become(PutDip(k, p, rest)) BY KFacts DEF Putdir
<1>2. LastFacts(k, p, "putdir") BY <1>1, LastAt DEF LastL, WithDip
<1>3. Types(k) BY <1>2 DEF LastFacts
<1>4. RewSides(k, k, p) BY <1>3, RewrittenSame, RewFacts
<1>5. rest \in Seq(Label) /\ StackOK(rest) /\ Top(rest) \notin LeafL /\ Bot(rest) = l1
      /\ l1 \in {"", "iput", "open1"} /\ (c.ip # 0 <=> l1 # "")
  <2>1. "iput" \in LastL /\ "open1" \in LastL BY DEF LastL, WithIp
  <2>2. CASE c.ip = 0 BY <2>2, EmptyStack
  <2>3. CASE c.ip # 0 /\ c.op = "failed" BY <2>1, <2>3, LastStack
  <2>4. CASE c.ip # 0 /\ c.op # "failed" BY <2>1, <2>4, LastStack
  <2>5. QED BY <2>2, <2>3, <2>4
<1>6. "putdir" \in WithDip /\ "putdir" \in Named /\ "putdir" \notin Owner BY DEF WithDip, Named, Owner
<1> HIDE DEF rest, l1
<1>9. l1 = "open1" => c.fd = 0 BY <1>2, <1>5 DEF LastFacts, FdOK
<1>7. Good(PutDip(k, p, rest), X) BY <1>2, <1>4, <1>5, <1>6, <1>9, GiveDip DEF RewSides
<1>8. QED BY <1>1, <1>7

\* and then its name.
LEMMA MknameGood ==
  ASSUME NEW k, k = K, NEW X, Good(k, X), NEW p \in Proc, Mkname(p)
  PROVE  \E k1 : Become(k1) /\ Good(k1, X)
<1> DEFINE c == k.u[p]
           s == c.ip
           pc == <<"putdir">>
           ka == [k EXCEPT !.fs.dir[c.name] = k.node[s].ino]
           kb == SetOp(k, p, "failed")
<1>1. At(p, "mkname") /\ u = k.u /\ node = k.node BY KFacts DEF Mkname
<1>2. LastFacts(k, p, "mkname") BY <1>1, LastAt DEF LastL, WithDip
<1>3. s \in Slot /\ Types(k) /\ c.ip # 0 /\ PathAt(k, c, "mkname")
  BY <1>2, HandTypes DEF LastFacts, WithIp
<1>4. Become(Goto(ka, p, pc)) \/ Become(Goto(kb, p, pc)) BY <1>1 DEF Mkname, SetOp
<1>5. "putdir" \in LastL /\ "putdir" \in WithDip /\ "mkname" \in WithDip /\ "putdir" \notin WithIp
      /\ "putdir" \in PerhapsIp
      /\ "putdir" \notin WithRip \cup WithMip \cup Owner /\ "mkname" \notin WithRip \cup WithMip \cup Owner
      /\ "mkname" \in Named /\ "putdir" \in Named
  BY DEF LastL, WithDip, WithIp, WithRip, WithMip, Owner, Named, PerhapsIp
<1>6. pc \in Seq(Label) /\ pc # <<>> /\ StackOK(pc) /\ Top(pc) \notin LeafL /\ Bot(pc) = "putdir"
  BY <1>5, LastStack
<1> HIDE DEF pc
<1>10. c.fd = 0 BY <1>2 DEF LastFacts, FdOK, Opens
<1>7. Good(Goto(ka, p, pc), X)
  <2>1. k.node[s].ino \in InFs BY <1>3, <1>5 DEF PathAt
  <2>2. Rewritten(k, ka) BY <1>3, <2>1, SetDirName
  <2> HIDE DEF ka
  <2>3. RewSides(k, ka, p) BY <2>2, RewFacts
  <2>4. KeepU(c, ka.u[p], {"op"}) /\ KeepU(c, ka.u[p], {"op", "key"}) /\ ka.u[p].op = c.op
    BY <2>3 DEF RewSides, KeepU
  <2>5. PathAt(k, ka.u[p], "putdir") BY <1>3, <1>5, <2>4, NewName
  <2>6. QED BY <1>2, <1>5, <1>6, <1>10, <2>3, <2>4, <2>5, TurnStep DEF RewSides
<1>8. Good(Goto(kb, p, pc), X)
  <2>1. Types(kb) /\ Only(k, kb, p) /\ KeepU(c, kb.u[p], {"op"}) /\ kb.u[p].op = "failed" BY <1>3, SetOpEff
  <2> HIDE DEF kb
  <2>2. Others(k, kb, p) /\ kb.freel = k.freel /\ SameNodes(k, kb) /\ kb.fs = k.fs BY <2>1, OnlyFacts
  <2>3. KeepU(c, kb.u[p], {"op", "key"}) BY <2>1 DEF KeepU
  <2>4. PathAt(k, kb.u[p], "putdir") BY <1>3, <1>5, <2>1, NewName
  <2>5. QED BY <1>2, <1>5, <1>6, <1>10, <2>1, <2>2, <2>3, <2>4, TurnStep
<1>9. QED BY <1>4, <1>7, <1>8

\* unlink finds the inode of the name, or does not.
LEMMA DormfileGood ==
  ASSUME NEW k, k = K, NEW X, Good(k, X), NEW p \in Proc, Dormfile(p)
  PROVE  \E k1 : Become(k1) /\ Good(k1, X)
<1> DEFINE c == k.u[p]
           pc == IF NText = 0 THEN <<"rmname">> ELSE <<"xscan0", "rmname">>
<1>1. /\ At(p, "dormfile")
      /\ Become(IF c.ip = 0 THEN PutDip(k, p, <<>>) ELSE Goto(k, p, pc))
  BY KFacts DEF Dormfile
<1>2. LastFacts(k, p, "dormfile") BY <1>1, LastAt DEF LastL, WithDip
<1>3. Types(k) /\ PathAt(k, c, "dormfile") BY <1>2 DEF LastFacts
<1>4. RewSides(k, k, p) BY <1>3, RewrittenSame, RewFacts
<1>5. "rmname" \in LastL /\ "rmname" \in WithDip /\ "dormfile" \in WithDip /\ "rmname" \in WithIp
      /\ "rmname" \notin WithRip \cup WithMip \cup Owner /\ "dormfile" \notin WithRip \cup WithMip \cup Owner
      /\ "rmname" \notin Named
  BY DEF LastL, WithDip, WithIp, WithRip, WithMip, Owner, Named
<1>6. CASE c.ip = 0
  <2>1. Good(PutDip(k, p, <<>>), X) BY <1>2, <1>4, <1>5, <1>6, EmptyStack, GiveDip DEF RewSides
  <2>2. QED BY <1>1, <1>6, <2>1
<1>7. CASE c.ip # 0
  <2>1. pc \in Seq(Label) /\ pc # <<>> /\ StackOK(pc) /\ Top(pc) \notin LeafL /\ Bot(pc) = "rmname"
    <3>1. CASE NText = 0 BY <3>1, <1>5, LastStack
    <3>2. CASE NText # 0
      <4>1. "xscan0" \in Label \ LastL /\ Below("xscan0", "rmname") /\ "xscan0" \notin LeafL
        BY LeafFacts DEF MidL, Label, Below
      <4>2. QED BY <3>2, <1>5, <4>1, OnLast
    <3>3. QED BY <3>1, <3>2
  <2> HIDE DEF pc
  <2>2. KeepU(c, c, {"op", "key"}) BY DEF KeepU
  <2>3. PathAt(k, c, "rmname") BY <1>3, <1>5 DEF PathAt
  <2>4. Good(Goto(k, p, pc), X) BY <1>2, <1>4, <1>5, <1>7, <2>1, <2>2, <2>3, TurnStep DEF RewSides, Opens
  <2>5. QED BY <1>1, <1>7, <2>4
<1>8. QED BY <1>6, <1>7

\* creat has a new inode, or there is none.
LEMMA DomkfileGood ==
  ASSUME NEW k, k = K, NEW X, Good(k, X), NEW p \in Proc, Domkfile(p)
  PROVE  \E k1 : Become(k1) /\ Good(k1, X)
<1> DEFINE c == k.u[p]
           s == c.ip
           pc == <<"mkinode">>
           km == [k EXCEPT !.node[s].mode = TRUE, !.node[s].nlink = 1, !.node[s].chg = TRUE]
<1>1. /\ At(p, "domkfile") /\ Become(IF c.ip = 0 THEN PutDip(k, p, <<>>) ELSE Goto(km, p, pc))
  BY KFacts DEF Domkfile
<1>2. LastFacts(k, p, "domkfile") BY <1>1, LastAt DEF LastL, WithDip
<1>3. Types(k) /\ PathAt(k, c, "domkfile") BY <1>2 DEF LastFacts
<1>4. "mkinode" \in LastL /\ "mkinode" \in WithDip /\ "domkfile" \in WithDip /\ "mkinode" \in WithIp
      /\ "mkinode" \notin WithRip \cup WithMip \cup Owner /\ "domkfile" \notin WithRip \cup WithMip \cup Owner
      /\ "mkinode" \in Named /\ "domkfile" \in Named
  BY DEF LastL, WithDip, WithIp, WithRip, WithMip, Owner, Named
<1>5. CASE c.ip = 0
  <2>1. RewSides(k, k, p) BY <1>3, RewrittenSame, RewFacts
  <2>2. Good(PutDip(k, p, <<>>), X) BY <1>2, <1>4, <1>5, <2>1, EmptyStack, GiveDip DEF RewSides
  <2>3. QED BY <1>1, <1>5, <2>2
<1>6. CASE c.ip # 0
  <2>1. pc \in Seq(Label) /\ pc # <<>> /\ StackOK(pc) /\ Top(pc) \notin LeafL /\ Bot(pc) = "mkinode"
    BY <1>4, LastStack
  <2>2. s \in Slot BY <1>3, <1>6, HandTypes
  <2>3. Rewritten(k, km) BY <1>3, <2>2, SetModeNlinkChg
  <2>9. Become(Goto(km, p, pc)) BY <1>1, <1>6
  <2> HIDE DEF pc, km
  <2>4. RewSides(k, km, p) BY <2>3, RewFacts
  <2>5. KeepU(c, km.u[p], {"op"}) /\ KeepU(c, km.u[p], {"op", "key"}) /\ km.u[p].op = c.op
    BY <2>4 DEF KeepU, RewSides
  <2>6. PathAt(k, km.u[p], "mkinode") BY <1>3, <1>4, <2>5, NewName
  <2>10. c.fd = 0 BY <1>2 DEF LastFacts, FdOK, Opens
  <2>7. Good(Goto(km, p, pc), X) BY <1>2, <1>4, <1>6, <2>1, <2>4, <2>5, <2>6, <2>10, TurnStep DEF RewSides
  <2>8. QED BY <2>9, <2>7
<1>7. QED BY <1>5, <1>6

\* ialloc looks at the inode it has found.
LEMMA Ialloc2Good ==
  ASSUME NEW k, k = K, NEW X, Good(k, X), NEW p \in Proc, Ialloc2(p)
  PROVE  \E k1 : Become(k1) /\ Good(k1, X)
<1> DEFINE c == k.u[p]
           s == c.ip
           pa == <<"ialloc">>
           pb == <<"domkfile">>
<1>1. /\ At(p, "ialloc2")
      /\ \/ s = 0 /\ Become(Goto(k, p, pa))
         \/ s # 0 /\ Become(PutIp(k, p, pa))
         \/ s # 0 /\ Become(Goto(k, p, pb))
  BY KFacts DEF Ialloc2
<1>2. LastFacts(k, p, "ialloc2") BY <1>1, LastAt DEF LastL, WithDip
<1>3. Types(k) /\ PathAt(k, c, "ialloc2") BY <1>2 DEF LastFacts
<1>4. RewSides(k, k, p) BY <1>3, RewrittenSame, RewFacts
<1>5. /\ {"ialloc", "ialloc2", "domkfile"} \subseteq LastL \cap WithDip
      /\ "domkfile" \in PerhapsIp /\ "ialloc" \notin WithIp /\ "domkfile" \notin WithIp
      /\ \A l \in {"ialloc", "ialloc2", "domkfile"} : l \notin WithRip \cup WithMip \cup Owner
      /\ "ialloc2" \in Named /\ "domkfile" \in Named /\ "ialloc" \notin Named
  BY DEF LastL, WithDip, WithIp, WithRip, WithMip, Owner, Named, PerhapsIp
<1>6. /\ pa \in Seq(Label) /\ pa # <<>> /\ StackOK(pa) /\ Top(pa) \notin LeafL /\ Bot(pa) = "ialloc"
      /\ pb \in Seq(Label) /\ pb # <<>> /\ StackOK(pb) /\ Top(pb) \notin LeafL /\ Bot(pb) = "domkfile"
  BY <1>5, LastStack
<1> HIDE DEF pa, pb
<1>7. KeepU(c, c, {"op", "key"}) /\ KeepU(c, c, {"op"}) BY DEF KeepU
<1>12. c.fd = 0 BY <1>2 DEF LastFacts, FdOK, Opens
<1>8. CASE s = 0 /\ Become(Goto(k, p, pa))
  <2>1. PathAt(k, c, "ialloc") BY <1>3, <1>5, <1>8 DEF PathAt
  <2>2. Good(Goto(k, p, pa), X) BY <1>2, <1>4, <1>5, <1>6, <1>7, <1>8, <1>12, <2>1, TurnStep DEF RewSides
  <2>3. QED BY <1>8, <2>2
<1>9. CASE s # 0 /\ Become(PutIp(k, p, pa))
  <2>1. Good(PutIp(k, p, pa), X) BY <1>2, <1>4, <1>5, <1>6, <1>9, <1>12, GiveIp DEF RewSides
  <2>2. QED BY <1>9, <2>1
<1>10. CASE s # 0 /\ Become(Goto(k, p, pb))
  <2>1. PathAt(k, c, "domkfile") BY <1>3, <1>5, <1>7, NewName
  <2>2. Good(Goto(k, p, pb), X) BY <1>2, <1>4, <1>5, <1>6, <1>7, <1>10, <1>12, <2>1, TurnStep DEF RewSides
  <2>3. QED BY <1>10, <2>2
<1>11. QED BY <1>1, <1>8, <1>9, <1>10

\* A process is to give up slot x.
SetPut(k, p, x) == [k EXCEPT !.u[p].put = x]

\* The inode that is given up.
LEMMA SetPutEff ==
  ASSUME NEW k, Types(k), NEW p \in Proc, NEW x \in Opt
  PROVE  Types(SetPut(k, p, x)) /\ Only(k, SetPut(k, p, x), p)
         /\ KeepU(k.u[p], SetPut(k, p, x).u[p], {"put"}) /\ SetPut(k, p, x).u[p].put = x
<1> DEFINE c == [k.u[p] EXCEPT !.put = x]
           k1 == SetPut(k, p, x)
           j == [k EXCEPT !.u[p] = c]
<1>0. UserOK(k.u[p]) /\ k.u[p] = [f \in UserF |-> k.u[p][f]] BY DEF Types, UsersOK, UserOK
<1>1. k1 = j BY DEF SetPut
<1>2. c = [f \in UserF |-> c[f]] /\ c.put = x /\ KeepU(k.u[p], c, {"put"}) BY <1>0 DEF UserF, KeepU
<1> HIDE DEF c
<1>3. UserOK(c) BY <1>0, <1>2 DEF UserOK, KeepU, UserF
<1>4. Types(j) /\ Only(k, j, p) /\ j.u[p] = c BY <1>3, SetUser
<1> HIDE DEF k1, j
<1>5. QED BY <1>1, <1>2, <1>4 DEF k1

\* The last reference is being given up: what is known then.
PutFacts(c, l) ==
  /\ c.chan = Awake /\ c.pc \in Seq(Label) /\ c.pc # <<>> /\ Top(c.pc) = l /\ c.put # 0 /\ Up(c) = 0
  /\ Tail(c.pc) \in Seq(Label) /\ StackOK(Tail(c.pc)) /\ Top(Tail(c.pc)) \notin LeafL
  /\ Tail(c.pc) # <<>> => Bot(Tail(c.pc)) = Bot(c.pc)
  /\ Tail(c.pc) = <<>> => Bot(c.pc) = l /\ Bot(Tail(c.pc)) = "" /\ c.ip = 0 /\ c.dip = 0 /\ c.rip = 0 /\ c.mip = 0
  /\ Walk(c) <=> Bot(Tail(c.pc)) \in {"got", "more"}

\* A process that writes or frees an inode it gives up.
LEMMA PutAt ==
  ASSUME NEW k, k = K, NEW p \in Proc, NEW l \in {"fstrunc", "fsiupdat"}, At(p, l), NEW X, Good(k, X)
  PROVE  /\ PutFacts(k.u[p], l) /\ Rest(p) = Tail(k.u[p].pc)
         /\ Types(k) /\ HandOK(k.u[p], k.u[p].pc) /\ Apart(k.u[p]) /\ PathOK(k, k.u[p])
<1> DEFINE c == k.u[p]
<1>1. /\ c.chan = Awake /\ c.pc # <<>> /\ Top(c.pc) = l /\ Rest(p) = Tail(c.pc)
      /\ Types(k) /\ HandOK(c, c.pc) /\ Apart(c) /\ PathOK(k, c)
      /\ c.pc \in Seq(Label) /\ StackOK(c.pc) /\ UserOK(c)
  BY AtFacts
<1> HIDE DEF c
<1>2. /\ Tail(c.pc) \in Seq(Label) /\ StackOK(Tail(c.pc)) /\ Top(Tail(c.pc)) \notin LeafL
      /\ Tail(c.pc) # <<>> => Bot(Tail(c.pc)) = Bot(c.pc)
      /\ Tail(c.pc) = <<>> => Bot(c.pc) = Top(c.pc)
  BY <1>1, StackPop
<1>3. c.put # 0 /\ Up(c) = 0 BY <1>1 DEF HandOK, Up
<1>4. l \notin WithDip \cup WithIp \cup PerhapsIp \cup WithRip \cup WithMip BY NoLabel
<1>5. Tail(c.pc) = <<>> => c.ip = 0 /\ c.dip = 0 /\ c.rip = 0 /\ c.mip = 0 /\ Bot(Tail(c.pc)) = ""
  BY <1>1, <1>2, <1>4, EmptyStack DEF HandOK
<1>6. Walk(c) <=> Bot(Tail(c.pc)) \in {"got", "more"} BY <1>1, <1>2, <1>5 DEF Walk
<1>7. QED BY <1>1, <1>2, <1>3, <1>5, <1>6 DEF c, PutFacts

\* iput on the last reference: a file without a name loses its blocks first,
LEMMA FstruncGood ==
  ASSUME NEW k, k = K, NEW X, Good(k, X), NEW p \in Proc, Fstrunc(p)
  PROVE  \E k1 : Become(k1) /\ Good(k1, X)
<1> DEFINE c == k.u[p]
           s == c.put
           pc == <<"fsiupdat">> \o Tail(c.pc)
<1>1. At(p, "fstrunc") /\ u = k.u /\ node = k.node BY KFacts DEF Fstrunc
<1>2. /\ PutFacts(c, "fstrunc") /\ Rest(p) = Tail(c.pc)
      /\ Types(k) /\ HandOK(c, c.pc) /\ Apart(c) /\ PathOK(k, c)
  BY <1>1, PutAt
<1>3. s \in Slot BY <1>2, HandTypes DEF PutFacts
<1>4. PICK j \in Written(k, s) :
        Become(Goto([Ifree(j, k.node[s].ino) EXCEPT !.node[s].mode = FALSE, !.node[s].chg = TRUE], p, pc))
  <2>1. \E j \in Written(K, u[p].put) :
          Become(Goto([Ifree(j, node[u[p].put].ino) EXCEPT !.node[u[p].put].mode = FALSE,
                                                          !.node[u[p].put].chg = TRUE],
                      p, <<"fsiupdat">> \o Rest(p)))
    BY DEF Fstrunc
  <2>2. u[p].put = s /\ node[s].ino = k.node[s].ino /\ Rest(p) = Tail(c.pc) BY <1>1, <1>2
  <2>3. QED BY <2>1, <2>2
<1> DEFINE k2 == Ifree(j, k.node[s].ino)
           km == [k2 EXCEPT !.node[s].mode = FALSE, !.node[s].chg = TRUE]
<1>5. Rewritten(k, j) BY <1>2, <1>3, <1>4, WrittenEff
<1>6. Rewritten(j, k2)
  <2>1. RefP(c, s) # 0 BY <1>3, HandRef
  <2>2. k.node[s].ino # "none" BY <2>1, <1>3, RefIno DEF Good
  <2>3. k.node[s].ino \in Inos BY <1>2, <1>3 DEF Types, NodesOK, NodeOK
  <2>4. Types(j) BY <1>5 DEF Rewritten
  <2>5. /\ Types(k2) /\ k2.node = j.node /\ k2.u = j.u /\ k2.freel = j.freel /\ k2.panic = j.panic
        /\ KeepF(j.fs, k2.fs, {"sinode"})
    BY <2>2, <2>3, <2>4, IfreeEff
  <2> HIDE DEF k2
  <2>6. QED BY <2>5 DEF Rewritten, SameNodes, KeepN, KeepF
<1>7. Rewritten(k2, km)
  <2>1. Types(k2) BY <1>6 DEF Rewritten
  <2> HIDE DEF k2
  <2>2. QED BY <2>1, <1>3, SetModeChg
<1>8. Become(Goto(km, p, pc)) BY <1>4
<1> HIDE DEF k2, km
<1>9. RewSides(k, km, p) BY <1>5, <1>6, <1>7, RewrittenTrans, RewFacts
<1>10. /\ pc \in Seq(Label) /\ pc # <<>> /\ StackOK(pc) /\ Top(pc) = "fsiupdat"
       /\ Bot(pc) = IF Tail(c.pc) = <<>> THEN "fsiupdat" ELSE Bot(c.pc)
  <2>1. "fsiupdat" \in Label \ LastL BY LeafFacts DEF LeafL, Label
  <2>2. Below("fsiupdat", IF Tail(c.pc) = <<>> THEN "fsiupdat" ELSE Bot(c.pc)) BY DEF Below
  <2>3. QED BY <2>1, <2>2, <1>2, OverTop DEF PutFacts, HandOK
<1>20. km.u[p] = c BY <1>9 DEF RewSides
<1> HIDE DEF pc, c
<1>11. ASSUME NEW c1, KeepU(km.u[p], c1, {"pc"}), c1.pc = pc
       PROVE  Hop(c, c1) /\ HandOK(c1, pc) /\ PathAt(k, c1, Bot(pc))
  <2>1. /\ c1.ip = c.ip /\ c1.dip = c.dip /\ c1.put = c.put /\ c1.rip = c.rip
        /\ c1.mip = c.mip /\ c1.fd = c.fd /\ c1.fino = c.fino /\ c1.name = c.name
        /\ c1.op = c.op /\ c1.key = c.key
    BY ONLY <1>20, <1>11 DEF KeepU, UserF
  <2>2. Walk(c1) = Walk(c)
    <3>1. CASE Tail(c.pc) = <<>>
      <4>1. Bot(c.pc) = "fstrunc" /\ Bot(c1.pc) = "fsiupdat" BY <3>1, <1>2, <1>10, <1>11 DEF PutFacts
      <4>2. QED BY <4>1, NoWalk
    <3>2. CASE Tail(c.pc) # <<>> BY <3>2, <1>10, <1>11 DEF Walk
    <3>3. QED BY <3>1, <3>2
  <2>3. Hop(c, c1) BY <1>2, <1>10, <1>11, <2>1, <2>2 DEF Hop, PutFacts
  <2>4. "fstrunc" \notin WithDip \cup WithIp \cup PerhapsIp \cup WithRip \cup WithMip
        /\ "fsiupdat" \notin WithDip \cup WithIp \cup PerhapsIp \cup WithRip \cup WithMip \cup Named
    BY NoLabel
  <2>5. HandOK(c1, pc)
    <3>1. Bot(pc) = "fsiupdat" \/ Bot(pc) = Bot(c.pc) BY <1>10
    <3>2. Tail(c.pc) = <<>> => c.ip = 0 /\ c.dip = 0 /\ c.rip = 0 /\ c.mip = 0 /\ Bot(pc) = "fsiupdat"
      BY <1>2, <1>10 DEF PutFacts
    <3>3. Tail(c.pc) # <<>> => Bot(pc) = Bot(c.pc) BY <1>10
    <3>7. FdOK(c1, Bot(pc))
      <4>1. FdOK(c, Bot(c.pc)) BY <1>2, HandFd
      <4>2. "fsiupdat" \notin Opens \cup {"putdir", "got"} BY DEF Opens
      <4>3. QED BY <4>1, <4>2, <3>1, <2>1 DEF FdOK
    <3>4. CASE Tail(c.pc) = <<>> BY <3>4, <1>2, <1>10, <2>1, <2>4, <3>2, <3>7 DEF HandOK, PutFacts, FdOK
    <3>5. CASE Tail(c.pc) # <<>>
      <4>1. c.put # 0 BY <1>2 DEF PutFacts
      <4>2. QED BY <3>5, <1>2, <1>10, <2>1, <3>3, <4>1, HandSame
    <3>6. QED BY <3>4, <3>5
  <2>6. PathAt(k, c1, Bot(pc))
    <3>1. CASE Tail(c.pc) = <<>>
      <4>1. Bot(pc) = "fsiupdat" BY <3>1, <1>10
      <4>2. c1.fd # 0 => k.node[c1.fd].ino = c1.fino /\ c1.fino \in InFs BY <1>2, <2>1 DEF PathOK
      <4>3. QED BY <4>1, <4>2, <2>4 DEF PathAt
    <3>2. CASE Tail(c.pc) # <<>> BY <3>2, <1>2, <1>10, <2>1, <2>3, SamePlace
    <3>3. QED BY <3>1, <3>2
  <2>7. QED BY <2>3, <2>5, <2>6
<1>12. /\ Bot(pc) \in Owner <=> Bot(c.pc) \in Owner
       /\ Bot(pc) = "unhang" => Bot(c.pc) = "unhang"
  BY <1>2, <1>10 DEF PutFacts, Owner
<1>13. km.u[p].chan = Awake BY <1>2, <1>20 DEF PutFacts
<1>14. Good(Goto(km, p, pc), X) BY <1>9, <1>10, <1>11, <1>12, <1>13, HopStep DEF c, RewSides
<1>15. QED BY <1>8, <1>14

\* and the inode is written; then the slot is free, unless somebody came for it meanwhile.
LEMMA FsiupdatGood ==
  ASSUME NEW k, k = K, NEW X, Good(k, X), NEW p \in Proc, Fsiupdat(p)
  PROVE  \E k1 : Become(k1) /\ Good(k1, X)
<1> DEFINE c == k.u[p]
           s == c.put
           r == Tail(c.pc)
<1>1. At(p, "fsiupdat") /\ u = k.u BY KFacts DEF Fsiupdat
<1>2. /\ PutFacts(c, "fsiupdat") /\ Rest(p) = Tail(c.pc)
      /\ Types(k) /\ HandOK(c, c.pc) /\ Apart(c) /\ PathOK(k, c)
  BY <1>1, PutAt
<1>3. s \in Slot /\ r \in Seq(Label) BY <1>2, HandTypes DEF PutFacts
<1>4. PICK j \in Written(k, s) : Become(Goto([Unhash(j, s) EXCEPT !.u[p].put = 0], p, r))
  BY <1>1, <1>2 DEF Fsiupdat
<1> DEFINE ku == Unhash(j, s)
           kv == SetPut(ku, p, 0)
           k0 == SetPut(j, p, 0)
           k1 == Goto(kv, p, r)
<1>5. Become(k1) BY <1>4 DEF SetPut
<1>6. Rewritten(k, j) BY <1>2, <1>3, <1>4, WrittenEff
<1>7. RewSides(k, j, p) BY <1>6, RewFacts
<1>8. k.node[s].ino # "none" /\ k.node[s].count = 1
  <2>1. RefP(c, s) # 0 BY <1>3, HandRef
  <2>2. k.node[s].ino # "none" BY <2>1, <1>3, RefIno DEF Good
  <2>3. QED BY <2>2, <1>2 DEF Good, PutOK, PutFacts
<1>9. j.node[s].ino # "none" /\ j.node[s].count = 1 BY <1>3, <1>7, <1>8, DullFacts DEF RewSides
<1>10. /\ Types(ku) /\ ku.fs = j.fs /\ ku.panic = j.panic /\ ku.freel = <<s>> \o j.freel
       /\ NodeBut(j, ku, s) /\ Called(j, ku, s)
       /\ KeepN(j.node[s], ku.node[s], {"lock", "want", "ino", "text", "chg", "count"})
       /\ ~ku.node[s].lock /\ ku.node[s].ino = "none" /\ ku.node[s].count = j.node[s].count - 1
  BY <1>3, <1>7, <1>9, UnhashEff DEF RewSides
<1> HIDE DEF ku
<1>11. Types(kv) /\ Only(ku, kv, p) /\ KeepU(ku.u[p], kv.u[p], {"put"}) /\ kv.u[p].put = 0
  BY <1>10, SetPutEff, SlotFacts
<1>12. Types(k0) /\ Only(j, k0, p) /\ KeepU(j.u[p], k0.u[p], {"put"}) /\ k0.u[p].put = 0
  BY <1>7, SetPutEff, SlotFacts DEF RewSides
<1> HIDE DEF kv, k0
<1>13. Types(k1) /\ Only(kv, k1, p) /\ GoneTo(kv.u[p], k1.u[p], r) BY <1>3, <1>11, GotoEff
<1> HIDE DEF k1
<1>14. KeepU(k0.u[p], kv.u[p], {})
  <2>1. KeepU(j.u[p], ku.u[p], {"chan"}) /\ ku.u[p].chan = j.u[p].chan
    <3>1. j.u[p].chan = Awake BY <1>2, <1>7 DEF RewSides, PutFacts
    <3>2. QED BY <3>1, <1>3, <1>10, AwakeOn DEF Called
  <2>2. QED BY <2>1, <1>11, <1>12 DEF KeepU
<1>15. GoneTo(k0.u[p], k1.u[p], r) BY <1>13, <1>14, GoneTrans
<1>16. CalledBut(k0, k1, p, s)
  <2>1. \A q \in Proc \ {p} : k1.u[q] = ku.u[q] /\ k0.u[q] = j.u[q] BY <1>11, <1>12, <1>13 DEF Only
  <2>2. k0.node[s] = j.node[s] BY <1>12 DEF Only
  <2>3. QED BY <2>1, <2>2, <1>10 DEF CalledBut, Called
<1>17. Freed(k0, k1, p, s, r)
  <2>1. k1.node = ku.node /\ k1.fs = ku.fs /\ k1.freel = ku.freel /\ k1.panic = ku.panic
    BY <1>11, <1>13 DEF Only
  <2>2. k0.node = j.node /\ k0.fs = j.fs /\ k0.freel = j.freel /\ k0.panic = j.panic BY <1>12 DEF Only
  <2>3. NodeBut(k0, k1, s) BY <2>1, <2>2, <1>10 DEF NodeBut
  <2>4. QED BY <2>1, <2>2, <2>3, <1>10, <1>13, <1>15, <1>16 DEF Freed
<1>18. Gave(k0, k1, p, s, r) /\ k0.node[s].count = 1 BY <1>9, <1>12, <1>17 DEF Gave, Only
<1> DEFINE c0 == k0.u[p]
<1>20. j.u = k.u BY <1>7 DEF RewSides
<1> HIDE DEF c, r
<1>21. KeepU(c, c0, {"put"}) /\ c0.put = 0 BY <1>12, <1>20 DEF c
<1> HIDE DEF c0
<1>22. /\ c0.ip = c.ip /\ c0.dip = c.dip /\ c0.rip = c.rip /\ c0.mip = c.mip /\ c0.fd = c.fd /\ c0.up = c.up
       /\ c0.fino = c.fino /\ c0.name = c.name /\ c0.op = c.op /\ c0.key = c.key /\ c0.chan = c.chan /\ c0.pc = c.pc
  BY <1>21 DEF KeepU, UserF
<1>23. /\ c.chan = Awake /\ c.pc \in Seq(Label) /\ c.pc # <<>> /\ Top(c.pc) = "fsiupdat" /\ c.put # 0 /\ Up(c) = 0
       /\ StackOK(r) /\ Top(r) \notin LeafL
       /\ r # <<>> => Bot(r) = Bot(c.pc)
       /\ r = <<>> => Bot(c.pc) = "fsiupdat" /\ Bot(r) = "" /\ c.ip = 0 /\ c.dip = 0 /\ c.rip = 0 /\ c.mip = 0
       /\ Walk(c) <=> Bot(r) \in {"got", "more"}
  BY <1>2 DEF PutFacts, r, c
<1>24. HandOK(c0, r)
  <2>0. FdOK(c0, Bot(r))
    <3>1. FdOK(c, Bot(c.pc)) BY <1>2, HandFd DEF c
    <3>2. Bot(r) = Bot(c.pc) \/ Bot(r) = "" BY <1>23
    <3>3. QED BY <3>1, <3>2, <1>22, OpensIn DEF FdOK
  <2>1. Top(r) \notin {"fstrunc", "fsiupdat", "iget", "fsiread", "upput"} BY <1>23 DEF LeafL
  <2>2. CASE r = <<>>
    <3>1. Bot(r) \notin WithDip \cup WithIp \cup PerhapsIp \cup WithRip \cup WithMip BY <2>2, EmptyStack
    <3>2. Bot(r) \notin {"closef", "more", "plockdir", "funmount", "fsoff", "unhang"} BY <2>2, <1>23
    <3>3. c.op \in {"open", "creat", "exec", "unlink"} => c.name \in Name BY <1>2 DEF HandOK
    <3>4. QED BY <2>0, <2>1, <2>2, <1>21, <1>22, <1>23, <3>1, <3>2, <3>3 DEF HandOK, FdOK
  <2>3. CASE r # <<>>
    <3>1. Bot(r) = Bot(c.pc) /\ HandOK(c, c.pc) BY <2>3, <1>2, <1>23
    <3>2. QED BY <2>1, <3>1, <1>21, <1>22, <1>23, HandSame
  <2>4. QED BY <2>2, <2>3
<1>25. PathAt(k, c0, Bot(r))
  <2>1. CASE r = <<>>
    <3>1. Bot(r) \notin Named \cup WithDip /\ Bot(r) = "" BY <2>1, EmptyStack
    <3>2. c0.fd # 0 => k.node[c0.fd].ino = c0.fino /\ c0.fino \in InFs BY <1>2, <1>22 DEF PathOK
    <3>3. QED BY <3>1, <3>2 DEF PathAt
  <2>2. CASE r # <<>>
    <3>1. PathAt(k, c, Bot(r)) BY <2>2, <1>2, <1>23, PathParts
    <3>2. QED BY <3>1, <1>22 DEF PathAt
  <2>3. QED BY <2>1, <2>2
<1>26. Prep(k, k0, p, s)
  <2>1. k0.node = j.node /\ k0.fs = j.fs /\ k0.freel = j.freel BY <1>12 DEF Only
  <2>2. \A t \in Slot : KeepN(k.node[t], k0.node[t], Dull) BY <2>1, <1>7 DEF RewSides, SameNodes
  <2>3. \A q \in Proc \ {p} : k0.u[q] = k.u[q] BY <1>12, <1>20 DEF Only
  <2>4. Others(k, k0, p) BY <2>3 DEF Others, KeepU
  <2>5. k0.node[s].want = k.node[s].want BY <2>2, <1>3 DEF KeepN, NodeF, Dull
  <2>6. k0.u[p].chan = Awake BY <1>22, <1>23 DEF c0
  <2>7. KeepN(k.node[s], k0.node[s], Dull \cup {"lock", "want"}) BY <2>2, <1>3 DEF KeepN
  <2>8. QED BY <2>1, <2>2, <2>4, <2>5, <2>6, <2>7, <1>7, <1>12 DEF Prep, RewSides
<1>27. Apart(c) /\ s = c.put BY <1>2 DEF c
<1>28. Given(k, k0, p, s, r)
  <2>1. c0.ip # 0 => c0.ip # c0.dip \/ Bot(r) \in {"got", "more"} BY <1>22, <1>23, <1>27 DEF Apart
  <2>2. ASSUME NEW t \in Slot PROVE RefP(c, t) = RefQ(c0, t) + B(s = t)
    <3>1. Rip(c0) = Rip(c) BY <1>22 DEF Rip
    <3>2. B(Up(c) = t) = 0 BY <1>23, SlotFacts DEF B
    <3>3. /\ B(c.ip = t) \in Int /\ B(c.dip = t) \in Int /\ B(c.fd = t) \in Int /\ B(c.put = t) \in Int
          /\ B(Rip(c) = t) \in Int
      BY DEF B
    <3>4. QED BY <3>1, <3>2, <3>3, <1>22, <1>27 DEF RefP, RefQ
  <2>3. ASSUME NEW t \in Slot \ {s} PROVE HoldP(c, t) <=> HoldQ(c0, t, Bot(r))
    <3>1. Up(c) # t BY <1>23, SlotFacts
    <3>2. QED BY <3>1, <1>22, <1>23, <1>27 DEF HoldP, HoldQ
  <2>4. QED BY <1>23, <1>24, <2>1, <2>2, <2>3 DEF Given, c, c0
<1>29. GiveLock(k, k0, p, s, r)
  <2>1. HoldP(c, s) BY <1>27 DEF HoldP
  <2>2. ~HoldQ(c0, s, Bot(r)) BY <1>3, <1>22, <1>23, <1>27, SlotFacts DEF HoldQ, Apart
  <2>3. QED BY <2>1, <2>2 DEF GiveLock, c, c0
<1>30. Onward(k, k0, p, s, r)
  <2>1. k0.fs.mdev = k.fs.mdev BY <1>7, <1>12 DEF Only, RewSides
  <2>2. Bot(c.pc) \in Owner => r # <<>> /\ k.fs.mdev
    <3>1. "fsiupdat" \notin Owner BY DEF Owner
    <3>2. QED BY <3>1, <1>2, <1>23 DEF PathOK, c
  <2>3. Bot(r) \in Owner <=> Bot(c.pc) \in Owner BY <2>2, <1>23, EmptyStack
  <2>4. Bot(r) = "unhang" => Bot(c.pc) = "unhang" /\ c0.rip = c.rip /\ s # c.rip
    BY <1>22, <1>23, <1>27 DEF Apart
  <2>5. QED BY <2>1, <2>2, <2>3, <2>4, <1>8, <1>25 DEF Onward, c, c0
<1>31. Good(k1, X) BY <1>3, <1>18, <1>26, <1>28, <1>29, <1>30, GiveGood DEF r
<1>32. QED BY <1>5, <1>31

\* p unlocks the slots D, and takes and locks slot s if g holds.
Grip(k, k1, p, s, D, g) ==
  /\ Types(k1) /\ Others(k, k1, p) /\ k1.freel = k.freel
  /\ \A t \in D : HoldP(k.u[p], t)
  /\ \A t \in Slot : /\ k1.node[t].ino = k.node[t].ino /\ k1.node[t].mroot = k.node[t].mroot
                     /\ k1.node[t].count = k.node[t].count + (IF g /\ t = s THEN 1 ELSE 0)
                     /\ k1.node[t].lock <=> ((k.node[t].lock /\ t \notin D) \/ (g /\ t = s))
                     /\ k.node[t].want /\ t \notin D => k1.node[t].want
                     /\ RefP(k1.u[p], t) = RefP(k.u[p], t) + (IF g /\ t = s THEN 1 ELSE 0)
                     /\ HoldP(k1.u[p], t) <=> ((HoldP(k.u[p], t) /\ t \notin D) \/ (g /\ t = s))
  /\ \A t \in D, q \in Proc \ {p} : k.node[t].want => k1.u[q].chan # On(t)
  /\ g => (~k.node[s].lock \/ s \in D) /\ k.node[s].ino # "none"
  /\ \A q \in Proc \ {p} : k1.u[q].chan = <<"ilock", 0>> /\ k.fs.ilock => k1.fs.ilock
  /\ \/ k1.u[p].chan = Awake
     \/ \E t \in Slot : k1.u[p].chan = On(t) /\ k1.node[t].lock /\ k1.node[t].want /\ k1.u[p].pc # <<>>

\* The counts and locks balance in such a step.
LEMMA GripMoves ==
  ASSUME NEW k, NEW k1, NEW p \in Proc, NEW s \in Slot, NEW D \in SUBSET Slot, NEW g \in BOOLEAN, NEW X,
         Core(k, X), Grip(k, k1, p, s, D, g)
  PROVE  Ledger(k, k1, p, X, X) /\ Locking(k, k1, p) /\ Waking(k, k1, p) /\ Stays(k, k1)
<1> DEFINE c == k.u[p]
           c1 == k1.u[p]
<1>1. Ledger(k, k1, p, X, X)
  <2>1. \A m \in Slot : k1.node[m].mroot = k.node[m].mroot BY DEF Grip
  <2>2. \A t \in Slot : MountRefs(k1.node, t) = MountRefs(k.node, t) BY <2>1, SameMountRefs
  <2>3. ASSUME NEW t \in Slot
        PROVE  k1.node[t].count - RefP(c1, t) - MountRefs(k1.node, t) - X[t]
             = k.node[t].count - RefP(c, t) - MountRefs(k.node, t) - X[t]
    <3> DEFINE a == k.node[t].count
               b == RefP(c, t)
               m == MountRefs(k.node, t)
               x == X[t]
               e == IF g /\ t = s THEN 1 ELSE 0
    <3>1. a \in Nat /\ b \in Nat /\ m \in Nat /\ x \in Nat BY CountAtLeast
    <3>2. k1.node[t].count = a + e /\ RefP(c1, t) = b + e BY DEF Grip
    <3>3. e \in Nat OBVIOUS
    <3>4. MountRefs(k1.node, t) = m BY <2>2
    <3> HIDE DEF a, b, m, x, e
    <3>5. (a + e) - (b + e) - m - x = a - b - m - x BY <3>1, <3>3
    <3>6. QED BY <3>2, <3>4, <3>5 DEF a, b, m, x
  <2>4. QED BY <2>3 DEF Ledger
<1>2. Locking(k, k1, p)
  <2>1. ASSUME NEW t \in Slot
        PROVE  /\ k1.node[t].lock <=> (HoldP(c1, t) \/ (k.node[t].lock /\ ~HoldP(c, t)))
               /\ HoldP(c1, t) => HoldP(c, t) \/ ~k.node[t].lock
    <3>1. /\ k1.node[t].lock <=> ((k.node[t].lock /\ t \notin D) \/ (g /\ t = s))
          /\ HoldP(c1, t) <=> ((HoldP(c, t) /\ t \notin D) \/ (g /\ t = s))
          /\ t \in D => HoldP(c, t)
          /\ g => ~k.node[s].lock \/ s \in D
      BY DEF Grip
    <3>2. HoldP(c, t) => k.node[t].lock BY DEF Core, LockInv
    <3>3. QED BY <3>1, <3>2
  <2>2. QED BY <2>1 DEF Locking
<1>3. Waking(k, k1, p)
  <2>1. ASSUME NEW q \in Proc \ {p}, NEW t \in Slot, k1.u[q].chan = On(t), k.node[t].lock, k.node[t].want
        PROVE  k1.node[t].lock /\ k1.node[t].want
    <3>1. t \notin D BY <2>1 DEF Grip
    <3>2. QED BY <3>1, <2>1 DEF Grip
  <2>2. \A q \in Proc \ {p} : k1.u[q].chan = <<"ilock", 0>> /\ k.fs.ilock => k1.fs.ilock BY DEF Grip
  <2>3. \/ c1.chan = Awake
        \/ \E t \in Slot : c1.chan = On(t) /\ k1.node[t].lock /\ k1.node[t].want /\ c1.pc # <<>>
    BY DEF Grip
  <2>4. \A t \in Slot : c1.chan = On(t) => k1.node[t].lock /\ k1.node[t].want BY <2>3, AwakeOn
  <2>5. c1.chan # <<"ilock", 0>>
    <3>1. Awake # <<"ilock", 0>>
      <4>1. Awake[1] # <<"ilock", 0>>[1] BY DEF Awake
      <4>2. QED BY <4>1
    <3>2. \A t \in Slot : On(t) # <<"ilock", 0>> BY AwakeOn
    <3>3. QED BY <2>3, <3>1, <3>2
  <2>6. c1.pc = <<>> => c1.chan = Awake BY <2>3
  <2>7. QED BY <2>1, <2>2, <2>4, <2>5, <2>6 DEF Waking
<1>4. Stays(k, k1)
  <2>1. ASSUME NEW t \in Slot PROVE SameSlot(k.node[t], k1.node[t])
    <3>1. k.node[t].count \in Nat BY CountAtLeast
    <3>2. k.node[t].ino = "none" <=> k.node[t].count = 0 BY DEF Core, TableInv
    <3>3. /\ k1.node[t].ino = k.node[t].ino
          /\ k1.node[t].count = k.node[t].count + (IF g /\ t = s THEN 1 ELSE 0)
          /\ k1.node[t].lock <=> ((k.node[t].lock /\ t \notin D) \/ (g /\ t = s))
          /\ g => k.node[s].ino # "none"
      BY DEF Grip
    <3>4. CASE g /\ t = s BY <3>1, <3>2, <3>3, <3>4 DEF SameSlot
    <3>5. CASE ~(g /\ t = s) BY <3>1, <3>2, <3>3, <3>5 DEF SameSlot
    <3>6. QED BY <3>4, <3>5
  <2>2. QED BY <2>1 DEF Stays, Grip
<1>5. QED BY <1>1, <1>2, <1>3, <1>4

\* And so does the system as a whole, when nothing changes about the mounting but who holds what.
LEMMA GripGood ==
  ASSUME NEW k, NEW k1, NEW p \in Proc, NEW s \in Slot, NEW D \in SUBSET Slot, NEW g \in BOOLEAN, NEW X,
         Good(k, X), Grip(k, k1, p, s, D, g), ProcOK(k1.u[p]),
         \A t \in Slot : k1.node[t].mpoint = k.node[t].mpoint,
         k1.fs.mdev = k.fs.mdev,
         Bot(k1.u[p].pc) \in Owner => Bot(k.u[p].pc) \in Owner /\ k1.fs.mdev /\ ~IsMounted(k),
         \A t \in Slot : OwnsRoot(k.u[p], t) /\ k.node[t].ino = "root" => OwnsRoot(k1.u[p], t),
         PathAt(k, k1.u[p], Bot(k1.u[p].pc)), RootOwned(k, k1.u[p]), Empty(k1, k1.u[p]), PutOK(k1, k1.u[p])
  PROVE  Good(k1, X)
<1>1. Core(k, X) BY DEF Good
<1>2. Types(k1) /\ Others(k, k1, p) BY DEF Grip
<1>3. Ledger(k, k1, p, X, X) /\ Locking(k, k1, p) /\ Waking(k, k1, p) /\ Stays(k, k1) BY <1>1, GripMoves
<1>4. \A t \in Slot : k1.node[t].ino = k.node[t].ino /\ k1.node[t].mroot = k.node[t].mroot BY DEF Grip
<1>5. Gains(k.u[p], k1.u[p])
  <2>1. ASSUME NEW t \in Slot, RefP(k1.u[p], t) # 0 PROVE RefP(k.u[p], t) # 0 \/ HoldP(k1.u[p], t)
    <3>1. /\ RefP(k1.u[p], t) = RefP(k.u[p], t) + (IF g /\ t = s THEN 1 ELSE 0)
          /\ g /\ t = s => HoldP(k1.u[p], t)
      BY DEF Grip
    <3>2. RefP(k.u[p], t) \in Nat BY RefNat
    <3>3. QED BY <2>1, <3>1, <3>2
  <2>2. QED BY <2>1 DEF Gains
<1>6. \A t \in Slot : X[t] \in Nat BY <1>1 DEF Core, Texts
<1>7. Plain(k, k1, p, X, X) BY <1>4, <1>5, <1>6 DEF Plain
<1>8. Bot(k1.u[p].pc) \in Owner => k1.fs.mdev /\ ~IsMounted(k) OBVIOUS
<1>9. QED BY <1>2, <1>3, <1>7, <1>8, StepGood

\* p unlocks the slots D, and takes none.
Loose(k, k1, p, D) ==
  /\ Types(k1) /\ Others(k, k1, p) /\ k1.freel = k.freel /\ k1.fs.ilock = k.fs.ilock
  /\ \A t \in D : HoldP(k.u[p], t)
  /\ \A t \in Slot : /\ k1.node[t].ino = k.node[t].ino /\ k1.node[t].mroot = k.node[t].mroot
                     /\ k1.node[t].count = k.node[t].count
                     /\ k1.node[t].lock <=> (k.node[t].lock /\ t \notin D)
                     /\ k.node[t].want /\ t \notin D => k1.node[t].want
                     /\ RefP(k1.u[p], t) = RefP(k.u[p], t)
                     /\ HoldP(k1.u[p], t) <=> (HoldP(k.u[p], t) /\ t \notin D)
  /\ \A t \in D, q \in Proc \ {p} : k.node[t].want => k1.u[q].chan # On(t)
  /\ \/ k1.u[p].chan = Awake
     \/ \E t \in Slot : k1.u[p].chan = On(t) /\ k1.node[t].lock /\ k1.node[t].want /\ k1.u[p].pc # <<>>

\* Unlocking only,
LEMMA LooseGrip ==
  ASSUME NEW k, NEW k1, NEW p \in Proc, NEW s \in Slot, NEW D \in SUBSET Slot, Types(k), Loose(k, k1, p, D)
  PROVE  Grip(k, k1, p, s, D, FALSE)
<1>1. ASSUME NEW t \in Slot
      PROVE  /\ k1.node[t].count = k.node[t].count + (IF FALSE /\ t = s THEN 1 ELSE 0)
             /\ k1.node[t].lock <=> ((k.node[t].lock /\ t \notin D) \/ (FALSE /\ t = s))
             /\ RefP(k1.u[p], t) = RefP(k.u[p], t) + (IF FALSE /\ t = s THEN 1 ELSE 0)
             /\ HoldP(k1.u[p], t) <=> ((HoldP(k.u[p], t) /\ t \notin D) \/ (FALSE /\ t = s))
  <2>1. k.node[t].count \in Int BY DEF Types, NodesOK, NodeOK
  <2>2. RefP(k.u[p], t) \in Nat BY RefNat
  <2>3. QED BY <2>1, <2>2 DEF Loose
<1>2. QED BY <1>1 DEF Loose, Grip

\* p takes and locks slot s, and unlocks the slots D.
Took(k, k1, p, s, D) ==
  /\ Types(k1) /\ Others(k, k1, p) /\ k1.freel = k.freel
  /\ \A t \in D : HoldP(k.u[p], t)
  /\ ~k.node[s].lock \/ s \in D
  /\ k.node[s].ino # "none" /\ k1.node[s].count = k.node[s].count + 1 /\ k1.node[s].lock
  /\ \A t \in Slot : /\ k1.node[t].ino = k.node[t].ino /\ k1.node[t].mroot = k.node[t].mroot
                     /\ t # s => /\ k1.node[t].count = k.node[t].count
                                 /\ k1.node[t].lock <=> (k.node[t].lock /\ t \notin D)
                     /\ k.node[t].want /\ t \notin D => k1.node[t].want
                     /\ RefP(k1.u[p], t) = RefP(k.u[p], t) + B(s = t)
                     /\ HoldP(k1.u[p], t) <=> ((HoldP(k.u[p], t) /\ t \notin D) \/ t = s)
  /\ \A t \in D, q \in Proc \ {p} : k.node[t].want => k1.u[q].chan # On(t)
  /\ \A q \in Proc \ {p} : k1.u[q].chan = <<"ilock", 0>> /\ k.fs.ilock => k1.fs.ilock
  /\ k1.u[p].chan = Awake

\* or unlocking and taking.
LEMMA TookGrip ==
  ASSUME NEW k, NEW k1, NEW p \in Proc, NEW s \in Slot, NEW D \in SUBSET Slot, Types(k), Took(k, k1, p, s, D)
  PROVE  Grip(k, k1, p, s, D, TRUE)
<1>1. ASSUME NEW t \in Slot
      PROVE  /\ k1.node[t].count = k.node[t].count + (IF TRUE /\ t = s THEN 1 ELSE 0)
             /\ k1.node[t].lock <=> ((k.node[t].lock /\ t \notin D) \/ (TRUE /\ t = s))
             /\ RefP(k1.u[p], t) = RefP(k.u[p], t) + (IF TRUE /\ t = s THEN 1 ELSE 0)
             /\ HoldP(k1.u[p], t) <=> ((HoldP(k.u[p], t) /\ t \notin D) \/ (TRUE /\ t = s))
  <2>1. k.node[t].count \in Int BY DEF Types, NodesOK, NodeOK
  <2>2. B(s = t) = IF t = s THEN 1 ELSE 0 BY DEF B
  <2>3. QED BY <2>1, <2>2 DEF Took
<1>2. QED BY <1>1 DEF Took, Grip

\* Nothing of the mounting is any business of a process that goes on with an empty stack.
LEMMA OutPath ==
  ASSUME NEW k, NEW c1, c1.pc = <<>>, c1.fd # 0 => k.node[c1.fd].ino = c1.fino /\ c1.fino \in InFs
  PROVE  /\ Bot(c1.pc) = "" /\ Bot(c1.pc) \notin Owner /\ Top(c1.pc) = ""
         /\ PathAt(k, c1, Bot(c1.pc)) /\ Empty(k, c1)
<1>1. Bot(c1.pc) = "" /\ Top(c1.pc) = "" BY DEF Bot, Top
<1>2. "" \notin Owner \cup Named \cup WithDip BY EmptyStack
<1>3. PathAt(k, c1, "") BY <1>2 DEF PathAt
<1>4. Empty(k, c1) BY <1>1 DEF Empty
<1>5. QED BY <1>1, <1>2, <1>3, <1>4

\* Who has nothing but an open file.
LEMMA OutHands ==
  ASSUME NEW c1, c1.pc = <<>>, c1.ip = 0, c1.dip = 0, c1.put = 0, c1.rip = 0, c1.mip = 0, c1.op = ""
  PROVE  /\ ProcOK(c1) /\ Up(c1) = 0 /\ Rip(c1) = 0 /\ ~Walk(c1)
         /\ \A t \in Slot : RefP(c1, t) = B(c1.fd = t) /\ ~HoldP(c1, t)
<1>1. Bot(<<>>) = "" /\ Top(<<>>) = "" /\ StackOK(<<>>) BY EmptyStack
<1>2. "" \notin WithDip \cup WithIp \cup PerhapsIp \cup WithRip \cup WithMip BY EmptyStack
<1>3. HandOK(c1, c1.pc) BY <1>1, <1>2, OpensIn DEF HandOK
<1>4. Up(c1) = 0 /\ Rip(c1) = 0 /\ ~Walk(c1) BY <1>1 DEF Up, Rip, Walk
<1>5. Apart(c1) BY DEF Apart
<1>6. ASSUME NEW t \in Slot PROVE RefP(c1, t) = B(c1.fd = t) /\ ~HoldP(c1, t)
  <2> DEFINE z == B(0 = t)
             y == B(c1.fd = t)
  <2>1. z \in Nat /\ y \in Nat BY DEF B
  <2>2. z = 0 BY SlotFacts DEF B
  <2>6. RefP(c1, t) = z + z + y + z + z + z BY <1>4 DEF RefP
  <2> HIDE DEF z, y
  <2>7. RefP(c1, t) = y BY ONLY <2>1, <2>2, <2>6
  <2>3. RefP(c1, t) = B(c1.fd = t) BY <2>7 DEF y
  <2>4. ~HoldP(c1, t) BY <1>4, SlotFacts DEF HoldP
  <2>5. QED BY <2>3, <2>4
<1>7. QED BY <1>3, <1>4, <1>5, <1>6 DEF ProcOK

\* What is mounted and who mounts it is as it was, and p is where it may be.
Settled(k, k1, p) ==
  /\ \A t \in Slot : k1.node[t].mpoint = k.node[t].mpoint
  /\ k1.fs.mdev = k.fs.mdev
  /\ Bot(k1.u[p].pc) \in Owner => Bot(k.u[p].pc) \in Owner /\ k1.fs.mdev /\ ~IsMounted(k)
  /\ \A t \in Slot : OwnsRoot(k.u[p], t) /\ k.node[t].ino = "root" => OwnsRoot(k1.u[p], t)
  /\ ProcOK(k1.u[p]) /\ PathAt(k, k1.u[p], Bot(k1.u[p].pc)) /\ RootOwned(k, k1.u[p]) /\ Empty(k1, k1.u[p])
  /\ PutOK(k1, k1.u[p])

\* Grip keeps the invariant where nothing is mounted or unmounted,
LEMMA GripSettled ==
  ASSUME NEW k, NEW k1, NEW p \in Proc, NEW s \in Slot, NEW D \in SUBSET Slot, NEW g \in BOOLEAN, NEW X,
         Good(k, X), Grip(k, k1, p, s, D, g), Settled(k, k1, p)
  PROVE  Good(k1, X)
<1>1. \A t \in Slot : k1.node[t].mpoint = k.node[t].mpoint BY DEF Settled
<1>2. k1.fs.mdev = k.fs.mdev BY DEF Settled
<1>3. Bot(k1.u[p].pc) \in Owner => Bot(k.u[p].pc) \in Owner /\ k1.fs.mdev /\ ~IsMounted(k) BY DEF Settled
<1>4. \A t \in Slot : OwnsRoot(k.u[p], t) /\ k.node[t].ino = "root" => OwnsRoot(k1.u[p], t) BY DEF Settled
<1>5. ProcOK(k1.u[p]) BY DEF Settled
<1>6. PathAt(k, k1.u[p], Bot(k1.u[p].pc)) BY DEF Settled
<1>7. RootOwned(k, k1.u[p]) BY DEF Settled
<1>8. Empty(k1, k1.u[p]) BY DEF Settled
<1>9. PutOK(k1, k1.u[p]) BY DEF Settled
<1>10. QED BY <1>1, <1>2, <1>3, <1>4, <1>5, <1>6, <1>7, <1>8, <1>9, GripGood

\* so does unlocking,
LEMMA LooseGood ==
  ASSUME NEW k, NEW k1, NEW p \in Proc, NEW D \in SUBSET Slot, NEW X,
         Good(k, X), Loose(k, k1, p, D), Settled(k, k1, p)
  PROVE  Good(k1, X)
<1> DEFINE g == FALSE
<1>1. Types(k) BY DEF Good, Core
<1>2. PICK s : s \in Slot BY InodeAssumption DEF Slot
<1>3. g \in BOOLEAN /\ Grip(k, k1, p, s, D, g) BY <1>1, <1>2, LooseGrip
<1> HIDE DEF g
<1>4. QED BY <1>2, <1>3, GripSettled

\* so does taking.
LEMMA TookGood ==
  ASSUME NEW k, NEW k1, NEW p \in Proc, NEW s \in Slot, NEW D \in SUBSET Slot, NEW X,
         Good(k, X), Took(k, k1, p, s, D), Settled(k, k1, p)
  PROVE  Good(k1, X)
<1> DEFINE g == TRUE
<1>1. Types(k) BY DEF Good, Core
<1>3. g \in BOOLEAN /\ Grip(k, k1, p, s, D, g) BY <1>1, TookGrip
<1> HIDE DEF g
<1>4. QED BY <1>3, GripSettled

\* A process has opened the inode in s.
OpenFile(k, p, s, i, w) == [k EXCEPT !.u[p].ip = 0, !.u[p].fd = s, !.u[p].fino = i, !.u[p].fw = w]

\* open makes the file the process's.
LEMMA OpenFileEff ==
  ASSUME NEW k, Types(k), NEW p \in Proc, NEW s \in Slot, NEW i, NEW w
  PROVE  LET k1 == OpenFile(k, p, s, i, w) IN
         /\ Types(k1) /\ Only(k, k1, p) /\ KeepU(k.u[p], k1.u[p], {"ip", "fd", "fino", "fw"})
         /\ k1.u[p].ip = 0 /\ k1.u[p].fd = s /\ k1.u[p].fino = i
<1> DEFINE c == [k.u[p] EXCEPT !.ip = 0, !.fd = s, !.fino = i, !.fw = w]
           k1 == OpenFile(k, p, s, i, w)
           j == [k EXCEPT !.u[p] = c]
<1>0. UserOK(k.u[p]) /\ k.u[p] = [f \in UserF |-> k.u[p][f]] BY DEF Types, UsersOK, UserOK
<1>1. k1 = j BY DEF OpenFile
<1>2. c = [f \in UserF |-> c[f]] /\ c.ip = 0 /\ c.fd = s /\ c.fino = i /\ KeepU(k.u[p], c, {"ip", "fd", "fino", "fw"})
  BY <1>0 DEF UserF, KeepU
<1> HIDE DEF c
<1>3. UserOK(c) BY <1>0, <1>2, SlotFacts DEF UserOK, KeepU, UserF
<1>4. Types(j) /\ Only(k, j, p) /\ j.u[p] = c BY <1>3, SetUser
<1> HIDE DEF k1, j
<1>5. QED BY <1>1, <1>2, <1>4 DEF k1

\* open1.
LEMMA Open1Good ==
  ASSUME NEW k, k = K, NEW X, Good(k, X), NEW p \in Proc, Open1(p)
  PROVE  \E k1 : Become(k1) /\ Good(k1, X)
<1> DEFINE c == k.u[p]
           s == c.ip
           kp == Prele(k, s)
           w == c.op = "creat"
           ka == Goto(OpenFile(kp, p, s, c.key, w), p, <<>>)
           kb == Iput([kp EXCEPT !.u[p].ip = 0], p, s, <<>>)
<1>1. At(p, "open1") /\ (Become(ka) \/ Become(kb)) BY KFacts DEF Open1, OpenFile
<1>2. LastFacts(k, p, "open1") BY <1>1, LastAt DEF LastL, WithIp
<1>3. "open1" \in WithIp /\ "open1" \notin WithDip \cup WithRip \cup WithMip \cup Owner /\ "open1" \in Named
  BY DEF WithDip, WithIp, WithRip, WithMip, Owner, Named
<1>4. /\ c.chan = Awake /\ Bot(c.pc) = "open1" /\ Types(k) /\ c.put = 0 /\ Up(c) = 0 /\ c.fd = 0
      /\ c.dip = 0 /\ c.rip = 0 /\ c.mip = 0 /\ c.ip # 0 /\ Rip(c) = 0
      /\ k.node[s].ino = c.key /\ c.key \in InFs
  BY <1>2, <1>3 DEF LastFacts, FdOK, Opens, Rip, PathAt
<1>5. s \in Slot BY <1>4, HandTypes
<1> HIDE DEF c, w
<1>6. /\ Types(kp) /\ SameRest(k, kp) /\ NodeBut(k, kp, s)
      /\ KeepN(k.node[s], kp.node[s], {"lock", "want"}) /\ ~kp.node[s].lock
      /\ \A q \in Proc : /\ KeepU(k.u[q], kp.u[q], {"chan"})
                         /\ kp.u[q].chan = IF k.node[s].want /\ k.u[q].chan = On(s) THEN Awake
                                           ELSE k.u[q].chan
  BY <1>4, <1>5, PreleEff
<1> HIDE DEF kp
<1>7. kp.u[p].chan = Awake BY <1>4, <1>6 DEF c
<1>8. /\ \A t \in Slot : KeepN(k.node[t], kp.node[t], {"lock", "want"})
      /\ \A t \in Slot \ {s} : kp.node[t] = k.node[t]
  BY <1>6 DEF NodeBut, KeepN
<1>9. \A t \in Slot : RefP(c, t) = B(s = t)
  <2>1. ASSUME NEW t \in Slot PROVE RefP(c, t) = B(s = t)
    <3>1. B(0 = t) = 0 BY SlotFacts DEF B
    <3>2. B(s = t) \in Nat BY DEF B
    <3>3. QED BY <1>4, <3>1, <3>2 DEF RefP
  <2>2. QED BY <2>1
<1>10. \A t \in Slot : HoldP(c, t) <=> t = s BY <1>4, SlotFacts DEF HoldP
<1>11. Good(ka, X)
  <2> DEFINE kq == OpenFile(kp, p, s, c.key, w)
             c1 == ka.u[p]
  <2>1. /\ Types(kq) /\ Only(kp, kq, p) /\ KeepU(kp.u[p], kq.u[p], {"ip", "fd", "fino", "fw"})
        /\ kq.u[p].ip = 0 /\ kq.u[p].fd = s /\ kq.u[p].fino = c.key
    BY <1>5, <1>6, OpenFileEff
  <2> HIDE DEF kq
  <2>2. Types(ka) /\ Only(kq, ka, p) /\ GoneTo(kq.u[p], ka.u[p], <<>>) BY <2>1, GotoEff, EmptyStack DEF kq
  <2> HIDE DEF ka
  <2>3. /\ c1.pc = <<>> /\ c1.ip = 0 /\ c1.dip = 0 /\ c1.put = 0 /\ c1.rip = 0 /\ c1.mip = 0 /\ c1.op = ""
        /\ c1.fd = s /\ c1.fino = c.key /\ c1.chan = Awake
    BY <2>1, <2>2 DEF GoneTo
  <2>4. ka.node = kp.node /\ ka.fs = kp.fs /\ ka.freel = kp.freel BY <2>1, <2>2 DEF Only
  <2>5. \A q \in Proc \ {p} : ka.u[q] = kp.u[q] BY <2>1, <2>2 DEF Only
  <2>6. kp.freel = k.freel /\ kp.fs = k.fs BY <1>6 DEF SameRest
  <2>7. Others(k, ka, p) BY <1>6, <2>5 DEF Others
  <2> HIDE DEF c1
  <2>8. ProcOK(c1) /\ \A t \in Slot : RefP(c1, t) = B(c1.fd = t) /\ ~HoldP(c1, t) BY <2>3, OutHands
  <2>9. Loose(k, ka, p, {s})
    <3>1. ASSUME NEW t \in Slot
          PROVE  /\ ka.node[t].ino = k.node[t].ino /\ ka.node[t].mroot = k.node[t].mroot
                 /\ ka.node[t].count = k.node[t].count
                 /\ ka.node[t].lock <=> (k.node[t].lock /\ t \notin {s})
                 /\ k.node[t].want /\ t \notin {s} => ka.node[t].want
      BY <1>6, <1>8, <2>4 DEF KeepN, NodeF
    <3>2. \A t \in Slot : RefP(c1, t) = RefP(c, t)
      <4>1. \A t \in Slot : B(c1.fd = t) = B(s = t) BY <2>3 DEF B
      <4>2. QED BY <1>9, <2>8, <4>1
    <3>3. \A t \in Slot : HoldP(c1, t) <=> (HoldP(c, t) /\ t \notin {s}) BY <1>10, <2>8 DEF c
    <3>4. HoldP(c, s) BY <1>5, <1>10 DEF c
    <3>5. \A q \in Proc \ {p} : k.node[s].want => ka.u[q].chan # On(s) BY <1>5, <1>6, <2>5, AwakeOn
    <3>8. \A t \in Slot : RefP(ka.u[p], t) = RefP(k.u[p], t) BY <3>2 DEF c, c1
    <3>9. \A t \in Slot : HoldP(ka.u[p], t) <=> (HoldP(k.u[p], t) /\ t \notin {s}) BY <3>3 DEF c, c1
    <3>10. \A t \in {s} : HoldP(k.u[p], t) BY <3>4 DEF c
    <3>11. ka.u[p].chan = Awake BY <2>3 DEF c1
    <3>12. ka.freel = k.freel /\ ka.fs.ilock = k.fs.ilock BY <2>4, <2>6
    <3>6. Loose(k, ka, p, {s})
      BY ONLY <2>2, <2>7, <3>1, <3>5, <3>8, <3>9, <3>10, <3>11, <3>12 DEF Loose
    <3>7. QED BY <3>6
  <2>10. PathAt(k, c1, Bot(c1.pc)) /\ Empty(ka, c1) /\ Bot(c1.pc) \notin Owner
    <3>1. k.node[c1.fd].ino = c1.fino /\ c1.fino \in InFs BY <1>4, <2>3 DEF c
    <3>2. PathAt(k, c1, Bot(c1.pc)) /\ Bot(c1.pc) \notin Owner BY <2>3, <3>1, OutPath
    <3>3. Bot(c1.pc) = "" BY <2>3 DEF Bot
    <3>4. QED BY <3>2, <3>3 DEF Empty
  <2>11. RootOwned(k, c1)
    <3>1. "root" \notin InFs BY InodeAssumption DEF InFs
    <3>2. \A t \in Slot : RefP(c1, t) # 0 => t = s BY <2>3, <2>8 DEF B
    <3>3. QED BY <1>4, <3>1, <3>2 DEF RootOwned, c
  <2>12. \A t \in Slot : ~OwnsRoot(c, t) BY <1>3, <1>4 DEF OwnsRoot, c
  <2>13. PutOK(ka, c1) BY <2>3 DEF PutOK
  <2>14. \A t \in Slot : ka.node[t].mpoint = k.node[t].mpoint BY <1>8, <2>4 DEF KeepN, NodeF
  <2>15. ka.fs.mdev = k.fs.mdev BY <2>4, <2>6
  <2>16. s \in Slot /\ {s} \in SUBSET Slot BY <1>5
  <2>17. /\ ProcOK(ka.u[p]) /\ Bot(ka.u[p].pc) \notin Owner /\ PathAt(k, ka.u[p], Bot(ka.u[p].pc))
         /\ RootOwned(k, ka.u[p]) /\ Empty(ka, ka.u[p]) /\ PutOK(ka, ka.u[p])
         /\ \A t \in Slot : ~OwnsRoot(k.u[p], t)
    BY <2>8, <2>10, <2>11, <2>12, <2>13 DEF c, c1
  <2>18. Bot(ka.u[p].pc) \in Owner => Bot(k.u[p].pc) \in Owner /\ ka.fs.mdev /\ ~IsMounted(k) BY <2>17
  <2>19. \A t \in Slot : OwnsRoot(k.u[p], t) /\ k.node[t].ino = "root" => OwnsRoot(ka.u[p], t) BY <2>17
  <2>20. Settled(k, ka, p) BY ONLY <2>14, <2>15, <2>17, <2>18, <2>19 DEF Settled
  <2>21. QED BY <2>9, <2>16, <2>20, LooseGood
<1>12. Good(kb, X)
  <2> DEFINE k0 == [kp EXCEPT !.u[p].ip = 0]
             c0 == k0.u[p]
  <2>0. Types(kp) /\ 0 \in Opt BY <1>6, SlotFacts
  <2>1. Types(k0) /\ Only(kp, k0, p) /\ KeepU(kp.u[p], k0.u[p], {"ip"}) /\ k0.u[p].ip = 0
    BY <2>0, SetIp
  <2>2. kb = Iput(k0, p, s, <<>>) OBVIOUS
  <2> HIDE DEF k0
  <2>3. KeepU(c, kp.u[p], {"chan"}) BY <1>6 DEF c
  <2>4. /\ c0.ip = 0 /\ c0.dip = 0 /\ c0.put = 0 /\ c0.rip = 0 /\ c0.mip = 0 /\ c0.fd = 0 /\ c0.chan = Awake
        /\ c0.op = c.op /\ c0.name = c.name
    BY <1>4, <1>7, <2>1, <2>3 DEF KeepU, UserF, c
  <2>5. k0.node = kp.node /\ k0.fs = k.fs /\ k0.freel = k.freel /\ \A q \in Proc \ {p} : k0.u[q] = kp.u[q]
    BY <1>6, <2>1 DEF Only, SameRest
  <2>6. Prep(k, k0, p, s)
    <3>1. \A t \in Slot \ {s} : KeepN(k.node[t], k0.node[t], Dull) BY <1>8, <2>5 DEF KeepN
    <3>2. KeepN(k.node[s], k0.node[s], Dull \cup {"lock", "want"}) BY <1>6, <2>5 DEF KeepN
    <3>3. Others(k, k0, p) BY <1>6, <2>5 DEF Others
    <3>4. \A q \in Proc \ {p} : k0.u[q].chan = On(s) /\ k.node[s].lock /\ k.node[s].want => k0.node[s].want
      BY <1>5, <1>6, <2>5, AwakeOn
    <3>5. QED BY <2>1, <2>4, <2>5, <3>1, <3>2, <3>3, <3>4 DEF Prep
  <2>7. HandOK(c0, <<>>)
    <3>1. c0.op \in {"open", "creat", "exec", "unlink"} => c0.name \in Name BY <1>2, <2>4 DEF LastFacts, HandOK, c
    <3> HIDE DEF c0
    <3>2. QED BY <2>4, <3>1, EmptyStack, OpensIn DEF HandOK
  <2>8. Given(k, k0, p, s, <<>>)
    <3>1. ASSUME NEW t \in Slot PROVE RefP(c, t) = RefQ(c0, t) + B(s = t)
      <4>1. B(0 = t) = 0 /\ Rip(c0) = 0 /\ B(s = t) \in Nat BY <2>4, SlotFacts DEF B, Rip
      <4>2. QED BY <1>9, <2>4, <4>1 DEF RefQ, c
    <3>2. ASSUME NEW t \in Slot \ {s} PROVE HoldP(c, t) <=> HoldQ(c0, t, Bot(<<>>))
      BY <1>10, <2>4, SlotFacts DEF HoldQ, c
    <3>3. Top(<<>>) \notin LeafL BY EmptyStack
    <3>4. QED BY <2>4, <2>7, <3>1, <3>2, <3>3 DEF Given, c
  <2>9. GiveLock(k, k0, p, s, <<>>)
    <3>1. HoldP(c, s) BY <1>5, <1>10 DEF c
    <3>2. ~HoldQ(c0, s, Bot(<<>>)) BY <1>5, <2>4, SlotFacts DEF HoldQ
    <3>3. QED BY <3>1, <3>2 DEF GiveLock, c
  <2>10. Onward(k, k0, p, s, <<>>)
    <3>1. PathAt(k, c0, "")
      <4>1. "" \notin Named \cup WithDip BY EmptyStack
      <4>2. QED BY <2>4, <4>1 DEF PathAt
    <3>2. "" \notin Owner /\ Bot(<<>>) = "" BY EmptyStack
    <3>3. Bot(c.pc) \notin Owner BY <1>3, <1>4 DEF c
    <3>4. QED BY <2>5, <3>1, <3>2, <3>3 DEF Onward, c
  <2>11. Gave(k0, kb, p, s, <<>>)
    <3>1. RefP(c, s) # 0 BY <1>5, <1>9 DEF B, c
    <3>2. k.node[s].ino # "none" /\ k.node[s].count # 0 BY <1>5, <3>1, RefIno DEF Good, c
    <3>3. k0.node[s].ino = k.node[s].ino /\ k0.node[s].count = k.node[s].count
      BY <1>6, <2>5 DEF KeepN, NodeF
    <3>4. QED BY <1>5, <2>1, <2>2, <2>4, <3>2, <3>3, IputEff, EmptyStack DEF Gave
  <2> HIDE DEF kb
  <2>12. QED BY <1>5, <2>6, <2>8, <2>9, <2>10, <2>11, GiveGood, EmptyStack DEF c
<1>13. QED BY <1>1, <1>11, <1>12

\* Arithmetic.
LEMMA ZeroSum ==
  ASSUME NEW x, NEW y \in Nat, NEW z, z = 0, x = z + z + y + z + z + z PROVE x = y
OBVIOUS

\* A process in update, in sync or in the middle of fsoff: it has no inode by ip, dip or put.
UpdFacts(c, l) ==
  /\ c.chan = Awake /\ c.pc \in Seq(Label) /\ c.pc # <<>> /\ Top(c.pc) = l
  /\ c.ip = 0 /\ c.dip = 0 /\ c.put = 0 /\ ~Walk(c)
  /\ Bot(c.pc) \in {"fsoff", "iputrip", "update0", "update", "upput"}
  /\ Tail(c.pc) \in Seq(Label) /\ StackOK(Tail(c.pc)) /\ Top(Tail(c.pc)) \notin LeafL
  /\ Tail(c.pc) # <<>> => Bot(Tail(c.pc)) = Bot(c.pc)
  /\ Tail(c.pc) = <<>> => Bot(c.pc) = l /\ Bot(Tail(c.pc)) = "" /\ c.rip = 0 /\ c.mip = 0

\* update is called by sync, fsoff and iputrip.
LEMMA UpdBots ==
  \A b \in {"fsoff", "iputrip", "update0", "update", "upput"} :
    /\ b \notin WithDip \cup WithIp \cup PerhapsIp \cup Named \cup Opens
    /\ b \notin {"got", "more", "unhang", "closef", "plockdir", "putdir", "fson", "fson2", "fson3", "dir", ""}
    /\ b \in Owner => b = "iputrip"
    /\ b \in WithRip => b \in {"fsoff", "iputrip"}
    /\ b \in WithMip => b = "fsoff"
BY DEF WithDip, WithIp, PerhapsIp, Named, Opens, Owner, WithRip, WithMip

\* A process in update.
LEMMA UpdAt ==
  ASSUME NEW k, k = K, NEW p \in Proc, NEW l \in {"update", "upput"}, At(p, l), NEW X, Good(k, X)
  PROVE  /\ UpdFacts(k.u[p], l) /\ Rest(p) = Tail(k.u[p].pc)
         /\ Types(k) /\ HandOK(k.u[p], k.u[p].pc) /\ Apart(k.u[p]) /\ PathOK(k, k.u[p]) /\ UserOK(k.u[p])
<1> DEFINE c == k.u[p]
<1>1. /\ c.chan = Awake /\ c.pc # <<>> /\ Top(c.pc) = l /\ Rest(p) = Tail(c.pc)
      /\ Types(k) /\ HandOK(c, c.pc) /\ Apart(c) /\ PathOK(k, c) /\ c.pc \in Seq(Label) /\ StackOK(c.pc) /\ UserOK(c)
  BY AtFacts
<1> HIDE DEF c
<1>2. /\ Tail(c.pc) \in Seq(Label) /\ StackOK(Tail(c.pc)) /\ Top(Tail(c.pc)) \notin LeafL
      /\ Tail(c.pc) # <<>> => Bot(Tail(c.pc)) = Bot(c.pc)
      /\ Tail(c.pc) = <<>> => Bot(c.pc) = l
      /\ Below(l, Bot(c.pc))
  BY <1>1, StackPop
<1>3. Bot(c.pc) \in {"fsoff", "iputrip", "update0", "update", "upput"} BY <1>2 DEF Below
<1>4. c.ip = 0 /\ c.dip = 0 BY <1>1, <1>3, UpdBots DEF HandOK
<1>5. c.put = 0 BY <1>1 DEF HandOK
<1>6. ~Walk(c) BY <1>3 DEF Walk
<1>7. Tail(c.pc) = <<>> => Bot(Tail(c.pc)) = "" /\ c.rip = 0 /\ c.mip = 0
  BY <1>1, <1>2, UpdBots DEF HandOK, Bot
<1>8. UpdFacts(c, l) BY <1>1, <1>2, <1>3, <1>4, <1>5, <1>6, <1>7 DEF UpdFacts
<1>9. QED BY <1>1, <1>8 DEF c

\* Who has an inode in none but up, rip and the open file.
LEMMA UpdHands ==
  ASSUME NEW c, c.ip = 0, c.dip = 0, c.put = 0, NEW t \in Slot
  PROVE  /\ RefP(c, t) = B(c.fd = t) + B(Up(c) = t) + B(Rip(c) = t)
         /\ RefQ(c, t) = B(c.fd = t) + B(Rip(c) = t)
         /\ HoldP(c, t) <=> (c.rip = t \/ Up(c) = t)
         /\ \A b : HoldQ(c, t, b) <=> c.rip = t
         /\ B(c.fd = t) \in Nat /\ B(Up(c) = t) \in Nat /\ B(Rip(c) = t) \in Nat
<1> DEFINE z == B(0 = t)
           x == B(c.fd = t)
           y == B(Up(c) = t)
           w == B(Rip(c) = t)
<1>1. z = 0 BY SlotFacts DEF B
<1>2. x \in Nat /\ y \in Nat /\ w \in Nat BY DEF B
<1>3. RefP(c, t) = z + z + x + z + y + w BY DEF RefP
<1>4. RefQ(c, t) = z + z + x + w BY DEF RefQ
<1> HIDE DEF z, x, y, w
<1>5. RefP(c, t) = x + y + w /\ RefQ(c, t) = x + w BY ONLY <1>1, <1>2, <1>3, <1>4
<1>6. HoldP(c, t) <=> (c.rip = t \/ Up(c) = t) BY SlotFacts DEF HoldP
<1>7. \A b : HoldQ(c, t, b) <=> c.rip = t BY SlotFacts DEF HoldQ
<1>8. QED BY <1>2, <1>5, <1>6, <1>7 DEF x, y, w

\* A set of natural numbers has a least one: the next slot update comes to.
LEMMA LeastNumber ==
  ASSUME NEW S \in SUBSET Nat, S # {}
  PROVE  \E n \in S : \A m \in S : n <= m
<1> DEFINE R == OpToRel(<, Nat)
<1>1. IsWellFoundedOn(R, Nat) BY NatLessThanWellFounded
<1>2. \A x, y \in Nat : x < y => <<x, y>> \in R BY DEF OpToRel
<1> HIDE DEF R
<1>3. PICK x \in S : \A y \in S : ~(<<y, x>> \in R) BY <1>1, WFMin
<1>4. ASSUME NEW y \in S PROVE x <= y
  <2>1. ~(y < x) BY <1>2, <1>3
  <2>2. QED BY <2>1
<1>5. QED BY <1>4

\* update locks the next inode that is to be written,
LEMMA UpdateGood ==
  ASSUME NEW k, k = K, NEW X, Good(k, X), NEW p \in Proc, Update(p)
  PROVE  \E k1 : Become(k1) /\ Good(k1, X)
<1> DEFINE c == k.u[p]
           todo == {t \in Slot : t > c.up /\ ~k.node[t].lock /\ k.node[t].count > 0}
<1>1. At(p, "update") /\ fs = k.fs /\ node = k.node /\ u = k.u BY KFacts DEF Update
<1>2. /\ UpdFacts(c, "update") /\ Rest(p) = Tail(c.pc)
      /\ Types(k) /\ HandOK(c, c.pc) /\ Apart(c) /\ PathOK(k, c) /\ UserOK(c)
  BY <1>1, UpdAt
<1>3. CASE todo = {}
  <2>1. Become(Goto([k EXCEPT !.fs.updlock = FALSE], p, Tail(c.pc))) BY <1>1, <1>2, <1>3 DEF Update
  <2> DEFINE km == [k EXCEPT !.fs.updlock = FALSE]
  <2>2. Rewritten(k, km) BY <1>2, SetUpdlock
  <2> HIDE DEF km
  <2>3. Good(Goto(km, p, Tail(c.pc)), X) BY <1>2, <2>2, PopStep DEF MidL, UpdFacts
  <2>4. QED BY <2>1, <2>3 DEF km
<1>4. CASE todo # {}
  <2> DEFINE s == CHOOSE t \in todo : \A r \in todo : t <= r
             kl == Lock(k, s)
             kc == [kl EXCEPT !.node[s].count = @ + 1]
             km == SetUpd(kc, p, s)
             pc == <<"upput">> \o Tail(c.pc)
             k1 == Goto(km, p, pc)
             c1 == k1.u[p]
  <2>1. Become(Goto([kl EXCEPT !.node[s].count = @ + 1, !.u[p].up = s], p, pc)) BY <1>1, <1>2, <1>4 DEF Update
  <2>2. Become(k1) BY <2>1 DEF SetUpd
  <2>3. s \in todo
    <3>1. todo \in SUBSET Nat BY SlotFacts
    <3>2. \E m \in todo : \A r \in todo : m <= r BY <1>4, <3>1, LeastNumber
    <3>3. QED BY <3>2
  <2> HIDE DEF s
  <2>4. s \in Slot /\ ~k.node[s].lock /\ k.node[s].count > 0 BY <2>3
  <2>5. Types(kl) /\ SameRest(k, kl) /\ kl.u = k.u /\ NodeBut(k, kl, s)
        /\ KeepN(k.node[s], kl.node[s], {"lock"}) /\ kl.node[s].lock
    BY <1>2, <2>4, LockEff
  <2> HIDE DEF kl
  <2>6. /\ Types(kc) /\ SameRest(kl, kc) /\ kc.u = kl.u /\ NodeBut(kl, kc, s)
        /\ KeepN(kl.node[s], kc.node[s], {"count"}) /\ kc.node[s].count = kl.node[s].count + 1
    BY <2>4, <2>5, MoreCount
  <2> HIDE DEF kc
  <2>7. Types(km) /\ Only(kc, km, p) /\ KeepU(kc.u[p], km.u[p], {"up"}) /\ km.u[p].up = s
    BY <2>4, <2>6, SetUpdEff, SlotFacts
  <2> HIDE DEF km
  <2>8. /\ pc \in Seq(Label) /\ pc # <<>> /\ StackOK(pc) /\ Top(pc) = "upput"
        /\ Bot(pc) = IF Tail(c.pc) = <<>> THEN "upput" ELSE Bot(c.pc)
    <3> DEFINE b == c.pc
    <3>1. b \in Seq(Label) /\ StackOK(b) /\ b # <<>> /\ "upput" \in Label \ LastL
      BY <1>2, LeafFacts DEF UpdFacts, HandOK, Label
    <3>2. Below("upput", IF Tail(b) = <<>> THEN "upput" ELSE Bot(b)) BY <1>2 DEF Below, UpdFacts
    <3> HIDE DEF b
    <3>3. LET pc1 == <<"upput">> \o Tail(b) IN
           /\ pc1 \in Seq(Label) /\ pc1 # <<>> /\ StackOK(pc1) /\ Top(pc1) = "upput"
           /\ Bot(pc1) = IF Tail(b) = <<>> THEN "upput" ELSE Bot(b)
      BY <3>1, <3>2, OverTop
    <3>4. QED BY <3>3 DEF b
  <2> HIDE DEF pc
  <2>9. Types(k1) /\ Only(km, k1, p) /\ GoneTo(km.u[p], k1.u[p], pc) BY <2>7, <2>8, GotoEff
  <2> HIDE DEF k1
  <2>10. /\ c1.pc = pc /\ c1.up = s
         /\ c1.ip = c.ip /\ c1.dip = c.dip /\ c1.put = c.put /\ c1.rip = c.rip /\ c1.mip = c.mip /\ c1.fd = c.fd
         /\ c1.fino = c.fino /\ c1.op = c.op /\ c1.key = c.key /\ c1.name = c.name /\ c1.chan = c.chan
    <3>1. km.u[p].up = s /\ KeepU(c, km.u[p], {"up"}) BY <2>5, <2>6, <2>7 DEF KeepU
    <3>2. KeepU(km.u[p], c1, {"pc"}) /\ c1.pc = pc BY <2>8, <2>9 DEF GoneTo, KeepU
    <3> HIDE DEF c, c1
    <3>3. QED BY <3>1, <3>2 DEF KeepU, UserF
  <2>11. /\ k1.node = kc.node /\ k1.fs = k.fs /\ k1.freel = k.freel
         /\ \A q \in Proc \ {p} : k1.u[q] = k.u[q]
    BY <2>5, <2>6, <2>7, <2>9 DEF Only, SameRest
  <2>12. /\ NodeBut(k, k1, s) /\ KeepN(k.node[s], k1.node[s], {"lock", "count"})
         /\ k1.node[s].lock /\ k1.node[s].count = k.node[s].count + 1
    BY <2>4, <2>5, <2>6, <2>11 DEF NodeBut, KeepN, NodeF
  <2> HIDE DEF c, c1, todo
  <2>13. /\ c1.ip = 0 /\ c1.dip = 0 /\ c1.put = 0 /\ c.ip = 0 /\ c.dip = 0 /\ c.put = 0 /\ c1.chan = Awake
         /\ Up(c1) = s /\ Up(c) = 0 /\ Rip(c1) = Rip(c)
    <3>1. Top(c1.pc) = "upput" /\ Top(c.pc) # "upput" BY <1>2, <2>8, <2>10 DEF UpdFacts
    <3>2. QED BY <3>1, <1>2, <2>10 DEF UpdFacts, Up, Rip
  <2>14. ASSUME NEW t \in Slot
         PROVE  /\ RefP(c1, t) = RefP(c, t) + B(s = t)
                /\ HoldP(c1, t) <=> (HoldP(c, t) \/ t = s)
    <3>1. /\ RefP(c, t) = B(c.fd = t) + B(Up(c) = t) + B(Rip(c) = t)
          /\ HoldP(c, t) <=> (c.rip = t \/ Up(c) = t)
          /\ B(c.fd = t) \in Nat /\ B(Rip(c) = t) \in Nat
      BY <2>13, UpdHands
    <3>2. /\ RefP(c1, t) = B(c1.fd = t) + B(Up(c1) = t) + B(Rip(c1) = t)
          /\ HoldP(c1, t) <=> (c1.rip = t \/ Up(c1) = t)
      BY <2>13, UpdHands
    <3> DEFINE x == B(c.fd = t)
               w == B(Rip(c) = t)
               z == B(0 = t)
               y == B(s = t)
    <3>3. z = 0 /\ y \in Nat BY SlotFacts DEF B
    <3>4. RefP(c, t) = x + z + w /\ RefP(c1, t) = x + y + w /\ x \in Nat /\ w \in Nat
      BY <2>10, <2>13, <3>1, <3>2
    <3> HIDE DEF x, y, z, w
    <3>5. RefP(c1, t) = RefP(c, t) + y BY ONLY <3>3, <3>4
    <3>6. HoldP(c1, t) <=> (HoldP(c, t) \/ t = s) BY <2>10, <2>13, <3>1, <3>2, SlotFacts
    <3>7. QED BY <3>5, <3>6 DEF y
  <2>15. k.node[s].ino # "none" BY <2>4 DEF Good, Core, TableInv
  <2>16. Took(k, k1, p, s, {})
    <3>1. Others(k, k1, p) BY <2>11 DEF Others, KeepU
    <3>2. ASSUME NEW t \in Slot
          PROVE  /\ k1.node[t].ino = k.node[t].ino /\ k1.node[t].mroot = k.node[t].mroot
                 /\ t # s => /\ k1.node[t].count = k.node[t].count
                             /\ k1.node[t].lock <=> (k.node[t].lock /\ t \notin {})
                 /\ k.node[t].want /\ t \notin {} => k1.node[t].want
      <4>1. CASE t = s BY <4>1, <2>12 DEF KeepN, NodeF
      <4>2. CASE t # s BY <4>2, <2>12 DEF NodeBut
      <4>3. QED BY <4>1, <4>2
    <3>3. \A t \in Slot : /\ RefP(k1.u[p], t) = RefP(k.u[p], t) + B(s = t)
                          /\ HoldP(k1.u[p], t) <=> ((HoldP(k.u[p], t) /\ t \notin {}) \/ t = s)
      BY <2>14 DEF c, c1
    <3>4. k1.u[p].chan = Awake BY <2>13 DEF c1
    <3>5. \A q \in Proc \ {p} : k1.u[q].chan = <<"ilock", 0>> /\ k.fs.ilock => k1.fs.ilock BY <2>11
    <3>6. QED BY ONLY <2>4, <2>9, <2>11, <2>12, <2>15, <3>1, <3>2, <3>3, <3>4, <3>5 DEF Took
  <2>17. Settled(k, k1, p)
    <3>1. \A t \in Slot : k1.node[t].mpoint = k.node[t].mpoint
      BY <2>12 DEF NodeBut, KeepN, NodeF
    <3>2. k1.fs.mdev = k.fs.mdev BY <2>11
    <3>3. Bot(c1.pc) \in {Bot(c.pc), "upput"} BY <2>8, <2>10
    <3>3a. Bot(c.pc) # Bot(c1.pc) => Tail(c.pc) = <<>> /\ Bot(c.pc) = "update" /\ Bot(c1.pc) = "upput" /\ c.rip = 0 /\ c.mip = 0
      BY <1>2, <2>8, <2>10 DEF UpdFacts
    <3>4. Bot(c.pc) \in {"fsoff", "iputrip", "update0", "update", "upput"} BY <1>2 DEF UpdFacts
    <3>4a. Bot(c1.pc) \in {"fsoff", "iputrip", "update0", "update", "upput"} BY <3>3, <3>4
    <3>5. Bot(c1.pc) \in Owner <=> Bot(c.pc) \in Owner BY <3>3a DEF Owner
    <3>6. Bot(k1.u[p].pc) \in Owner => Bot(k.u[p].pc) \in Owner /\ k1.fs.mdev /\ ~IsMounted(k)
      BY <1>2, <2>11, <3>5 DEF PathOK, c, c1
    <3>7. \A t \in Slot : OwnsRoot(k.u[p], t) /\ k.node[t].ino = "root" => OwnsRoot(k1.u[p], t)
      BY <2>10, <2>13, <3>5 DEF OwnsRoot, c, c1
    <3>8. ProcOK(c1)
      <4>1. FdOK(c1, Bot(c1.pc))
        <5>1. FdOK(c, Bot(c.pc)) BY <1>2, HandFd
        <5>2. Bot(c1.pc) \notin Opens \cup {"putdir", "got"} BY <3>4a, UpdBots
        <5>3. QED BY <5>1, <5>2, <2>10 DEF FdOK
      <4>2. Top(c1.pc) = "upput" /\ StackOK(c1.pc) /\ c1.up # 0 BY <2>4, <2>8, <2>10, SlotFacts
      <4>3. Bot(c1.pc) \notin WithDip \cup WithIp \cup PerhapsIp \cup {"closef", "more", "plockdir", "unhang", "funmount"}
        BY <3>4a, UpdBots
      <4>4. /\ c1.rip # 0 <=> Bot(c1.pc) \in WithRip
            /\ c1.mip # 0 <=> Bot(c1.pc) \in WithMip
            /\ Bot(c1.pc) \in {"funmount", "fsoff", "unhang"} => c1.op = "unmount"
        <5>1. CASE Bot(c1.pc) = Bot(c.pc) BY <5>1, <1>2, <2>10 DEF HandOK
        <5>2. CASE Bot(c1.pc) # Bot(c.pc) BY <5>2, <2>10, <3>3a DEF WithRip, WithMip
        <5>3. QED BY <5>1, <5>2
      <4>5. c1.op \in {"open", "creat", "exec", "unlink"} => c1.name \in Name BY <1>2, <2>10 DEF HandOK
      <4>6. HandOK(c1, c1.pc) BY <4>1, <4>2, <4>3, <4>4, <4>5, <2>13 DEF HandOK, FdOK
      <4>7. Apart(c1)
        <5>1. c.rip # s
          <6>1. HoldP(c, s) => k.node[s].lock BY <2>4 DEF Good, Core, LockInv, c
          <6>2. QED BY <6>1, <2>4 DEF HoldP
        <5>2. QED BY <5>1, <2>10, <2>13 DEF Apart
      <4>8. QED BY <4>6, <4>7 DEF ProcOK
    <3>9. PathAt(k, c1, Bot(c1.pc))
      <4>1. Bot(c1.pc) \notin Named \cup WithDip \cup {"fson", "fson2", "fson3", "dir", "more", "plockdir", "unhang"}
        BY <3>4a, UpdBots
      <4>2. c1.fd # 0 => k.node[c1.fd].ino = c1.fino /\ c1.fino \in InFs BY <1>2, <2>10 DEF PathOK
      <4>3. Bot(c1.pc) = "fsoff" => k.node[c1.mip].mroot = c1.rip BY <1>2, <2>10, <3>3 DEF PathOK
      <4>4. QED BY <4>1, <4>2, <4>3 DEF PathAt
    <3>10. RootOwned(k, c1)
      <4> SUFFICES ASSUME NEW t \in Slot, RefP(c1, t) # 0, k.node[t].ino = "root", ~IsMounted(k)
                   PROVE  Bot(c1.pc) \in Owner
        BY DEF RootOwned
      <4>1. CASE RefP(c, t) # 0 BY <4>1, <1>2, <3>5 DEF PathOK
      <4>2. CASE RefP(c, t) = 0
        <5>1. t = s BY <4>2, <2>14 DEF B
        <5>5. OwnerInv(k) BY DEF Good, Mounts
        <5>6. k.node[s].ino = "root" BY <5>1
        <5>7. ~\E m \in Slot : k.node[m].mroot = s BY <2>4, SlotFacts DEF IsMounted
        <5>2. PICK q \in Proc : OwnsRoot(k.u[q], s) BY <2>4, <5>5, <5>6, <5>7 DEF OwnerInv
        <5>3. HoldP(k.u[q], s) BY <5>2 DEF OwnsRoot, HoldP
        <5>4. QED BY <5>3, <2>4 DEF Good, Core, LockInv
      <4>3. QED BY <4>1, <4>2
    <3>11. Empty(k1, c1) BY <3>4a, UpdBots DEF Empty
    <3>12. PutOK(k1, c1) BY <2>13 DEF PutOK
    <3>13. QED BY ONLY <3>1, <3>2, <3>6, <3>7, <3>8, <3>9, <3>10, <3>11, <3>12 DEF Settled, c1
  <2>18. {} \in SUBSET Slot OBVIOUS
  <2>19. Good(k1, X)
    <3> DEFINE D == {}
    <3>1. D \in SUBSET Slot /\ Took(k, k1, p, s, D) BY <2>16
    <3> HIDE DEF D
    <3>2. QED BY <2>4, <2>17, <3>1, TookGood
  <2>20. QED BY <2>2, <2>19
<1>5. QED BY <1>3, <1>4

\* and gives it up.
LEMMA UpputGood ==
  ASSUME NEW k, k = K, NEW X, Good(k, X), TextsIn(k, X), NEW p \in Proc, Upput(p)
  PROVE  \E k1 : Become(k1) /\ Good(k1, X)
<1> DEFINE c == k.u[p]
           s == c.up
           rest == <<"update">> \o Tail(c.pc)
<1>1. At(p, "upput") /\ u = k.u BY KFacts DEF Upput
<1>2. /\ UpdFacts(c, "upput") /\ Rest(p) = Tail(c.pc)
      /\ Types(k) /\ HandOK(c, c.pc) /\ Apart(c) /\ PathOK(k, c) /\ UserOK(c)
  BY <1>1, UpdAt
<1>3. PICK j : j \in Written(k, s) \cup {k} /\ Become(Iput(j, p, s, rest)) BY <1>1, <1>2 DEF Upput
<1> DEFINE k1 == Iput(j, p, s, rest)
<1>4. s \in Slot
  <2>1. s # 0 BY <1>2 DEF HandOK, UpdFacts
  <2>2. QED BY <2>1, <1>2 DEF UserOK, Opt
<1>5. Rewritten(k, j) BY <1>2, <1>3, <1>4, WrittenEff, RewrittenSame
<1>6. RewSides(k, j, p) BY <1>5, RewFacts
<1>7. /\ c.ip = 0 /\ c.dip = 0 /\ c.put = 0 /\ Up(c) = s /\ c.rip # s /\ Rip(c) # s
  <2>1. Up(c) = s BY <1>2 DEF UpdFacts, Up
  <2>2. c.rip # s BY <1>2, <1>4, <2>1, SlotFacts DEF Apart
  <2>3. QED BY <2>1, <2>2, <1>2, <1>4, SlotFacts DEF UpdFacts, Rip
<1>8. /\ rest \in Seq(Label) /\ rest # <<>> /\ StackOK(rest) /\ Top(rest) = "update"
      /\ Bot(rest) = IF Tail(c.pc) = <<>> THEN "update" ELSE Bot(c.pc)
  <2> DEFINE b == c.pc
  <2>1. b \in Seq(Label) /\ StackOK(b) /\ b # <<>> /\ "update" \in Label \ LastL
    BY <1>2, LeafFacts DEF UpdFacts, HandOK, Label, MidL
  <2>2. Below("update", IF Tail(b) = <<>> THEN "update" ELSE Bot(b)) BY <1>2 DEF Below, UpdFacts
  <2> HIDE DEF b
  <2>3. LET pc1 == <<"update">> \o Tail(b) IN
         /\ pc1 \in Seq(Label) /\ pc1 # <<>> /\ StackOK(pc1) /\ Top(pc1) = "update"
         /\ Bot(pc1) = IF Tail(b) = <<>> THEN "update" ELSE Bot(b)
    BY <2>1, <2>2, OverTop
  <2>4. QED BY <2>3 DEF b
<1> HIDE DEF rest, s, k1
<1>9. j.u = k.u /\ j.fs.mdev = k.fs.mdev /\ Types(j) /\ j.u[p] = c BY <1>6 DEF RewSides
<1> HIDE DEF c
<1>10. k.node[s].ino # "none" /\ k.node[s].count # 0
  <2>1. RefP(c, s) # 0 BY <1>4, <1>7, HandRef
  <2>2. QED BY <2>1, <1>4, RefIno DEF Good, c
<1>11. j.node[s].ino # "none" /\ j.node[s].count # 0 BY <1>4, <1>6, <1>10, DullFacts DEF RewSides
<1>12. Gave(j, k1, p, s, rest)
  <2>1. j.u[p].chan = Awake BY <1>2, <1>9 DEF UpdFacts
  <2>2. QED BY <2>1, <1>4, <1>8, <1>9, <1>11, IputEff DEF Gave, k1
<1>13. Bot(c.pc) \in {"fsoff", "iputrip", "update0", "update", "upput"}
       /\ Bot(rest) \in {"fsoff", "iputrip", "update0", "update", "upput"}
       /\ (Bot(rest) # Bot(c.pc) => Bot(rest) = "update" /\ Bot(c.pc) = "upput" /\ c.rip = 0 /\ c.mip = 0)
  BY <1>2, <1>8 DEF UpdFacts
<1>14. HandOK(c, rest)
  <2>1. Bot(rest) \notin WithDip \cup WithIp \cup PerhapsIp \cup Opens
                         \cup {"closef", "more", "plockdir", "unhang", "funmount", "putdir", "got"}
    BY <1>13, UpdBots, OpensIn DEF WithIp, PerhapsIp
  <2>2. FdOK(c, Bot(rest))
    <3>1. FdOK(c, Bot(c.pc)) BY <1>2, HandFd
    <3>2. QED BY <3>1, <2>1 DEF FdOK
  <2>3. /\ c.rip # 0 <=> Bot(rest) \in WithRip
        /\ c.mip # 0 <=> Bot(rest) \in WithMip
        /\ Bot(rest) \in {"funmount", "fsoff", "unhang"} => c.op = "unmount"
    <3>1. CASE Bot(rest) = Bot(c.pc) BY <3>1, <1>2 DEF HandOK
    <3>2. CASE Bot(rest) # Bot(c.pc) BY <3>2, <1>13 DEF WithRip, WithMip
    <3>3. QED BY <3>1, <3>2
  <2>4. c.op \in {"open", "creat", "exec", "unlink"} => c.name \in Name BY <1>2 DEF HandOK
  <2>5. QED BY <1>7, <1>8, <2>1, <2>2, <2>3, <2>4 DEF HandOK, FdOK
<1>15. Prep(k, j, p, s)
  <2>1. \A t \in Slot : KeepN(k.node[t], j.node[t], Dull) BY <1>6 DEF RewSides, SameNodes
  <2>2. KeepN(k.node[s], j.node[s], Dull \cup {"lock", "want"}) BY <2>1, <1>4 DEF KeepN
  <2>3. Others(k, j, p) BY <1>6 DEF RewSides
  <2>4. j.node[s].want = k.node[s].want BY <2>1, <1>4 DEF KeepN, NodeF, Dull
  <2>5. j.u[p].chan = Awake BY <1>2, <1>9 DEF UpdFacts
  <2>6. j.freel = k.freel /\ j.fs.ilock = k.fs.ilock BY <1>6 DEF RewSides
  <2>7. QED BY ONLY <1>9, <2>1, <2>2, <2>3, <2>4, <2>5, <2>6 DEF Prep
<1>16. Given(k, j, p, s, rest)
  <2>1. ASSUME NEW t \in Slot PROVE RefP(c, t) = RefQ(c, t) + B(s = t)
    <3>1. /\ RefP(c, t) = B(c.fd = t) + B(Up(c) = t) + B(Rip(c) = t)
          /\ RefQ(c, t) = B(c.fd = t) + B(Rip(c) = t)
          /\ B(c.fd = t) \in Nat /\ B(Up(c) = t) \in Nat /\ B(Rip(c) = t) \in Nat
      BY <1>7, UpdHands
    <3> DEFINE x == B(c.fd = t)
               w == B(Rip(c) = t)
               y == B(Up(c) = t)
    <3>2. RefP(c, t) = x + y + w /\ RefQ(c, t) = x + w /\ x \in Nat /\ y \in Nat /\ w \in Nat BY <3>1
    <3>3. y = B(s = t) BY <1>7
    <3> HIDE DEF x, y, w
    <3>4. RefP(c, t) = RefQ(c, t) + y BY ONLY <3>2
    <3>5. QED BY <3>3, <3>4
  <2>2. \A t \in Slot \ {s} : HoldP(c, t) <=> HoldQ(c, t, Bot(rest)) BY <1>7, UpdHands
  <2>3. Top(rest) \notin LeafL BY <1>8 DEF LeafL
  <2>4. c.ip = 0 BY <1>7
  <2>5. QED BY <1>9, <1>14, <2>1, <2>2, <2>3, <2>4 DEF Given, c
<1>17. GiveLock(k, j, p, s, rest)
  <2>1. HoldP(c, s) BY <1>7 DEF HoldP
  <2>2. ~HoldQ(c, s, Bot(rest)) BY <1>4, <1>7, UpdHands
  <2>3. QED BY <1>9, <2>1, <2>2 DEF GiveLock, c
<1>18. Onward(k, j, p, s, rest)
  <2>1. Bot(rest) \in Owner <=> Bot(c.pc) \in Owner BY <1>13 DEF Owner
  <2>2. Bot(c.pc) \in Owner => k.fs.mdev BY <1>2 DEF PathOK
  <2>3. ASSUME Bot(c.pc) \in Owner, k.node[s].ino = "root" PROVE k.node[s].count = 1
    <3>1. k.node[s].count = RefP(c, s) BY <2>3, <1>4, RootAlone DEF c
    <3>2. c.fd # s
      <4>1. c.fd # 0 => k.node[c.fd].ino \in InFs BY <1>2 DEF PathOK
      <4>2. "root" \notin InFs BY InodeAssumption DEF InFs
      <4>3. QED BY <4>1, <4>2, <2>3, <1>4, SlotFacts
    <3>3. RefP(c, s) = B(c.fd = s) + B(Up(c) = s) + B(Rip(c) = s) BY <1>4, <1>7, UpdHands
    <3>4. B(c.fd = s) = 0 /\ B(Up(c) = s) = 1 /\ B(Rip(c) = s) = 0 BY <1>7, <3>2 DEF B
    <3>5. QED BY <3>1, <3>3, <3>4
  <2>4. PathAt(k, c, Bot(rest))
    <3>1. Bot(rest) \notin Named \cup WithDip \cup {"fson", "fson2", "fson3", "dir", "more", "plockdir", "unhang"}
      BY <1>13, UpdBots
    <3>2. c.fd # 0 => k.node[c.fd].ino = c.fino /\ c.fino \in InFs BY <1>2 DEF PathOK
    <3>3. Bot(rest) = "fsoff" => k.node[c.mip].mroot = c.rip BY <1>2, <1>13 DEF PathOK
    <3>4. QED BY <3>1, <3>2, <3>3 DEF PathAt
  <2>5. Bot(rest) # "unhang" BY <1>13
  <2>6. QED BY <1>9, <2>1, <2>2, <2>3, <2>4, <2>5 DEF Onward, c
<1>19. Good(k1, X) BY <1>4, <1>8, <1>12, <1>15, <1>16, <1>17, <1>18, GiveGood
<1>20. QED BY <1>3, <1>19 DEF k1

\* The file a process has open is no root.
LEMMA OpenNoRoot ==
  ASSUME NEW k, NEW c, PathOK(k, c), NEW s \in Slot, k.node[s].ino = "root"
  PROVE  c.fd # s
<1>1. c.fd # 0 => k.node[c.fd].ino \in InFs BY DEF PathOK
<1>2. "root" \notin InFs BY InodeAssumption DEF InFs
<1>3. QED BY <1>1, <1>2, SlotFacts

\* One deep and with nothing in hand but an open file: the call is over.
LEMMA LeaveGood ==
  ASSUME NEW k, NEW km, NEW p \in Proc, NEW X, NEW l, Good(k, X), LastFacts(k, p, l),
         Types(km), km.u = k.u, km.freel = k.freel, SameNodes(k, km), km.fs.ilock = k.fs.ilock,
         k.fs.mdev => km.fs.mdev \/ l \in Owner, k.u[p].ip = 0, l \notin WithDip \cup WithRip \cup WithMip
  PROVE  Good(Goto(km, p, <<>>), X)
<1> DEFINE c == k.u[p]
           k1 == Goto(km, p, <<>>)
           c1 == k1.u[p]
<1>1. /\ c.ip = 0 /\ c.dip = 0 /\ c.put = 0 /\ c.rip = 0 /\ c.mip = 0 /\ Up(c) = 0 /\ Rip(c) = 0
      /\ PathOK(k, c) /\ Bot(c.pc) = l
  BY DEF LastFacts, Rip
<1>2. Types(k1) /\ Only(km, k1, p) /\ GoneTo(km.u[p], k1.u[p], <<>>) BY GotoEff, EmptyStack
<1> HIDE DEF k1
<1>3. /\ c1.pc = <<>> /\ c1.ip = 0 /\ c1.dip = 0 /\ c1.put = 0 /\ c1.rip = 0 /\ c1.mip = 0 /\ c1.op = ""
      /\ c1.fd = c.fd /\ c1.fino = c.fino /\ c1.chan = Awake
  BY <1>2 DEF GoneTo
<1>4. k1.node = km.node /\ k1.freel = k.freel /\ k1.fs = km.fs /\ \A q \in Proc \ {p} : k1.u[q] = k.u[q]
  BY <1>2 DEF Only
<1> HIDE DEF c, c1
<1>5. ProcOK(c1) /\ (\A t \in Slot : RefP(c1, t) = B(c1.fd = t) /\ ~HoldP(c1, t)) BY <1>3, OutHands
<1>6. ASSUME NEW t \in Slot PROVE RefP(c, t) = B(c.fd = t) /\ ~HoldP(c, t)
  <2>1. /\ RefP(c, t) = B(c.fd = t) + B(Up(c) = t) + B(Rip(c) = t)
        /\ HoldP(c, t) <=> (c.rip = t \/ Up(c) = t)
        /\ B(c.fd = t) \in Nat
    BY <1>1, UpdHands
  <2> DEFINE x == B(c.fd = t)
             y == B(0 = t)
  <2>2. RefP(c, t) = x + y + y /\ x \in Nat BY <1>1, <2>1
  <2>3. y = 0 BY SlotFacts DEF B
  <2> HIDE DEF x, y
  <2>4. RefP(c, t) = x BY ONLY <2>2, <2>3
  <2>5. ~HoldP(c, t) BY <1>1, <2>1, SlotFacts
  <2>6. QED BY <2>4, <2>5 DEF x
<1>7. \A t \in Slot : RefP(c1, t) = RefP(c, t) /\ HoldP(c1, t) = HoldP(c, t)
  <2>4. \A t \in Slot : B(c1.fd = t) = B(c.fd = t) BY <1>3
  <2>1. \A t \in Slot : RefP(c1, t) = RefP(c, t) BY <1>5, <1>6, <2>4
  <2>2. \A t \in Slot : HoldP(c1, t) = HoldP(c, t)
    <3>1. \A t \in Slot : HoldP(c1, t) \in BOOLEAN /\ HoldP(c, t) \in BOOLEAN BY DEF HoldP
    <3>2. QED BY <3>1, <1>5, <1>6
  <2>3. QED BY <2>1, <2>2
<1>8. c1.fd # 0 => k.node[c1.fd].ino = c1.fino /\ c1.fino \in InFs BY <1>1, <1>3 DEF PathOK
<1>9. Bot(c1.pc) = "" /\ Bot(c1.pc) \notin Owner /\ PathAt(k, c1, Bot(c1.pc)) /\ Empty(k, c1)
  BY <1>3, <1>8, OutPath
<1>10. RootOwned(k, c1)
  <2>1. \A t \in Slot : RefP(c1, t) # 0 => t = c1.fd BY <1>5 DEF B
  <2>2. \A t \in Slot : k.node[t].ino = "root" => c.fd # t BY <1>1, OpenNoRoot
  <2>3. QED BY <1>3, <2>1, <2>2 DEF RootOwned
<1>11. PutOK(k, c1) BY <1>3 DEF PutOK
<1>12. SameNodes(k, k1) BY <1>4 DEF SameNodes
<1>13. Others(k, k1, p) BY <1>4 DEF Others, KeepU
<1>14. \A t \in Slot : ~OwnsRoot(k.u[p], t) BY <1>1, SlotFacts DEF OwnsRoot, c
<1>15. /\ \A q \in Proc \ {p} : k1.u[q].chan = <<"ilock", 0>> /\ k.fs.ilock => k1.fs.ilock
       /\ k.fs.mdev => k1.fs.mdev \/ Bot(k.u[p].pc) \in Owner
  BY <1>1, <1>4 DEF c
<1>16. /\ k1.u[p].chan = Awake /\ ProcOK(k1.u[p]) /\ PutOK(k, k1.u[p]) /\ PathAt(k, k1.u[p], Bot(k1.u[p].pc))
       /\ RootOwned(k, k1.u[p]) /\ Empty(k, k1.u[p]) /\ Bot(k1.u[p].pc) \notin Owner
       /\ \A t \in Slot : RefP(k1.u[p], t) = RefP(k.u[p], t) /\ HoldP(k1.u[p], t) = HoldP(k.u[p], t)
  BY <1>3, <1>5, <1>7, <1>9, <1>10, <1>11 DEF c, c1
<1>17. QED BY <1>2, <1>4, <1>12, <1>13, <1>14, <1>15, <1>16, MoveGood DEF k1

\* The device is mounted, or is not.
SetDev(k, x) == [k EXCEPT !.fs.mdev = x]

\* A file system is mounted, or is not.
LEMMA SetMdev ==
  ASSUME NEW k, Types(k), NEW x
  PROVE  LET k1 == SetDev(k, x) IN
         /\ Types(k1) /\ k1.u = k.u /\ k1.node = k.node /\ k1.freel = k.freel /\ k1.panic = k.panic
         /\ k1.fs.ilock = k.fs.ilock /\ k1.fs.mdev = x /\ SameNodes(k, k1)
<1> DEFINE f == [k.fs EXCEPT !.mdev = x]
           k1 == [k EXCEPT !.fs = f]
<1>1. FsOK(k.fs) BY DEF Types
<1>2. FsOK(f) /\ f.mdev = x /\ f.ilock = k.fs.ilock BY <1>1 DEF FsOK, FsF
<1>3. SetDev(k, x) = k1 BY DEF SetDev
<1> HIDE DEF f
<1>4. Types(k1) /\ k1.node = k.node /\ k1.u = k.u /\ k1.freel = k.freel /\ k1.panic = k.panic /\ k1.fs = f
  BY <1>2, SetFs
<1> HIDE DEF k1
<1>5. QED BY <1>2, <1>3, <1>4 DEF SameNodes, KeepN

\* The end of unmount.
LEMMA FsoffendGood ==
  ASSUME NEW k, k = K, NEW X, Good(k, X), NEW p \in Proc, Fsoffend(p)
  PROVE  \E k1 : Become(k1) /\ Good(k1, X)
<1> DEFINE l == "fsoffend"
           km == SetDev(k, FALSE)
<1>1. At(p, l) /\ Become(Goto(km, p, <<>>)) BY DEF Fsoffend, SetDev
<1>2. LastFacts(k, p, l) BY <1>1, LastAt DEF LastL
<1>3. l \notin WithDip \cup WithRip \cup WithMip \cup WithIp \cup PerhapsIp /\ l \in Owner
  BY DEF WithDip, WithRip, WithMip, WithIp, PerhapsIp, Owner
<1>4. k.u[p].ip = 0 /\ Types(k) BY <1>2, <1>3 DEF LastFacts
<1>5. Types(km) /\ km.u = k.u /\ km.freel = k.freel /\ SameNodes(k, km) /\ km.fs.ilock = k.fs.ilock BY <1>4, SetMdev
<1> HIDE DEF km, l
<1>6. Good(Goto(km, p, <<>>), X) BY <1>2, <1>3, <1>4, <1>5, LeaveGood
<1>7. QED BY <1>1, <1>6

\* A process has the root in x,
SetRip(k, p, x) == [k EXCEPT !.u[p].rip = x]

\* The root, and what it was mounted on, of a process that unmounts.
LEMMA SetRipEff ==
  ASSUME NEW k, Types(k), NEW p \in Proc, NEW x \in Opt
  PROVE  Types(SetRip(k, p, x)) /\ Only(k, SetRip(k, p, x), p)
         /\ KeepU(k.u[p], SetRip(k, p, x).u[p], {"rip"}) /\ SetRip(k, p, x).u[p].rip = x
<1> DEFINE c1 == [k.u[p] EXCEPT !.rip = x]
           j == [k EXCEPT !.u[p] = c1]
<1>0. UserOK(k.u[p]) BY DEF Types, UsersOK
<1>1. SetRip(k, p, x) = j BY DEF SetRip
<1>2. c1 = [f \in UserF |-> c1[f]] /\ c1.rip = x /\ KeepU(k.u[p], c1, {"rip"}) BY <1>0 DEF UserOK, UserF, KeepU
<1> HIDE DEF c1
<1>3. UserOK(c1) BY <1>0, <1>2 DEF UserOK, KeepU, UserF
<1>4. Types(j) /\ Only(k, j, p) /\ j.u[p] = c1 BY <1>3, SetUser
<1> HIDE DEF j
<1>5. QED BY <1>1, <1>2, <1>4

\* and the directory mounted on in x.
SetMip(k, p, x) == [k EXCEPT !.u[p].mip = x]

LEMMA SetMipEff ==
  ASSUME NEW k, Types(k), NEW p \in Proc, NEW x \in Opt
  PROVE  Types(SetMip(k, p, x)) /\ Only(k, SetMip(k, p, x), p)
         /\ KeepU(k.u[p], SetMip(k, p, x).u[p], {"mip"}) /\ SetMip(k, p, x).u[p].mip = x
<1> DEFINE c1 == [k.u[p] EXCEPT !.mip = x]
           j == [k EXCEPT !.u[p] = c1]
<1>0. UserOK(k.u[p]) BY DEF Types, UsersOK
<1>1. SetMip(k, p, x) = j BY DEF SetMip
<1>2. c1 = [f \in UserF |-> c1[f]] /\ c1.mip = x /\ KeepU(k.u[p], c1, {"mip"}) BY <1>0 DEF UserOK, UserF, KeepU
<1> HIDE DEF c1
<1>3. UserOK(c1) BY <1>0, <1>2 DEF UserOK, KeepU, UserF
<1>4. Types(j) /\ Only(k, j, p) /\ j.u[p] = c1 BY <1>3, SetUser
<1> HIDE DEF j
<1>5. QED BY <1>1, <1>2, <1>4

\* unmount gives up the root.
LEMMA IputripGood ==
  ASSUME NEW k, k = K, NEW X, Good(k, X), TextsIn(k, X), NEW p \in Proc, Iputrip(p)
  PROVE  \E k1 : Become(k1) /\ Good(k1, X)
<1> DEFINE c == k.u[p]
           s == c.rip
           l == "iputrip"
           b == "fsoffend"
           rest == <<b>>
           k0 == SetRip(k, p, 0)
           c0 == k0.u[p]
           k1 == Iput(k0, p, s, rest)
<1>0. u = k.u BY KFacts
<1>1. At(p, l) /\ Become(k1) BY <1>0 DEF Iputrip, SetRip
<1>2. LastFacts(k, p, l) BY <1>1, LastAt DEF LastL, WithRip
<1>3. /\ l \notin WithDip \cup WithMip \cup WithIp \cup PerhapsIp /\ l \in Owner /\ l \in WithRip
      /\ b \notin WithDip \cup WithRip \cup WithMip \cup WithIp \cup PerhapsIp \cup Opens \cup Named /\ b \in Owner /\ b \in LastL
  BY DEF WithDip, WithRip, WithMip, WithIp, PerhapsIp, Owner, Opens, Named, LastL
<1>4. /\ Types(k) /\ c.ip = 0 /\ c.dip = 0 /\ c.put = 0 /\ c.mip = 0 /\ c.rip # 0 /\ Up(c) = 0 /\ c.chan = Awake
      /\ PathOK(k, c) /\ Bot(c.pc) = l /\ Rip(c) = s
  BY <1>2, <1>3 DEF LastFacts, Rip
<1>5. s \in Slot BY <1>4, HandTypes
<1>6. rest \in Seq(Label) /\ rest # <<>> /\ StackOK(rest) /\ Top(rest) = b /\ Bot(rest) = b /\ Top(rest) \notin LeafL
  BY <1>3, LastStack
<1>7. Types(k0) /\ Only(k, k0, p) /\ KeepU(c, k0.u[p], {"rip"}) /\ k0.u[p].rip = 0 BY <1>4, SetRipEff, SlotFacts
<1> HIDE DEF k1, k0, rest
<1>8. k0.node = k.node /\ k0.fs = k.fs /\ k0.freel = k.freel /\ \A q \in Proc \ {p} : k0.u[q] = k.u[q] BY <1>7 DEF Only
<1> HIDE DEF c, c0, s
<1>9. /\ c0.ip = 0 /\ c0.dip = 0 /\ c0.put = 0 /\ c0.rip = 0 /\ c0.mip = 0 /\ c0.fd = c.fd /\ c0.fino = c.fino
      /\ c0.chan = Awake /\ c0.op = c.op /\ c0.name = c.name /\ Rip(c0) = 0
  BY <1>4, <1>7 DEF KeepU, UserF, c0, Rip
<1>10. ASSUME NEW t \in Slot
       PROVE  /\ RefP(c, t) = RefQ(c0, t) + B(s = t)
              /\ HoldP(c, t) <=> t = s
              /\ ~HoldQ(c0, t, b)
  <2>1. /\ RefP(c, t) = B(c.fd = t) + B(Up(c) = t) + B(Rip(c) = t)
        /\ HoldP(c, t) <=> (c.rip = t \/ Up(c) = t)
        /\ B(c.fd = t) \in Nat
    BY <1>4, UpdHands
  <2>2. /\ RefQ(c0, t) = B(c0.fd = t) + B(Rip(c0) = t)
        /\ HoldQ(c0, t, b) <=> c0.rip = t
    BY <1>9, UpdHands
  <2> DEFINE x == B(c.fd = t)
             y == B(s = t)
             z == B(0 = t)
  <2>3. z = 0 /\ y \in Nat /\ x \in Nat BY SlotFacts DEF B
  <2>4. RefP(c, t) = x + z + y /\ RefQ(c0, t) = x + z BY <1>4, <1>9, <2>1, <2>2
  <2> HIDE DEF x, y, z
  <2>5. RefP(c, t) = RefQ(c0, t) + y BY ONLY <2>3, <2>4
  <2>6. HoldP(c, t) <=> t = s BY <1>4, <2>1, SlotFacts DEF s
  <2>7. ~HoldQ(c0, t, b) BY <1>9, <2>2, SlotFacts
  <2>8. QED BY <2>5, <2>6, <2>7 DEF y
<1>11. k.node[s].ino # "none" /\ k.node[s].count # 0
  <2>1. RefP(c, s) # 0 BY <1>4, <1>5, HandRef
  <2>2. QED BY <2>1, <1>5, RefIno DEF Good, c
<1>12. Gave(k0, k1, p, s, rest)
  <2>1. k0.u[p].chan = Awake BY <1>9 DEF c0
  <2>2. k0.node[s].ino # "none" /\ k0.node[s].count # 0 BY <1>8, <1>11
  <2>3. QED BY <2>1, <2>2, <1>5, <1>6, <1>7, IputEff DEF Gave, k1
<1>13. Prep(k, k0, p, s)
  <2>1. \A t \in Slot : KeepN(k.node[t], k0.node[t], Dull) BY <1>8 DEF KeepN
  <2>2. KeepN(k.node[s], k0.node[s], Dull \cup {"lock", "want"}) BY <1>8 DEF KeepN
  <2>3. Others(k, k0, p) BY <1>8 DEF Others, KeepU
  <2>5. k0.u[p].chan = Awake BY <1>9 DEF c0
  <2>7. QED BY ONLY <1>7, <1>8, <2>1, <2>2, <2>3, <2>5 DEF Prep
<1>14. Given(k, k0, p, s, rest)
  <2>1. HandOK(c0, rest)
    <3>1. FdOK(c0, b)
      <4>1. FdOK(c, l) BY <1>2 DEF LastFacts, c
      <4>2. QED BY <4>1, <1>3, <1>9 DEF FdOK
    <3>2. c0.op \in {"open", "creat", "exec", "unlink"} => c0.name \in Name BY <1>2, <1>9 DEF LastFacts, HandOK, c
    <3>3. QED BY <3>1, <3>2, <1>3, <1>6, <1>9 DEF HandOK, FdOK
  <2>2. QED BY <2>1, <1>6, <1>9, <1>10 DEF Given, c, c0
<1>15. GiveLock(k, k0, p, s, rest) BY <1>5, <1>6, <1>10 DEF GiveLock, c, c0
<1>16. Onward(k, k0, p, s, rest)
  <2>1. ASSUME k.node[s].ino = "root" PROVE k.node[s].count = 1
    <3>1. k.node[s].count = RefP(c, s) BY <2>1, <1>3, <1>4, <1>5, RootAlone DEF c
    <3>2. c.fd # s BY <2>1, <1>4, <1>5, OpenNoRoot
    <3>3. RefP(c, s) = B(c.fd = s) + B(Up(c) = s) + B(Rip(c) = s) BY <1>4, <1>5, UpdHands
    <3>4. B(c.fd = s) = 0 /\ B(Up(c) = s) = 0 /\ B(Rip(c) = s) = 1 BY <1>4, <1>5, <3>2, SlotFacts DEF B
    <3>5. QED BY <3>1, <3>3, <3>4
  <2>2. PathAt(k, c0, b)
    <3>1. c0.fd # 0 => k.node[c0.fd].ino = c0.fino /\ c0.fino \in InFs BY <1>4, <1>9 DEF PathOK
    <3>2. QED BY <3>1, <1>3, <1>9 DEF PathAt
  <2>3. k.fs.mdev BY <1>3, <1>4 DEF PathOK
  <2>4. QED BY <2>1, <2>2, <2>3, <1>3, <1>4, <1>6, <1>8 DEF Onward, c, c0
<1>17. Good(k1, X) BY <1>5, <1>6, <1>12, <1>13, <1>14, <1>15, <1>16, GiveGood
<1>18. QED BY <1>1, <1>17

\* mount: the directory is there; it must not be mounted on.
LEMMA FsonGood ==
  ASSUME NEW k, k = K, NEW X, Good(k, X), NEW p \in Proc, Fson(p)
  PROVE  \E k1 : Become(k1) /\ Good(k1, X)
<1> DEFINE c == k.u[p]
           l == "fson"
           b == "fson2"
           rest == <<b>>
<1>0. u = k.u /\ node = k.node /\ fs = k.fs /\ K = k BY KFacts
<1>1. At(p, l) BY DEF Fson
<1>2. LastFacts(k, p, l) BY <1>1, LastAt DEF LastL, WithIp
<1>3. /\ l \notin WithDip \cup WithRip \cup WithMip \cup Owner /\ l \in WithIp
      /\ b \notin WithDip \cup WithRip \cup WithMip \cup Opens \cup Named /\ b \in WithIp /\ b \in Owner /\ b \in LastL
  BY DEF WithDip, WithRip, WithMip, WithIp, Owner, Opens, Named, LastL
<1>4. /\ Types(k) /\ c.ip # 0 /\ c.dip = 0 /\ c.put = 0 /\ c.mip = 0 /\ c.rip = 0 /\ Up(c) = 0 /\ c.chan = Awake
      /\ PathOK(k, c) /\ Bot(c.pc) = l /\ Top(c.pc) = l /\ HandOK(c, c.pc) /\ Apart(c)
  BY <1>2, <1>3 DEF LastFacts
<1>5. CASE k.node[c.ip].ino = "root" \/ k.fs.mdev
  <2>1. Become(PutIp(k, p, <<>>)) BY <1>0, <1>5 DEF Fson
  <2>2. l \notin {"got", "more", "fson3"} /\ "" \notin {"closef", "more", "got", "plockdir", "fsoff", "unhang"} OBVIOUS
  <2>3. "" \notin Opens BY OpensIn
  <2>4. Types(k) /\ SameNodes(k, k) BY <1>4 DEF SameNodes, KeepN
  <2>5. k.u[p].ip # 0 BY <1>4
  <2> HIDE DEF l
  <2>6. Good(PutIp(k, p, <<>>), X) BY <1>2, <1>3, <2>2, <2>3, <2>4, <2>5, EmptyStack, GiveIp
  <2>7. QED BY <2>1, <2>6
<1>6. CASE ~(k.node[c.ip].ino = "root" \/ k.fs.mdev)
  <2> DEFINE yes == TRUE
             km == SetDev(k, yes)
             k1 == Goto(km, p, rest)
             c1 == k1.u[p]
  <2>1. Become(k1) BY <1>0, <1>6 DEF Fson, SetDev
  <2> HIDE DEF yes
  <2>2a. /\ Types(km) /\ km.u = k.u /\ km.node = k.node /\ km.freel = k.freel
         /\ km.fs.ilock = k.fs.ilock /\ km.fs.mdev = yes /\ SameNodes(k, km)
    BY <1>4, SetMdev
  <2>2b. yes BY DEF yes
  <2>2. /\ Types(km) /\ km.u = k.u /\ km.node = k.node /\ km.freel = k.freel
        /\ km.fs.ilock = k.fs.ilock /\ km.fs.mdev /\ SameNodes(k, km)
    BY <2>2a, <2>2b
  <2> HIDE DEF km
  <2>3. rest \in Seq(Label) /\ rest # <<>> /\ StackOK(rest) /\ Top(rest) = b /\ Bot(rest) = b /\ Top(rest) \notin LeafL
    BY <1>3, LastStack
  <2> HIDE DEF rest
  <2>4. Types(k1) /\ Only(km, k1, p) /\ GoneTo(km.u[p], k1.u[p], rest) BY <2>2, <2>3, GotoEff
  <2> HIDE DEF k1
  <2>5. /\ k1.node = k.node /\ k1.freel = k.freel /\ k1.fs = km.fs /\ \A q \in Proc \ {p} : k1.u[q] = k.u[q]
    BY <2>2, <2>4 DEF Only
  <2>6. GoneTo(c, c1, rest) BY <2>2, <2>4
  <2> HIDE DEF c, c1
  <2>7. /\ c1.pc = rest /\ c1.ip = c.ip /\ c1.dip = c.dip /\ c1.put = c.put /\ c1.rip = c.rip /\ c1.mip = c.mip
        /\ c1.fd = c.fd /\ c1.fino = c.fino /\ c1.op = c.op /\ c1.name = c.name /\ c1.chan = Awake
    BY <1>4, <2>3, <2>6 DEF GoneTo, UserF
  <2>8. Walk(c1) = Walk(c)
    <3>1. Bot(c.pc) \notin {"got", "more"} /\ Bot(c1.pc) \notin {"got", "more"} BY <1>4, <2>3, <2>7
    <3>2. QED BY <3>1, NoWalk
  <2>9. Hop(c, c1) BY <1>4, <2>3, <2>7, <2>8 DEF Hop
  <2>10. /\ \A t \in Slot : RefP(c1, t) = RefP(c, t) /\ HoldP(c1, t) = HoldP(c, t)
         /\ Apart(c1)
    BY <1>4, <2>9, HopHands
  <2>11. HandOK(c1, c1.pc)
    <3>1. FdOK(c1, b)
      <4>1. FdOK(c, l) BY <1>2 DEF LastFacts, c
      <4>2. QED BY <4>1, <1>3, <2>7 DEF FdOK
    <3>2. c1.op \in {"open", "creat", "exec", "unlink"} => c1.name \in Name BY <1>4, <2>7 DEF HandOK
    <3>3. QED BY <3>1, <3>2, <1>3, <1>4, <2>3, <2>7 DEF HandOK, FdOK
  <2>12. PathAt(k, c1, Bot(c1.pc))
    <3>1. k.node[c.ip].ino = "mp" BY <1>4, <1>6 DEF PathOK, c
    <3>2. c1.fd # 0 => k.node[c1.fd].ino = c1.fino /\ c1.fino \in InFs BY <1>4, <2>7 DEF PathOK
    <3>3. QED BY <3>1, <3>2, <1>3, <2>3, <2>7 DEF PathAt
  <2>13. ~IsMounted(k)
    <3>1. MountInv(k) /\ ~k.fs.mdev BY <1>6 DEF Good, Mounts
    <3>2. QED BY <3>1 DEF MountInv, IsMounted
  <2>14. /\ k1.u[p].chan = Awake /\ ProcOK(k1.u[p]) /\ PutOK(k, k1.u[p]) /\ PathAt(k, k1.u[p], Bot(k1.u[p].pc))
         /\ RootOwned(k, k1.u[p]) /\ Empty(k, k1.u[p]) /\ Bot(k1.u[p].pc) \in Owner
         /\ \A t \in Slot : RefP(k1.u[p], t) = RefP(k.u[p], t) /\ HoldP(k1.u[p], t) = HoldP(k.u[p], t)
    <3>1. RootOwned(k, c1) BY <1>3, <2>3, <2>7 DEF RootOwned
    <3>2. Empty(k, c1) BY <2>3, <2>7 DEF Empty
    <3>3. PutOK(k, c1) BY <1>4, <2>7 DEF PutOK
    <3>4. ProcOK(c1) BY <2>10, <2>11 DEF ProcOK
    <3>5. QED BY <1>3, <2>3, <2>7, <2>10, <2>12, <3>1, <3>2, <3>3, <3>4 DEF c, c1
  <2>15. SameNodes(k, k1) BY <2>5 DEF SameNodes, KeepN
  <2>16. Others(k, k1, p) BY <2>5 DEF Others, KeepU
  <2>17. /\ \A q \in Proc \ {p} : k1.u[q].chan = <<"ilock", 0>> /\ k.fs.ilock => k1.fs.ilock
         /\ k1.fs.mdev /\ ~k.fs.mdev
    BY <1>6, <2>2, <2>5
  <2>18. \A t \in Slot : ~OwnsRoot(k.u[p], t) BY <1>3, <1>4 DEF OwnsRoot, c
  <2>19. Good(k1, X) BY <2>4, <2>5, <2>13, <2>14, <2>15, <2>16, <2>17, <2>18, MoveGood
  <2>20. QED BY <2>1, <2>19
<1>7. QED BY <1>5, <1>6

\* A process has no open file.
SetFd(k, p) == [k EXCEPT !.u[p].fd = 0, !.u[p].fino = "none", !.u[p].fw = FALSE]

\* The open file.
LEMMA SetFdEff ==
  ASSUME NEW k, Types(k), NEW p \in Proc
  PROVE  Types(SetFd(k, p)) /\ Only(k, SetFd(k, p), p)
         /\ KeepU(k.u[p], SetFd(k, p).u[p], {"fd", "fino", "fw"}) /\ SetFd(k, p).u[p].fd = 0
<1> DEFINE c1 == [k.u[p] EXCEPT !.fd = 0, !.fino = "none", !.fw = FALSE]
           j == [k EXCEPT !.u[p] = c1]
<1>0. UserOK(k.u[p]) BY DEF Types, UsersOK
<1>1. SetFd(k, p) = j BY DEF SetFd
<1>2. c1 = [f \in UserF |-> c1[f]] /\ c1.fd = 0 /\ KeepU(k.u[p], c1, {"fd", "fino", "fw"})
  BY <1>0 DEF UserOK, UserF, KeepU
<1> HIDE DEF c1
<1>3. UserOK(c1) BY <1>0, <1>2, SlotFacts DEF UserOK, KeepU, UserF
<1>4. Types(j) /\ Only(k, j, p) /\ j.u[p] = c1 BY <1>3, SetUser
<1> HIDE DEF j
<1>5. QED BY <1>1, <1>2, <1>4

\* p comes to closef, with km of it or of the call; nothing in hand but the open file.
Closes(k, km, p) ==
  /\ Types(km) /\ SameNodes(k, km) /\ km.freel = k.freel /\ km.fs = k.fs
  /\ \A q \in Proc \ {p} : km.u[q] = k.u[q]
  /\ KeepU(k.u[p], km.u[p], {"op"}) /\ k.u[p].chan = Awake /\ k.u[p].fd # 0
  /\ km.u[p].op \notin {"open", "creat"}
  /\ km.u[p].op \in {"open", "creat", "exec", "unlink"} => km.u[p].name \in Name
  /\ Bot(k.u[p].pc) \in {"", "closef"} /\ Top(k.u[p].pc) \notin LeafL

\* closef: the open file is all it has.
LEMMA ClosefHands ==
  ASSUME NEW k, NEW X, Good(k, X), NEW p \in Proc, Bot(k.u[p].pc) \in {"", "closef"}, Top(k.u[p].pc) \notin LeafL
  PROVE  LET c == k.u[p] IN
         /\ c.ip = 0 /\ c.dip = 0 /\ c.put = 0 /\ c.rip = 0 /\ c.mip = 0 /\ Up(c) = 0 /\ Rip(c) = 0
         /\ Bot(c.pc) \notin Owner /\ PathOK(k, c)
         /\ \A t \in Slot : RefP(c, t) = B(c.fd = t) /\ ~HoldP(c, t)
<1> DEFINE c == k.u[p]
<1>1. HandOK(c, c.pc) /\ PathOK(k, c) BY DEF Good, Core, Mounts, ProcOK
<1>2. Bot(c.pc) \in {"", "closef"} /\ Top(c.pc) \notin LeafL OBVIOUS
<1> HIDE DEF c
<1>3. Bot(c.pc) \notin WithDip \cup WithIp \cup PerhapsIp \cup WithRip \cup WithMip \cup Owner
  BY <1>2 DEF WithDip, WithIp, PerhapsIp, WithRip, WithMip, Owner
<1>4. c.put = 0 /\ Up(c) = 0 BY <1>1, <1>2 DEF HandOK, LeafL, Up
<1>5. c.ip = 0 /\ c.dip = 0 /\ c.rip = 0 /\ c.mip = 0 BY <1>1, <1>3 DEF HandOK
<1>6. Rip(c) = 0 /\ c.ip = 0 /\ c.dip = 0 /\ c.put = 0 BY <1>4, <1>5 DEF Rip
<1>7. ASSUME NEW t \in Slot PROVE RefP(c, t) = B(c.fd = t) /\ ~HoldP(c, t)
  <2>1. /\ RefP(c, t) = B(c.fd = t) + B(Up(c) = t) + B(Rip(c) = t)
        /\ HoldP(c, t) <=> (c.rip = t \/ Up(c) = t)
        /\ B(c.fd = t) \in Nat
    BY ONLY <1>6, UpdHands, t \in Slot
  <2> DEFINE x == B(c.fd = t)
             y == B(0 = t)
  <2>2. RefP(c, t) = x + y + y /\ x \in Nat BY <1>4, <1>6, <2>1
  <2>3. y = 0 BY SlotFacts DEF B
  <2> HIDE DEF x, y
  <2>4. RefP(c, t) = x BY ONLY <2>2, <2>3
  <2>5. ~HoldP(c, t) BY <1>4, <1>5, <2>1, SlotFacts
  <2>6. QED BY <2>4, <2>5 DEF x
<1>8. QED BY <1>1, <1>3, <1>4, <1>5, <1>6, <1>7 DEF c

\* The inode is locked: it sleeps.
LEMMA ClosefWait ==
  ASSUME NEW k, NEW km, NEW X, Good(k, X), NEW p \in Proc, Closes(k, km, p), NEW s \in Slot, s = k.u[p].fd,
         k.node[s].lock
  PROVE  Good(Goto(SleepOn(km, p, s), p, <<"closef">>), X)
<1> DEFINE c == k.u[p]
           b == "closef"
           rest == <<b>>
           ks == SleepOn(km, p, s)
           k1 == Goto(ks, p, rest)
           c1 == k1.u[p]
<1>1. /\ c.ip = 0 /\ c.dip = 0 /\ c.put = 0 /\ c.rip = 0 /\ c.mip = 0 /\ Up(c) = 0 /\ Rip(c) = 0
      /\ Bot(c.pc) \notin Owner /\ PathOK(k, c)
      /\ \A t \in Slot : RefP(c, t) = B(c.fd = t) /\ ~HoldP(c, t)
  BY ClosefHands DEF Closes
<1>2. /\ b \notin WithDip \cup WithIp \cup PerhapsIp \cup WithRip \cup WithMip \cup Owner \cup Opens \cup Named \cup LeafL
      /\ b \in LastL
  BY DEF WithDip, WithIp, PerhapsIp, WithRip, WithMip, Owner, Opens, Named, LeafL, LastL
<1>3. rest \in Seq(Label) /\ rest # <<>> /\ StackOK(rest) /\ Top(rest) = b /\ Bot(rest) = b BY <1>2, LastStack
<1> HIDE DEF rest
<1>0. Types(km) /\ SameNodes(k, km) BY DEF Closes
<1>4. /\ Types(ks) /\ SameRest(km, ks) /\ NodeBut(km, ks, s)
      /\ KeepN(km.node[s], ks.node[s], {"want"}) /\ ks.node[s].want
      /\ \A q \in Proc \ {p} : ks.u[q] = km.u[q]
      /\ KeepU(km.u[p], ks.u[p], {"chan"}) /\ ks.u[p].chan = On(s)
  BY <1>0, SleepOnEff
<1> HIDE DEF ks
<1>5. Types(k1) /\ Only(ks, k1, p) /\ GoneTo(ks.u[p], k1.u[p], rest) BY <1>3, <1>4, GotoEff
<1> HIDE DEF k1
<1>6. /\ k1.node = ks.node /\ k1.freel = k.freel /\ k1.fs = k.fs
      /\ \A q \in Proc \ {p} : k1.u[q] = k.u[q]
  BY <1>4, <1>5 DEF Only, SameRest, Closes
<1>7. KeepU(c, km.u[p], {"op"}) /\ km.u[p].op \notin {"open", "creat"}
      /\ (km.u[p].op \in {"open", "creat", "exec", "unlink"} => km.u[p].name \in Name)
      /\ s = c.fd
  BY DEF Closes
<1> HIDE DEF c, c1
<1>8. /\ c1.pc = rest /\ c1.ip = 0 /\ c1.dip = 0 /\ c1.put = 0 /\ c1.rip = 0 /\ c1.mip = 0
      /\ c1.fd = s /\ c1.fino = c.fino /\ c1.op \notin {"open", "creat"} /\ c1.chan = On(s)
      /\ c1.op \in {"open", "creat", "exec", "unlink"} => c1.name \in Name
  <2>1. KeepU(ks.u[p], c1, {"pc"}) /\ c1.pc = rest BY <1>3, <1>5 DEF GoneTo, KeepU, c1
  <2> DEFINE cm == km.u[p]
             cs == ks.u[p]
  <2>2. KeepU(c, cm, {"op"}) /\ KeepU(cm, cs, {"chan"}) /\ KeepU(cs, c1, {"pc"}) /\ cs.chan = On(s)
        /\ cm.op \notin {"open", "creat"} /\ (cm.op \in {"open", "creat", "exec", "unlink"} => cm.name \in Name)
    BY <1>4, <1>7, <2>1
  <2> HIDE DEF cm, cs
  <2>3. QED BY <1>1, <1>7, <2>1, <2>2 DEF KeepU, UserF
<1>9. Up(c1) = 0 /\ Rip(c1) = 0 BY <1>3, <1>8 DEF Up, Rip
<1>10. ASSUME NEW t \in Slot PROVE RefP(c1, t) = RefP(c, t) /\ ~HoldP(c1, t)
  <2>1. /\ RefP(c1, t) = B(c1.fd = t) + B(Up(c1) = t) + B(Rip(c1) = t)
        /\ HoldP(c1, t) <=> (c1.rip = t \/ Up(c1) = t)
        /\ B(c1.fd = t) \in Nat
    BY <1>8, UpdHands
  <2> DEFINE x == B(s = t)
             y == B(0 = t)
  <2>2. RefP(c1, t) = x + y + y /\ RefP(c, t) = x /\ x \in Nat BY <1>1, <1>7, <1>8, <1>9, <2>1
  <2>3. y = 0 BY SlotFacts DEF B
  <2> HIDE DEF x, y
  <2>4. RefP(c1, t) = RefP(c, t) BY ONLY <2>2, <2>3
  <2>5. ~HoldP(c1, t) BY <1>8, <1>9, <2>1, SlotFacts
  <2>6. QED BY <2>4, <2>5
<1>11. ASSUME NEW t \in Slot
       PROVE  /\ k1.node[t].ino = k.node[t].ino /\ k1.node[t].mroot = k.node[t].mroot
              /\ k1.node[t].count = k.node[t].count /\ k1.node[t].mpoint = k.node[t].mpoint
              /\ k1.node[t].lock <=> k.node[t].lock
              /\ k.node[t].want => k1.node[t].want
              /\ t = s => k1.node[t].want
  <2>1. /\ km.node[t].ino = k.node[t].ino /\ km.node[t].mroot = k.node[t].mroot
        /\ km.node[t].count = k.node[t].count /\ km.node[t].mpoint = k.node[t].mpoint
        /\ km.node[t].lock = k.node[t].lock /\ km.node[t].want = k.node[t].want
    BY <1>0, DullFacts
  <2>5. /\ k1.node[t].ino = km.node[t].ino /\ k1.node[t].mroot = km.node[t].mroot
        /\ k1.node[t].count = km.node[t].count /\ k1.node[t].mpoint = km.node[t].mpoint
        /\ k1.node[t].lock = km.node[t].lock
        /\ t = s => k1.node[t].want
        /\ t # s => k1.node[t].want = km.node[t].want
    <3>1. CASE t = s
      <4>1. KeepN(km.node[t], k1.node[t], {"want"}) BY <3>1, <1>4, <1>6
      <4>2. k1.node[t].want BY <3>1, <1>4, <1>6
      <4>3. /\ k1.node[t].ino = km.node[t].ino /\ k1.node[t].mroot = km.node[t].mroot
            /\ k1.node[t].count = km.node[t].count /\ k1.node[t].mpoint = km.node[t].mpoint
            /\ k1.node[t].lock = km.node[t].lock
        BY ONLY <4>1 DEF KeepN, NodeF
      <4>4. QED BY <3>1, <4>2, <4>3
    <3>2. CASE t # s BY <3>2, <1>4, <1>6 DEF NodeBut
    <3>3. QED BY <3>1, <3>2
  <2>6. k1.node[t].lock = k.node[t].lock /\ (t # s => k1.node[t].want = k.node[t].want) BY <2>1, <2>5
  <2>2. CASE t = s BY <2>1, <2>2, <2>5, <2>6
  <2>3. CASE t # s BY <2>1, <2>3, <2>5, <2>6
  <2>4. QED BY <2>2, <2>3
<1>12. Loose(k, k1, p, {})
  <2>1. Others(k, k1, p) BY <1>6 DEF Others, KeepU
  <2>2. \A t \in Slot : RefP(k1.u[p], t) = RefP(k.u[p], t) BY <1>10 DEF c, c1
  <2>3. \A t \in Slot : HoldP(k1.u[p], t) <=> (HoldP(k.u[p], t) /\ t \notin {}) BY <1>1, <1>10 DEF c, c1
  <2>4. \E t \in Slot : k1.u[p].chan = On(t) /\ k1.node[t].lock /\ k1.node[t].want /\ k1.u[p].pc # <<>>
    BY <1>3, <1>8, <1>11 DEF c1
  <2>5. k1.fs.ilock = k.fs.ilock BY <1>6
  <2>6. QED BY <1>5, <1>6, <1>11, <2>1, <2>2, <2>3, <2>4, <2>5 DEF Loose
<1>13. Settled(k, k1, p)
  <2>1. Bot(c1.pc) = b BY <1>3, <1>8
  <2>2. c1.fd # 0 => k.node[c1.fd].ino = c1.fino /\ c1.fino \in InFs BY <1>1, <1>7, <1>8 DEF PathOK
  <2>3. PathAt(k, c1, Bot(c1.pc)) BY <1>2, <1>8, <2>1, <2>2 DEF PathAt
  <2>4. ProcOK(c1)
    <3>1. FdOK(c1, b) BY <1>2, <1>8 DEF FdOK
    <3>2. HandOK(c1, c1.pc) BY <1>2, <1>3, <1>8, <3>1, SlotFacts DEF HandOK, FdOK, LeafL
    <3>3. QED BY <3>2, <1>8 DEF ProcOK, Apart
  <2>5. RootOwned(k, c1)
    <3>1. \A t \in Slot : RefP(c1, t) # 0 => t = c.fd BY <1>1, <1>10 DEF B
    <3>2. \A t \in Slot : k.node[t].ino = "root" => c.fd # t BY <1>1, OpenNoRoot
    <3>3. QED BY <3>1, <3>2 DEF RootOwned
  <2>6. Empty(k1, c1) /\ PutOK(k1, c1) /\ Bot(c1.pc) \notin Owner BY <1>2, <1>8, <2>1 DEF Empty, PutOK
  <2>7. \A t \in Slot : ~OwnsRoot(k.u[p], t) BY <1>1 DEF OwnsRoot, c
  <2>8. /\ ProcOK(k1.u[p]) /\ PathAt(k, k1.u[p], Bot(k1.u[p].pc)) /\ RootOwned(k, k1.u[p]) /\ Empty(k1, k1.u[p])
        /\ PutOK(k1, k1.u[p]) /\ Bot(k1.u[p].pc) \notin Owner
    BY <2>3, <2>4, <2>5, <2>6 DEF c1
  <2>9. \A t \in Slot : k1.node[t].mpoint = k.node[t].mpoint BY <1>11
  <2>10. k1.fs.mdev = k.fs.mdev BY <1>6
  <2>11. QED BY ONLY <2>7, <2>8, <2>9, <2>10 DEF Settled
<1>14. Good(k1, X)
  <2> DEFINE D == {}
  <2>1. D \in SUBSET Slot /\ Loose(k, k1, p, D) BY <1>12
  <2> HIDE DEF D
  <2>2. QED BY <1>13, <2>1, LooseGood
<1>15. QED BY <1>14 DEF k1, ks, rest

\* It gives the inode up.
LEMMA ClosefDone ==
  ASSUME NEW k, NEW km, NEW X, Good(k, X), NEW p \in Proc, Closes(k, km, p), NEW s \in Slot, s = k.u[p].fd,
         ~k.node[s].lock
  PROVE  Good(Iput(SetFd(Lock(km, s), p), p, s, <<>>), X)
<1> DEFINE c == k.u[p]
           kl == Lock(km, s)
           k0 == SetFd(kl, p)
           c0 == k0.u[p]
           k1 == Iput(k0, p, s, <<>>)
<1>1. /\ c.ip = 0 /\ c.dip = 0 /\ c.put = 0 /\ c.rip = 0 /\ c.mip = 0 /\ Up(c) = 0 /\ Rip(c) = 0
      /\ Bot(c.pc) \notin Owner /\ PathOK(k, c)
      /\ \A t \in Slot : RefP(c, t) = B(c.fd = t) /\ ~HoldP(c, t)
  BY ClosefHands DEF Closes
<1>0. Types(km) /\ SameNodes(k, km) BY DEF Closes
<1>2. /\ Types(kl) /\ SameRest(km, kl) /\ kl.u = km.u /\ NodeBut(km, kl, s)
      /\ KeepN(km.node[s], kl.node[s], {"lock"}) /\ kl.node[s].lock
  BY <1>0, LockEff
<1> HIDE DEF kl
<1>3. Types(k0) /\ Only(kl, k0, p) /\ KeepU(kl.u[p], k0.u[p], {"fd", "fino", "fw"}) /\ k0.u[p].fd = 0
  BY <1>2, SetFdEff
<1> HIDE DEF k0, k1
<1>4. /\ k0.node = kl.node /\ k0.freel = k.freel /\ k0.fs = k.fs
      /\ \A q \in Proc \ {p} : k0.u[q] = k.u[q]
  <2>1. km.freel = k.freel /\ km.fs = k.fs /\ \A q \in Proc \ {p} : km.u[q] = k.u[q] BY DEF Closes
  <2>2. kl.freel = km.freel /\ kl.fs = km.fs /\ kl.u = km.u BY <1>2 DEF SameRest
  <2>3. k0.node = kl.node /\ k0.freel = kl.freel /\ k0.fs = kl.fs /\ \A q \in Proc \ {p} : k0.u[q] = kl.u[q]
    BY <1>3 DEF Only
  <2>4. QED BY ONLY <2>1, <2>2, <2>3
<1>5. /\ KeepU(c, km.u[p], {"op"}) /\ km.u[p].op \notin {"open", "creat"} /\ c.chan = Awake
      /\ (km.u[p].op \in {"open", "creat", "exec", "unlink"} => km.u[p].name \in Name)
      /\ s = c.fd /\ KeepU(km.u[p], c0, {"fd", "fino", "fw"}) /\ c0.fd = 0
  BY <1>2, <1>3 DEF Closes
<1> HIDE DEF c, c0
<1>6. /\ c0.ip = 0 /\ c0.dip = 0 /\ c0.put = 0 /\ c0.rip = 0 /\ c0.mip = 0 /\ c0.fd = 0 /\ c0.chan = Awake
      /\ c0.op \notin {"open", "creat"}
      /\ c0.op \in {"open", "creat", "exec", "unlink"} => c0.name \in Name
  <2> DEFINE cm == km.u[p]
  <2>1. KeepU(c, cm, {"op"}) /\ KeepU(cm, c0, {"fd", "fino", "fw"}) /\ cm.op \notin {"open", "creat"}
        /\ (cm.op \in {"open", "creat", "exec", "unlink"} => cm.name \in Name)
    BY <1>5
  <2> HIDE DEF cm
  <2>2. QED BY <1>1, <1>5, <2>1 DEF KeepU, UserF
<1>7. ASSUME NEW t \in Slot PROVE RefQ(c0, t) = 0 /\ ~HoldQ(c0, t, Bot(<<>>))
  <2>1. Rip(c0) = 0 BY <1>6 DEF Rip
  <2>2. RefQ(c0, t) = B(0 = t) + B(0 = t) + B(0 = t) + B(0 = t) BY <1>6, <2>1 DEF RefQ
  <2>3. B(0 = t) = 0 BY SlotFacts DEF B
  <2>4. ~HoldQ(c0, t, Bot(<<>>)) BY <1>6, SlotFacts DEF HoldQ
  <2>5. QED BY <2>2, <2>3, <2>4
<1>8. ASSUME NEW t \in Slot PROVE RefP(c, t) = RefQ(c0, t) + B(s = t)
  <2> DEFINE y == B(s = t)
  <2>1. RefP(c, t) = y /\ RefQ(c0, t) = 0 BY <1>1, <1>5, <1>7
  <2>2. y \in Nat BY DEF B
  <2> HIDE DEF y
  <2>3. RefP(c, t) = RefQ(c0, t) + y BY ONLY <2>1, <2>2
  <2>4. QED BY <2>3 DEF y
<1>9. \A t \in Slot : KeepN(k.node[t], km.node[t], Dull) BY <1>0 DEF SameNodes
<1>10. Prep(k, k0, p, s)
  <2>1. \A t \in Slot \ {s} : KeepN(k.node[t], k0.node[t], Dull) BY <1>2, <1>4, <1>9 DEF NodeBut
  <2>2. KeepN(k.node[s], k0.node[s], Dull \cup {"lock", "want"})
    <3> DEFINE D == Dull \cup {"lock", "want"}
    <3>1. Dull \subseteq D /\ {"lock"} \subseteq D OBVIOUS
    <3> HIDE DEF D
    <3>2. KeepN(k.node[s], km.node[s], Dull) /\ KeepN(km.node[s], k0.node[s], {"lock"}) BY <1>2, <1>4, <1>9
    <3>3. KeepN(k.node[s], k0.node[s], D) BY <3>1, <3>2, KeepNTrans
    <3>4. QED BY <3>3 DEF D
  <2>3. Others(k, k0, p) BY <1>4 DEF Others, KeepU
  <2>5. k0.u[p].chan = Awake BY <1>6 DEF c0
  <2>6. k0.freel = k.freel /\ k0.fs.ilock = k.fs.ilock BY <1>4
  <2>7. QED BY ONLY <1>3, <2>1, <2>2, <2>3, <2>5, <2>6, ~k.node[s].lock DEF Prep
<1>11. Given(k, k0, p, s, <<>>)
  <2>1. HandOK(c0, <<>>)
    <3>1. "" \notin Opens BY OpensIn
    <3>2. QED BY <1>6, <3>1, EmptyStack DEF HandOK
  <2>2. QED BY <2>1, <1>1, <1>6, <1>7, <1>8, EmptyStack DEF Given, c, c0
<1>12. GiveLock(k, k0, p, s, <<>>) BY <1>7 DEF GiveLock, c0
<1>13. Onward(k, k0, p, s, <<>>)
  <2>1. PathAt(k, c0, "") BY <1>6, EmptyStack DEF PathAt
  <2>2. QED BY <2>1, <1>1, <1>4, EmptyStack DEF Onward, c, c0
<1>14. Gave(k0, k1, p, s, <<>>)
  <2>1. k0.u[p].chan = Awake BY <1>6 DEF c0
  <2>2. k.node[s].ino # "none" /\ k.node[s].count # 0
    <3>1. RefP(c, s) # 0 BY <1>1, <1>5 DEF B
    <3>2. QED BY <3>1, RefIno DEF Good, c
  <2>3. km.node[s].ino = k.node[s].ino /\ km.node[s].count = k.node[s].count BY <1>0, DullFacts
  <2>4. k0.node[s].ino # "none" /\ k0.node[s].count # 0
    <3>1. KeepN(km.node[s], k0.node[s], {"lock"}) BY <1>2, <1>4
    <3>2. k0.node[s].ino = km.node[s].ino /\ k0.node[s].count = km.node[s].count BY ONLY <3>1 DEF KeepN, NodeF
    <3>3. QED BY <2>2, <2>3, <3>2
  <2>5. QED BY <2>1, <2>4, <1>3, IputEff, EmptyStack DEF Gave, k1
<1>15. Good(k1, X) BY <1>10, <1>11, <1>12, <1>13, <1>14, GiveGood, EmptyStack
<1>16. QED BY <1>15 DEF k1, k0, kl

\* closef keeps the invariant.
LEMMA ClosefGood ==
  ASSUME NEW k, NEW km, NEW X, Good(k, X), NEW p \in Proc, Closes(k, km, p)
  PROVE  Good(Closef(km, p), X)
<1> DEFINE s == k.u[p].fd
<1>1. s \in Slot BY HandTypes DEF Closes, Good, Core
<1>2. km.u[p].fd = s BY DEF Closes, KeepU, UserF
<1>3. SameNodes(k, km) BY DEF Closes
<1>4. km.node[s].lock = k.node[s].lock BY <1>1, <1>3, DullFacts
<1> HIDE DEF s
<1>5. CASE k.node[s].lock
  <2>1. Closef(km, p) = Goto(SleepOn(km, p, s), p, <<"closef">>) BY <1>2, <1>4, <1>5 DEF Closef
  <2>2. QED BY <1>1, <1>5, <2>1, ClosefWait DEF s
<1>6. CASE ~k.node[s].lock
  <2>1. Closef(km, p) = Iput(SetFd(Lock(km, s), p), p, s, <<>>) BY <1>2, <1>4, <1>6 DEF Closef, SetFd
  <2>2. QED BY <1>1, <1>6, <2>1, ClosefDone DEF s
<1>7. QED BY <1>5, <1>6

\* closef, when the inode was locked.
LEMMA CloseLaterGood ==
  ASSUME NEW k, k = K, NEW X, Good(k, X), NEW p \in Proc, CloseLater(p)
  PROVE  \E k1 : Become(k1) /\ Good(k1, X)
<1> DEFINE l == "closef"
<1>1. At(p, l) /\ Become(Closef(k, p)) BY KFacts DEF CloseLater
<1>2. LastFacts(k, p, l) BY <1>1, LastAt DEF LastL
<1>3. Closes(k, k, p)
  <2>1. /\ Types(k) /\ k.u[p].chan = Awake /\ Bot(k.u[p].pc) = l /\ Top(k.u[p].pc) = l /\ HandOK(k.u[p], k.u[p].pc)
    BY <1>2 DEF LastFacts
  <2>2. k.u[p].fd # 0 BY <2>1 DEF HandOK
  <2>3. k.u[p].op \notin {"open", "creat"}
        /\ (k.u[p].op \in {"open", "creat", "exec", "unlink"} => k.u[p].name \in Name)
    BY <2>1, <2>2 DEF HandOK
  <2>4. SameNodes(k, k) /\ KeepU(k.u[p], k.u[p], {"op"}) BY DEF SameNodes, KeepN, KeepU
  <2>5. l \notin LeafL BY DEF LeafL
  <2>6. QED BY <2>1, <2>2, <2>3, <2>4, <2>5 DEF Closes
<1>4. QED BY <1>1, <1>3, ClosefGood

\* A process in no call.
LEMMA IdleFacts ==
  ASSUME NEW k, NEW X, Good(k, X), NEW p \in Proc, k.u[p].pc = <<>>
  PROVE  LET c == k.u[p] IN
         /\ Types(k) /\ c.chan = Awake /\ HandOK(c, <<>>) /\ PathOK(k, c) /\ UserOK(c)
         /\ c.ip = 0 /\ c.dip = 0 /\ c.put = 0 /\ c.rip = 0 /\ c.mip = 0 /\ Bot(c.pc) = "" /\ Top(c.pc) = ""
<1>1. Types(k) /\ HandOK(k.u[p], <<>>) /\ k.u[p].chan = Awake /\ PathOK(k, k.u[p]) /\ UserOK(k.u[p])
  BY DEF Good, Core, Mounts, ProcOK, SleepInv, Types, UsersOK
<1>2. QED BY <1>1, NoHands, EmptyStack

\* An inode is to be written.
SetChanged(k, s, x) == [k EXCEPT !.node[s].chg = x]

\* close.
LEMMA CloseGood ==
  ASSUME NEW k, k = K, NEW X, Good(k, X), NEW p \in Proc, Close(p)
  PROVE  \E k1 : Become(k1) /\ Good(k1, X)
<1> DEFINE c == k.u[p]
           s == c.fd
<1>0. u = k.u /\ node = k.node /\ K = k BY KFacts
<1>1. Call(p, "close") /\ c.fd # 0 BY <1>0 DEF Close
<1>2. c.pc = <<>> BY <1>0, <1>1 DEF Call
<1>3. /\ Types(k) /\ c.chan = Awake /\ HandOK(c, <<>>) /\ Bot(c.pc) = "" /\ Top(c.pc) = "" BY <1>2, IdleFacts
<1>4. s \in Slot BY <1>1, <1>3, HandTypes
<1>5. PICK x \in BOOLEAN : Become(Closef([k EXCEPT !.u[p].op = "close", !.node[s].chg = @ \/ x], p))
  BY <1>0 DEF Close
<1> DEFINE y == k.node[s].chg \/ x
           ko == SetOp(k, p, "close")
           km == SetChanged(ko, s, y)
<1>6. Become(Closef(km, p)) BY <1>5 DEF SetOp, SetChanged
<1> HIDE DEF y, c
<1>7. Types(ko) /\ Only(k, ko, p) /\ KeepU(k.u[p], ko.u[p], {"op"}) /\ ko.u[p].op = "close"
  <2>1. Types(k) BY <1>3
  <2>2. QED BY ONLY <2>1, SetOpEff, p \in Proc DEF ko
<1> HIDE DEF ko
<1>8. Rewritten(ko, km) BY <1>4, <1>7, SetChg DEF SetChanged
<1> HIDE DEF km
<1>9. RewSides(ko, km, p) BY <1>8, RewFacts
<1>10. Closes(k, km, p)
  <2>1. ko.node = k.node /\ ko.freel = k.freel /\ ko.fs = k.fs /\ \A q \in Proc \ {p} : ko.u[q] = k.u[q]
    BY <1>7 DEF Only
  <2>2. SameNodes(k, km) BY <1>9, <2>1 DEF RewSides, SameNodes
  <2>3. km.u = ko.u /\ km.freel = ko.freel /\ Types(km) BY <1>9 DEF RewSides
  <2>4. km.fs = ko.fs BY DEF km, SetChanged
  <2>5. KeepU(k.u[p], km.u[p], {"op"}) /\ km.u[p].op = "close" BY <1>7, <2>3
  <2>6. \A q \in Proc \ {p} : km.u[q] = k.u[q] BY <2>1, <2>3
  <2>7. Bot(k.u[p].pc) = "" /\ Top(k.u[p].pc) = "" /\ k.u[p].chan = Awake /\ k.u[p].fd # 0
    BY <1>1, <1>3 DEF c
  <2>8. Top(k.u[p].pc) \notin LeafL BY <2>7, EmptyStack
  <2>9. km.freel = k.freel /\ km.fs = k.fs BY <2>1, <2>3, <2>4
  <2>10. QED BY ONLY <2>2, <2>3, <2>5, <2>6, <2>7, <2>8, <2>9 DEF Closes
<1>11. QED BY <1>6, <1>10, ClosefGood

\* The inodes have different names.
LEMMA KeyNames == /\ "mp" \notin InFs /\ "root" \notin InFs /\ "none" \notin InFs /\ "sub" \in InFs
                  /\ InFs \subseteq Inos /\ "mp" \in Inos /\ "root" \in Inos /\ InFs = File \cup {"sub"}
  BY InodeAssumption DEF InFs, Inos

\* A directory of the mounted file system that someone has, who does not mount it or take it away.
LEMMA MountedAt ==
  ASSUME NEW k, NEW X, Good(k, X), NEW p \in Proc, Bot(k.u[p].pc) \notin Owner, NEW d \in Slot,
         RefP(k.u[p], d) # 0, k.node[d].ino \in {"root", "sub"}
  PROVE  /\ \E m \in Slot : k.node[m].mroot # 0 /\ k.node[d].mpoint = m
         /\ \A q \in Proc : Bot(k.u[q].pc) # "unhang"
<1>0. MountInv(k) /\ OwnerInv(k) /\ TableInv(k) /\ PathOK(k, k.u[p]) /\ Core(k, X) BY DEF Good, Mounts, Core
<1>1. \E m \in Slot : k.node[m].mroot # 0 /\ k.node[d].mpoint = m
  <2>1. CASE k.node[d].ino = "sub" BY <2>1, <1>0, KeyNames DEF MountInv
  <2>2. CASE k.node[d].ino = "root"
    <3>1. IsMounted(k) BY <1>0, <2>2 DEF PathOK
    <3>2. PICK m \in Slot : k.node[m].mroot # 0 BY <3>1 DEF IsMounted
    <3>3. k.node[k.node[m].mroot].ino = "root" /\ k.node[k.node[m].mroot].mpoint = m BY <1>0, <3>2 DEF MountInv
    <3>4. k.node[m].mroot \in Slot BY <1>0, <3>2 DEF Core, Types, NodesOK, NodeOK, Opt
    <3>5. k.node[m].mroot = d BY <1>0, <2>2, <3>3, <3>4 DEF TableInv
    <3>6. QED BY <3>2, <3>3, <3>5
  <2>3. QED BY <2>1, <2>2
<1>2. ASSUME NEW q \in Proc, Bot(k.u[q].pc) = "unhang" PROVE FALSE
  <2>1. /\ PathOK(k, k.u[q]) /\ HandOK(k.u[q], k.u[q].pc) /\ k.u[q].mip \in Opt
    BY <1>0 DEF Good, Mounts, Core, ProcOK, Types, UsersOK, UserOK
  <2>2. d = k.u[q].rip /\ k.node[d].count = 1 /\ k.node[k.u[q].mip].mroot = k.u[q].rip BY <1>2, <2>1 DEF PathOK
  <2>3. k.u[q].mip \in Slot BY <1>2, <2>1 DEF HandOK, WithMip, Opt
  <2>4. MountRefs(k.node, d) # 0 BY <2>2, <2>3, MountPos
  <2>5. /\ k.node[d].count >= RefP(k.u[p], d) + MountRefs(k.node, d) + X[d]
        /\ RefP(k.u[p], d) \in Nat /\ MountRefs(k.node, d) \in Nat /\ X[d] \in Nat
    BY <1>0, CountAtLeast
  <2>6. QED BY <2>2, <2>4, <2>5
<1>3. QED BY <1>1, <1>2

\* An inode comes in core: of a mounted file system, or the root of one that is being mounted.
LEMMA MountsFill ==
  ASSUME NEW k, NEW k1, NEW p \in Proc, NEW X, NEW z \in Slot, NEW key \in Inos, Good(k, X), Core(k1, X),
         Others(k, k1, p), k.node[z].ino = "none",
         \A t \in Slot \ {z} : /\ k1.node[t].ino = k.node[t].ino /\ k1.node[t].mroot = k.node[t].mroot
                               /\ k1.node[t].mpoint = k.node[t].mpoint /\ k1.node[t].count = k.node[t].count,
         k1.node[z].ino = key, k1.node[z].mroot = 0, k1.fs.mdev = k.fs.mdev,
         Bot(k1.u[p].pc) \in Owner => Bot(k.u[p].pc) \in Owner,
         key = "root" => OwnsRoot(k1.u[p], z),
         key \in InFs => /\ Bot(k.u[p].pc) \notin Owner
                         /\ \E d \in Slot : /\ RefP(k.u[p], d) # 0 /\ k.node[d].ino \in {"root", "sub"}
                                            /\ k1.node[z].mpoint = k.node[d].mpoint,
         key \in {"mp", "root"} \cup InFs,
         \A s \in Slot : OwnsRoot(k.u[p], s) /\ k.node[s].ino = "root" => OwnsRoot(k1.u[p], s),
         PathOK(k1, k1.u[p])
  PROVE  Mounts(k1)
<1>0. /\ Core(k, X) /\ MountInv(k) /\ OwnerInv(k) /\ \A q \in Proc : PathOK(k, k.u[q])
      /\ Types(k) /\ Types(k1)
  BY DEF Good, Mounts, Core
<1>1. /\ k.node[z].mroot = 0
      /\ \A t \in Slot : k1.node[t].mroot = k.node[t].mroot
  BY <1>0 DEF MountInv
<1>2. IsMounted(k1) = IsMounted(k) BY <1>1 DEF IsMounted
<1>3. \A q \in Proc : RefP(k.u[q], z) = 0 BY <1>0, RefIno
<1>4. \A q \in Proc \ {p} : /\ Still(k.u[q], k1.u[q]) /\ Bot(k1.u[q].pc) = Bot(k.u[q].pc)
                            /\ \A s : OwnsRoot(k1.u[q], s) = OwnsRoot(k.u[q], s)
                            /\ \A s : RefP(k1.u[q], s) = RefP(k.u[q], s)
  BY SamePath, KeepHands DEF Others
<1>5. MountInv(k1)
  <2>1. ASSUME NEW m \in Slot, k1.node[m].mroot # 0
        PROVE  /\ k1.node[m].ino = "mp" /\ k1.fs.mdev
               /\ k1.node[k1.node[m].mroot].ino = "root" /\ k1.node[k1.node[m].mroot].mpoint = m
    <3> DEFINE r == k.node[m].mroot
    <3>1. k.node[m].mroot # 0 /\ r \in Slot /\ k1.node[m].mroot = r
      BY <2>1, <1>0, <1>1 DEF Types, NodesOK, NodeOK, Opt
    <3>2. k.node[m].ino = "mp" /\ k.fs.mdev /\ k.node[r].ino = "root" /\ k.node[r].mpoint = m
      BY <3>1, <1>0 DEF MountInv
    <3> HIDE DEF r
    <3>3. QED BY <3>1, <3>2
  <2>2. ASSUME NEW s \in Slot, k1.node[s].ino \in InFs
        PROVE  \E m \in Slot : k1.node[m].mroot # 0 /\ k1.node[s].mpoint = m
    <3>1. CASE s # z BY <3>1, <2>2, <1>0, <1>1 DEF MountInv
    <3>2. CASE s = z
      <4>1. PICK d \in Slot : /\ RefP(k.u[p], d) # 0 /\ k.node[d].ino \in {"root", "sub"}
                              /\ k1.node[z].mpoint = k.node[d].mpoint
        BY <3>2, <2>2
      <4>2. Bot(k.u[p].pc) \notin Owner BY <3>2, <2>2
      <4>3. \E m \in Slot : k.node[m].mroot # 0 /\ k.node[d].mpoint = m BY <4>1, <4>2, MountedAt
      <4>4. QED BY <4>1, <4>3, <3>2, <1>1
    <3>3. QED BY <3>1, <3>2
  <2>3. QED BY <2>1, <2>2 DEF MountInv
<1>6. OwnerInv(k1)
  <2>1. ASSUME NEW r \in Proc, NEW q \in Proc, Bot(k1.u[r].pc) \in Owner, Bot(k1.u[q].pc) \in Owner PROVE r = q
    <3>1. \A x \in Proc : Bot(k1.u[x].pc) \in Owner => Bot(k.u[x].pc) \in Owner BY <1>4
    <3>2. QED BY <2>1, <3>1, <1>0 DEF OwnerInv
  <2>2. ASSUME NEW s \in Slot, k1.node[s].ino = "root"
        PROVE  (\E m \in Slot : k1.node[m].mroot = s) \/ (\E q \in Proc : OwnsRoot(k1.u[q], s))
    <3>1. CASE s = z BY <3>1, <2>2
    <3>2. CASE s # z
      <4>1. k.node[s].ino = "root" BY <3>2, <2>2
      <4>2. (\E m \in Slot : k.node[m].mroot = s) \/ (\E q \in Proc : OwnsRoot(k.u[q], s))
        BY <4>1, <1>0 DEF OwnerInv
      <4>3. \A q \in Proc : OwnsRoot(k.u[q], s) => OwnsRoot(k1.u[q], s) BY <4>1, <1>4
      <4>4. QED BY <4>2, <4>3, <1>1
    <3>3. QED BY <3>1, <3>2
  <2>3. QED BY <2>1, <2>2 DEF OwnerInv
<1>7. ASSUME NEW q \in Proc \ {p} PROVE PathOK(k1, k1.u[q])
  <2> DEFINE c == k.u[q]  c1 == k1.u[q]
  <2>1. UserOK(c) /\ UserOK(c1) BY <1>0 DEF Types, UsersOK
  <2>2. ProcOK(c) /\ ProcOK(c1) BY <1>0 DEF Core
  <2>3. PathOK(k, c) /\ Still(c, c1) BY <1>0, <1>4
  <2>4. ASSUME NEW s \in Slot, RefP(c1, s) # 0
        PROVE  /\ k1.node[s].ino = k.node[s].ino
               /\ k.node[s].ino = "root" /\ ~IsMounted(k1) => ~IsMounted(k)
    <3>1. RefP(c, s) # 0 BY <2>4, <1>4
    <3>2. s # z BY <3>1, <1>3
    <3>3. QED BY <3>2, <1>2
  <2>5. Bot(c.pc) \in Owner => k1.fs.mdev /\ ~IsMounted(k1) BY <2>3, <1>2 DEF PathOK
  <2>6. Bot(c.pc) \in WithMip => k1.node[c.mip].mroot = k.node[c.mip].mroot
    <3>1. Bot(c.pc) \in WithMip => c.mip # 0 BY <2>2 DEF ProcOK, HandOK
    <3>2. c.mip # 0 => c.mip \in Slot BY <2>1 DEF UserOK, Opt
    <3>3. QED BY <3>1, <3>2, <1>1
  <2>7. ASSUME Bot(c.pc) = "unhang", NEW s \in Slot, k1.node[s].ino \notin {"mp", "none"}
        PROVE  k1.node[s].ino = k.node[s].ino /\ k1.node[s].count = k.node[s].count
    <3>1. s # z
      <4> SUFFICES ASSUME s = z PROVE FALSE OBVIOUS
      <4>1. CASE key \in InFs
        <5>1. PICK d \in Slot : RefP(k.u[p], d) # 0 /\ k.node[d].ino \in {"root", "sub"} BY <4>1
        <5>2. Bot(k.u[q].pc) # "unhang" BY <4>1, <5>1, MountedAt
        <5>3. QED BY <5>2, <2>7
      <4>2. CASE key = "root"
        <5>1. Bot(k.u[p].pc) \in Owner BY <4>2 DEF OwnsRoot
        <5>2. ~IsMounted(k) BY <5>1, <1>0 DEF PathOK
        <5>3. k.node[c.mip].mroot = c.rip BY <2>3, <2>7 DEF PathOK
        <5>4. c.mip # 0 /\ c.rip # 0 BY <2>2, <2>7 DEF ProcOK, HandOK, WithMip, WithRip
        <5>5. c.mip \in Slot BY <5>4, <2>1 DEF UserOK, Opt
        <5>6. QED BY <5>2, <5>3, <5>4, <5>5 DEF IsMounted
      <4>3. QED BY <4>1, <4>2, <2>7
    <3>2. QED BY <3>1
  <2>8. Bot(c.pc) = "unhang" => \A s \in Slot : k1.node[s].ino \notin {"mp", "none"} =>
                                   k1.node[s].ino = k.node[s].ino /\ k1.node[s].count = k.node[s].count
    BY <2>7
  <2> HIDE DEF c, c1
  <2>9. PathOK(k1, c1) BY <2>1, <2>2, <2>3, <2>4, <2>5, <2>6, <2>8, PathFrame
  <2>10. QED BY <2>9 DEF c1
<1>8. QED BY <1>5, <1>6, <1>7 DEF Mounts

\* What is done with the inode iget returns.
GetL == {"dir", "more", "got", "dormfile", "ialloc2", "fson3"}

\* These routines, among the others.
LEMMA GetLabels ==
  /\ GetL \subseteq PerhapsIp /\ GetL \subseteq LastL
  /\ \A b \in GetL : /\ b \notin WithIp \cup WithRip \cup WithMip \cup LeafL
                     /\ b \notin {"closef", "plockdir", "funmount", "fsoff", "unhang", "putdir", "fson", "fson2", "", "open1"}
                     /\ b \in Owner <=> b = "fson3"
                     /\ b \in WithDip <=> b # "dir"
                     /\ b \in Named <=> b \in {"got", "ialloc2"}
  BY DEF GetL, PerhapsIp, LastL, WithIp, WithDip, WithRip, WithMip, LeafL, Owner, Named

\* What a process has in hand that comes to iget with c0, and out of it with slot x.
LEMMA GetHands ==
  ASSUME NEW c0, NEW c1, NEW rest \in Seq(Label), NEW b \in GetL, HandOK(c0, rest), Bot(rest) = b, Top(rest) \notin LeafL,
         c0.ip = 0, NEW x \in Opt, KeepU(c0, c1, {"pc", "chan", "key", "ip"}), c1.ip = x,
         StackOK(c1.pc), Bot(c1.pc) = b, Top(c1.pc) \notin {"upput", "fstrunc", "fsiupdat"},
         Top(c1.pc) = "iget" => x = 0 /\ KeyOK(c1.key, b), Top(c1.pc) = "fsiread" => x # 0
  PROVE  /\ HandOK(c1, c1.pc) /\ c1.put = 0 /\ c1.rip = 0 /\ c1.mip = 0 /\ Up(c1) = 0 /\ c0.put = 0
         /\ Walk(c1) = (b \in {"got", "more"})
         /\ \A t \in Slot : /\ RefP(c1, t) = RefQ(c0, t) + B(x = t)
                            /\ HoldP(c1, t) <=> (HoldQ(c0, t, b) \/ t = x)
<1>1. /\ c1.dip = c0.dip /\ c1.put = c0.put /\ c1.rip = c0.rip /\ c1.mip = c0.mip /\ c1.fd = c0.fd
      /\ c1.op = c0.op /\ c1.name = c0.name
  BY DEF KeepU, UserF
<1>2. c0.put = 0 /\ c0.rip = 0 /\ c0.mip = 0 BY GetLabels DEF HandOK, LeafL
<1>3. HandOK(c1, c1.pc)
  <2>1. FdOK(c1, b)
    <3>1. FdOK(c0, b) BY HandFd
    <3>2. QED BY <3>1, <1>1, GetLabels DEF FdOK
  <2>2. /\ c1.dip # 0 <=> b \in WithDip
        /\ b = "more" => c1.op \in {"open", "creat", "exec", "unlink"}
        /\ c1.op \in {"open", "creat", "exec", "unlink"} => c1.name \in Name
    BY <1>1 DEF HandOK
  <2>3. b \in PerhapsIp /\ b \notin WithIp \cup WithRip \cup WithMip
        /\ b \notin {"closef", "plockdir", "funmount", "fsoff", "unhang"}
    BY GetLabels
  <2>4. QED BY <1>1, <1>2, <2>1, <2>2, <2>3 DEF HandOK, FdOK
<1>4. Up(c1) = 0 /\ Rip(c1) = 0 /\ Rip(c0) = 0 BY <1>1, <1>2 DEF Up, Rip
<1>5. Walk(c1) = (b \in {"got", "more"}) BY DEF Walk
<1>6. ASSUME NEW t \in Slot
      PROVE  /\ RefP(c1, t) = RefQ(c0, t) + B(x = t)
             /\ HoldP(c1, t) <=> (HoldQ(c0, t, b) \/ t = x)
  <2> DEFINE y == B(x = t)
             z == B(0 = t)
             v == B(c0.dip = t)
             w == B(c0.fd = t)
  <2>1. z = 0 /\ y \in Nat /\ v \in Nat /\ w \in Nat BY SlotFacts DEF B
  <2>2. RefP(c1, t) = y + v + w + z + z + z BY <1>1, <1>2, <1>4 DEF RefP
  <2>3. RefQ(c0, t) = z + v + w + z BY <1>4 DEF RefQ
  <2> HIDE DEF y, z, v, w
  <2>4. RefP(c1, t) = RefQ(c0, t) + y BY ONLY <2>1, <2>2, <2>3
  <2>5. HoldP(c1, t) <=> (HoldQ(c0, t, b) \/ t = x) BY <1>1, <1>2, <1>4, <1>5, SlotFacts DEF HoldP, HoldQ
  <2>6. QED BY <2>4, <2>5 DEF y
<1>7. QED BY <1>1, <1>2, <1>3, <1>4, <1>5, <1>6

\* that this suits its walk,
LEMMA GetPath ==
  ASSUME NEW k, NEW k1, NEW c0, NEW c1, NEW b \in GetL, PathAt(k, c0, b),
         KeepU(c0, c1, {"pc", "chan", "key", "ip"}),
         c1.fd # 0 => k1.node[c1.fd].ino = k.node[c1.fd].ino,
         b \in WithDip => k1.node[c1.dip].ino = k.node[c1.dip].ino,
         c1.ip # 0 => /\ b = "dir" => k1.node[c1.ip].ino \in {"mp", "root"}
                      /\ b = "more" => k1.node[c1.ip].ino = "sub"
                      /\ b \in Named => k1.node[c1.ip].ino = c1.key /\ c1.key \in InFs
  PROVE  PathAt(k1, c1, b)
<1>1. c1.fd = c0.fd /\ c1.fino = c0.fino /\ c1.dip = c0.dip BY DEF KeepU, UserF
<1>2. b \notin {"fson", "fson2", "fsoff", "unhang", "plockdir"} /\ (b = "fson3" => b \in WithDip) BY GetLabels
<1>3. /\ c0.fd # 0 => k.node[c0.fd].ino = c0.fino /\ c0.fino \in InFs
      /\ b = "fson3" => k.node[c0.dip].ino = "mp"
      /\ b \in WithDip \ {"fson3"} => k.node[c0.dip].ino \in {"root", "sub"}
  BY DEF PathAt
<1>4. QED BY <1>1, <1>2, <1>3 DEF PathAt

\* k0 is k with the inodes D unlocked, and p with nothing in ip.
Asks(k, k0, p, D) ==
  /\ Types(k0) /\ Others(k, k0, p) /\ k0.freel = k.freel /\ k0.fs.ilock = k.fs.ilock /\ k0.fs.mdev = k.fs.mdev
  /\ \A t \in D : HoldP(k.u[p], t)
  /\ \A t \in Slot : /\ k0.node[t].ino = k.node[t].ino /\ k0.node[t].mroot = k.node[t].mroot
                     /\ k0.node[t].count = k.node[t].count /\ k0.node[t].mpoint = k.node[t].mpoint
                     /\ k0.node[t].lock <=> (k.node[t].lock /\ t \notin D)
                     /\ k.node[t].want /\ t \notin D => k0.node[t].want
  /\ \A t \in D, q \in Proc \ {p} : k.node[t].want => k0.u[q].chan # On(t)
  /\ k0.u[p].chan = Awake /\ k0.u[p].ip = 0

\* It is to go on with rest, and all is in order for that.
Wants(k, k0, p, D, key, rest) ==
  /\ HandOK(k0.u[p], rest) /\ Top(rest) \notin LeafL /\ Bot(rest) \in GetL
  /\ KeyOK(key, Bot(rest)) /\ PathAt(k, k0.u[p], Bot(rest))
  /\ Bot(rest) \in Owner <=> Bot(k.u[p].pc) \in Owner
  /\ \A t \in Slot : /\ RefP(k.u[p], t) = RefQ(k0.u[p], t)
                     /\ HoldQ(k0.u[p], t, Bot(rest)) <=> (HoldP(k.u[p], t) /\ t \notin D)
                     /\ OwnsRoot(k.u[p], t) => k.node[t].ino # "root"

\* and its stack.
LEMMA GetStack ==
  ASSUME NEW rest \in Seq(Label), StackOK(rest), Bot(rest) \in GetL, Top(rest) \notin LeafL, NEW l \in {"iget", "fsiread"}
  PROVE  LET pc == <<l>> \o rest IN
         /\ pc \in Seq(Label) /\ pc # <<>> /\ StackOK(pc) /\ Top(pc) = l /\ Bot(pc) = Bot(rest) /\ rest # <<>>
<1>1. rest # <<>> BY GetLabels DEF Bot
<1>2. l \in Label /\ l \notin LastL BY LeafFacts DEF Label, LeafL
<1>3. Below(l, Bot(rest)) BY DEF Below, GetL
<1>4. QED BY <1>1, <1>2, <1>3, StackPush

\* What p has after iget that gives it slot x, one that was in core already.
Gets(k, k0, k1, p, key, rest, x) ==
  /\ x \in Opt /\ k1.fs.mdev = k.fs.mdev /\ \A t \in Slot : k1.node[t].mpoint = k.node[t].mpoint
  /\ KeepU(k0.u[p], k1.u[p], {"pc", "chan", "key", "ip"}) /\ k1.u[p].ip = x /\ k1.u[p].key = key
  /\ StackOK(k1.u[p].pc) /\ Bot(k1.u[p].pc) = Bot(rest)
  /\ Top(k1.u[p].pc) \notin {"upput", "fstrunc", "fsiupdat"}
  /\ Top(k1.u[p].pc) = "iget" => x = 0
  /\ Top(k1.u[p].pc) = "fsiread" => x # 0
  /\ x # 0 => x # k0.u[p].dip \/ Bot(rest) \in {"got", "more"}
  /\ x # 0 /\ Bot(rest) = "dir" => k.node[x].ino \in {"mp", "root"}
  /\ x # 0 /\ Bot(rest) = "more" => k.node[x].ino = "sub"
  /\ x # 0 /\ Bot(rest) \in Named => k.node[x].ino = key /\ key \in InFs
  /\ x # 0 /\ k.node[x].ino = "root" => IsMounted(k)

\* p has slot x, and no lock on D.
Holds(k, k1, p, D, x) ==
  \A t \in Slot : /\ RefP(k1.u[p], t) = RefP(k.u[p], t) + B(x = t)
                  /\ HoldP(k1.u[p], t) <=> ((HoldP(k.u[p], t) /\ t \notin D) \/ t = x)

\* iget mounts nothing and locks one slot.
LEMMA GetSettled ==
  ASSUME NEW k, NEW k0, NEW k1, NEW p \in Proc, NEW X, NEW D \in SUBSET Slot, NEW key, NEW rest \in Seq(Label), NEW x,
         Good(k, X), Asks(k, k0, p, D), Wants(k, k0, p, D, key, rest), Gets(k, k0, k1, p, key, rest, x)
  PROVE  Settled(k, k1, p) /\ Holds(k, k1, p, D, x)
<1> DEFINE c == k.u[p]
           c0 == k0.u[p]
           c1 == k1.u[p]
           b == Bot(rest)
<1>1. /\ HandOK(c0, rest) /\ Top(rest) \notin LeafL /\ b \in GetL /\ KeyOK(key, b) /\ PathAt(k, c0, b)
      /\ b \in Owner <=> Bot(c.pc) \in Owner
      /\ \A t \in Slot : /\ RefP(c, t) = RefQ(c0, t)
                         /\ HoldQ(c0, t, b) <=> (HoldP(c, t) /\ t \notin D)
                         /\ OwnsRoot(c, t) => k.node[t].ino # "root"
  BY DEF Wants
<1>2. c0.ip = 0 BY DEF Asks
<1>3. /\ KeepU(c0, c1, {"pc", "chan", "key", "ip"}) /\ c1.ip = x /\ c1.key = key
      /\ StackOK(c1.pc) /\ Bot(c1.pc) = b /\ Top(c1.pc) \notin {"upput", "fstrunc", "fsiupdat"}
      /\ Top(c1.pc) = "iget" => x = 0
      /\ Top(c1.pc) = "fsiread" => x # 0
  BY DEF Gets
<1>4. x # 0 => /\ x # c0.dip \/ b \in {"got", "more"}
               /\ b = "dir" => k.node[x].ino \in {"mp", "root"}
               /\ b = "more" => k.node[x].ino = "sub"
               /\ b \in Named => k.node[x].ino = key /\ key \in InFs
               /\ k.node[x].ino = "root" => IsMounted(k)
  BY DEF Gets
<1>5. PathOK(k, c) BY DEF Good, Mounts
<1>0. x \in Opt /\ k1.fs.mdev = k.fs.mdev /\ \A t \in Slot : k1.node[t].mpoint = k.node[t].mpoint BY DEF Gets
<1> HIDE DEF c, c0, c1, b
<1>6. /\ HandOK(c1, c1.pc) /\ c1.put = 0 /\ c1.rip = 0 /\ c1.mip = 0 /\ Up(c1) = 0 /\ c0.put = 0
      /\ Walk(c1) = (b \in {"got", "more"})
      /\ \A t \in Slot : /\ RefP(c1, t) = RefQ(c0, t) + B(x = t)
                         /\ HoldP(c1, t) <=> (HoldQ(c0, t, b) \/ t = x)
  BY <1>0, <1>1, <1>2, <1>3, GetHands DEF b
<1>7. \A t \in Slot : /\ RefP(c1, t) = RefP(c, t) + B(x = t)
                      /\ HoldP(c1, t) <=> ((HoldP(c, t) /\ t \notin D) \/ t = x)
  BY <1>1, <1>6
<1>8. c1.dip = c0.dip BY <1>3 DEF KeepU, UserF
<1>9. ProcOK(c1) BY <1>3, <1>4, <1>6, <1>8, GetLabels DEF ProcOK, Apart
<1>10. PathAt(k, c1, b) BY <1>1, <1>3, <1>4, GetPath
<1>11. RootOwned(k, c1)
  <2> SUFFICES ASSUME NEW t \in Slot, RefP(c1, t) # 0, k.node[t].ino = "root", ~IsMounted(k) PROVE b \in Owner
    BY <1>3 DEF RootOwned
  <2>1. x = t => x # 0 BY SlotFacts
  <2>2. x # t BY <2>1, <1>4
  <2>3. RefP(c, t) \in Nat BY HandRef
  <2>4. RefP(c, t) # 0 BY <2>2, <2>3, <1>7 DEF B
  <2>5. QED BY <2>4, <1>1, <1>5 DEF PathOK
<1>12. Empty(k1, c1) /\ PutOK(k1, c1) BY <1>1, <1>3, <1>6, GetLabels DEF Empty, PutOK
<1>13. Bot(c1.pc) \in Owner => Bot(c.pc) \in Owner /\ k1.fs.mdev /\ ~IsMounted(k) BY <1>0, <1>1, <1>3, <1>5 DEF PathOK
<1>14. \A t \in Slot : OwnsRoot(c, t) /\ k.node[t].ino = "root" => OwnsRoot(c1, t) BY <1>1
<1>15. PathAt(k, c1, Bot(c1.pc)) BY <1>3, <1>10
<1>16. Settled(k, k1, p) BY <1>0, <1>9, <1>11, <1>12, <1>13, <1>14, <1>15 DEF Settled, c, c1
<1>17. Holds(k, k1, p, D, x) BY <1>7 DEF Holds, c, c1
<1>18. QED BY <1>16, <1>17

\* iget sleeps, or finds the table full.
LEMMA GetWait ==
  ASSUME NEW k, NEW k0, NEW k1, NEW p \in Proc, NEW X, NEW D \in SUBSET Slot, NEW key, NEW rest \in Seq(Label),
         Good(k, X), Asks(k, k0, p, D), Wants(k, k0, p, D, key, rest), Types(k1),
         (\E s \in Slot : Sleeps(k0, k1, p, key, s, rest)) \/ Lacks(k0, k1, p, key, rest)
  PROVE  Good(k1, X)
<1> DEFINE c0 == k0.u[p]
           c1 == k1.u[p]
           ig == <<"iget">> \o rest
<1>1. /\ ig \in Seq(Label) /\ ig # <<>> /\ StackOK(ig) /\ Top(ig) = "iget" /\ Bot(ig) = Bot(rest)
      /\ StackOK(rest) /\ Top(rest) \notin LeafL
  <2>1. HandOK(c0, rest) /\ Top(rest) \notin LeafL /\ Bot(rest) \in GetL BY DEF Wants
  <2>2. StackOK(rest) BY <2>1 DEF HandOK
  <2>3. QED BY <2>1, <2>2, GetStack
<1> HIDE DEF ig
<1>2. \A t \in Slot : /\ k0.node[t].ino = k.node[t].ino /\ k0.node[t].mroot = k.node[t].mroot
                      /\ k0.node[t].count = k.node[t].count /\ k0.node[t].mpoint = k.node[t].mpoint
                      /\ k0.node[t].lock <=> (k.node[t].lock /\ t \notin D)
                      /\ k.node[t].want /\ t \notin D => k0.node[t].want
  BY DEF Asks
<1>3. /\ c0.ip = 0 /\ c0.chan = Awake /\ Others(k, k0, p) /\ k0.freel = k.freel
      /\ k0.fs.ilock = k.fs.ilock /\ k0.fs.mdev = k.fs.mdev
      /\ \A t \in D : HoldP(k.u[p], t)
      /\ \A t \in D, q \in Proc \ {p} : k.node[t].want => k0.u[q].chan # On(t)
  BY DEF Asks
<1>4. /\ \A t \in Slot : /\ k1.node[t].ino = k0.node[t].ino /\ k1.node[t].mroot = k0.node[t].mroot
                         /\ k1.node[t].count = k0.node[t].count /\ k1.node[t].mpoint = k0.node[t].mpoint
                         /\ k1.node[t].lock = k0.node[t].lock
                         /\ k0.node[t].want => k1.node[t].want
      /\ SameRest(k0, k1) /\ \A q \in Proc \ {p} : k1.u[q] = k0.u[q]
      /\ c1.key = key /\ c1.ip = 0 /\ KeepU(c0, c1, {"pc", "chan", "key", "ip"})
      /\ \/ /\ c1.pc = ig
            /\ \E s \in Slot : c1.chan = On(s) /\ k1.node[s].lock /\ k1.node[s].want
         \/ c1.pc = rest /\ c1.chan = Awake
  <2>1. CASE \E s \in Slot : Sleeps(k0, k1, p, key, s, rest)
    <3>1. PICK s \in Slot : Sleeps(k0, k1, p, key, s, rest) BY <2>1
    <3>2. /\ k0.node[s].lock /\ SameRest(k0, k1) /\ NodeBut(k0, k1, s)
          /\ KeepN(k0.node[s], k1.node[s], {"want"}) /\ k1.node[s].want
          /\ \A q \in Proc \ {p} : k1.u[q] = k0.u[q]
          /\ c1.pc = ig /\ c1.chan = On(s) /\ c1.key = key /\ KeepU(c0, c1, {"pc", "chan", "key"})
      BY <3>1 DEF Sleeps, ig
    <3>3. ASSUME NEW t \in Slot
          PROVE  /\ k1.node[t].ino = k0.node[t].ino /\ k1.node[t].mroot = k0.node[t].mroot
                 /\ k1.node[t].count = k0.node[t].count /\ k1.node[t].mpoint = k0.node[t].mpoint
                 /\ k1.node[t].lock = k0.node[t].lock
                 /\ k0.node[t].want => k1.node[t].want
      <4>1. CASE t = s
        <5>1. KeepN(k0.node[t], k1.node[t], {"want"}) /\ k1.node[t].want BY <3>2, <4>1
        <5>2. /\ k1.node[t].ino = k0.node[t].ino /\ k1.node[t].mroot = k0.node[t].mroot
              /\ k1.node[t].count = k0.node[t].count /\ k1.node[t].mpoint = k0.node[t].mpoint
              /\ k1.node[t].lock = k0.node[t].lock
          BY ONLY <5>1 DEF KeepN, NodeF
        <5>3. QED BY <5>1, <5>2
      <4>2. CASE t # s BY <3>2, <4>2 DEF NodeBut
      <4>3. QED BY <4>1, <4>2
    <3> HIDE DEF c0, c1
    <3>4. c1.ip = 0 /\ KeepU(c0, c1, {"pc", "chan", "key", "ip"}) BY <3>2, <1>3 DEF KeepU, UserF
    <3>5. k1.node[s].lock BY <3>2, <3>3
    <3>6. QED BY <3>2, <3>3, <3>4, <3>5 DEF c0, c1
  <2>2. CASE Lacks(k0, k1, p, key, rest)
    <3>1. /\ SameRest(k0, k1) /\ k1.node = k0.node
          /\ \A q \in Proc \ {p} : k1.u[q] = k0.u[q]
          /\ c1.pc = rest /\ c1.ip = 0 /\ c1.key = key /\ KeepU(c0, c1, {"pc", "ip", "key"})
      BY <2>2 DEF Lacks
    <3>2. c1.chan = Awake /\ KeepU(c0, c1, {"pc", "chan", "key", "ip"}) BY <3>1, <1>3 DEF KeepU, UserF
    <3>3. QED BY <3>1, <3>2
  <2>3. QED BY <2>1, <2>2
<1>5. StackOK(c1.pc) /\ Bot(c1.pc) = Bot(rest) BY <1>1, <1>4
<1>6. Top(c1.pc) \notin {"upput", "fstrunc", "fsiupdat", "fsiread"} BY <1>1, <1>4 DEF LeafL
<1>7. \A t \in Slot : k1.node[t].mpoint = k.node[t].mpoint BY <1>2, <1>4
<1>8. k1.fs.mdev = k.fs.mdev /\ k1.fs.ilock = k.fs.ilock /\ k1.freel = k.freel BY <1>3, <1>4 DEF SameRest
<1> DEFINE x == 0
<1>9. x \in Opt /\ c1.ip = x /\ (Top(c1.pc) = "iget" => x = 0) /\ (Top(c1.pc) = "fsiread" => x # 0)
      /\ Top(c1.pc) \notin {"upput", "fstrunc", "fsiupdat"}
  BY <1>4, <1>6, SlotFacts
<1>10. x = 0 OBVIOUS
<1> HIDE DEF x
<1>11. Settled(k, k1, p) /\ Holds(k, k1, p, D, x)
  <2>1. k1.fs.mdev = k.fs.mdev BY <1>8
  <2>2. KeepU(k0.u[p], k1.u[p], {"pc", "chan", "key", "ip"}) /\ k1.u[p].ip = x /\ k1.u[p].key = key BY <1>4, <1>9
  <2>3. StackOK(k1.u[p].pc) /\ Bot(k1.u[p].pc) = Bot(rest) BY <1>5
  <2>4. /\ Top(k1.u[p].pc) \notin {"upput", "fstrunc", "fsiupdat"}
        /\ Top(k1.u[p].pc) = "iget" => x = 0
        /\ Top(k1.u[p].pc) = "fsiread" => x # 0
    BY <1>9
  <2>5. Gets(k, k0, k1, p, key, rest, x) BY <1>7, <1>9, <1>10, <2>1, <2>2, <2>3, <2>4 DEF Gets
  <2>6. QED BY <2>5, GetSettled
<1>12. \A t \in Slot : /\ RefP(k1.u[p], t) = RefP(k.u[p], t)
                       /\ HoldP(k1.u[p], t) <=> (HoldP(k.u[p], t) /\ t \notin D)
  <2> SUFFICES ASSUME NEW t \in Slot
               PROVE  /\ RefP(k1.u[p], t) = RefP(k.u[p], t)
                      /\ HoldP(k1.u[p], t) <=> (HoldP(k.u[p], t) /\ t \notin D)
    OBVIOUS
  <2>1. t # x BY <1>10, SlotFacts
  <2>2. B(x = t) = 0 /\ RefP(k.u[p], t) \in Nat BY <2>1, HandRef DEF B
  <2>3. QED BY <1>11, <2>1, <2>2 DEF Holds
<1>13. Loose(k, k1, p, D)
  <2>1. Others(k, k1, p) BY <1>3, <1>4 DEF Others
  <2>2. \A t \in Slot : /\ k1.node[t].ino = k.node[t].ino /\ k1.node[t].mroot = k.node[t].mroot
                        /\ k1.node[t].count = k.node[t].count
                        /\ k1.node[t].lock <=> (k.node[t].lock /\ t \notin D)
                        /\ k.node[t].want /\ t \notin D => k1.node[t].want
    BY <1>2, <1>4
  <2>3. \A t \in D, q \in Proc \ {p} : k.node[t].want => k1.u[q].chan # On(t) BY <1>3, <1>4
  <2>4. \/ k1.u[p].chan = Awake
        \/ \E t \in Slot : k1.u[p].chan = On(t) /\ k1.node[t].lock /\ k1.node[t].want /\ k1.u[p].pc # <<>>
    BY <1>1, <1>4
  <2>5. QED BY <1>3, <1>8, <1>12, <2>1, <2>2, <2>3, <2>4 DEF Loose
<1>14. QED BY <1>11, <1>13, LooseGood

\* What is looked for tells the inode.
LEMMA KeyFacts ==
  \A key, b : b \in GetL /\ KeyOK(key, b) =>
    /\ key \in {"mp", "root"} \cup InFs /\ key \in Inos /\ key # "none"
    /\ b = "dir" => key = "mp"
    /\ b = "more" => key = "sub"
    /\ b \in Named \/ b = "dormfile" => key \in InFs
    /\ key = "root" <=> b = "fson3"
    /\ key \in InFs => b \in WithDip /\ b # "fson3"
<1> SUFFICES ASSUME NEW key, NEW b \in GetL, KeyOK(key, b)
             PROVE  /\ key \in {"mp", "root"} \cup InFs /\ key \in Inos /\ key # "none"
                    /\ b = "dir" => key = "mp"
                    /\ b = "more" => key = "sub"
                    /\ b \in Named \/ b = "dormfile" => key \in InFs
                    /\ key = "root" <=> b = "fson3"
                    /\ key \in InFs => b \in WithDip /\ b # "fson3"
  OBVIOUS
<1>1. /\ b = "dir" => key = "mp"
      /\ b = "more" => key = "sub"
      /\ b = "fson3" => key = "root"
      /\ b \notin {"dir", "more", "fson3"} => key \in InFs
  BY DEF KeyOK
<1>2. /\ "mp" \notin InFs /\ "root" \notin InFs /\ "none" \notin InFs /\ "sub" \in InFs
      /\ InFs \subseteq Inos /\ "mp" \in Inos /\ "root" \in Inos
  BY KeyNames
<1>3. key \in {"mp", "root"} \cup InFs BY <1>1, <1>2
<1>4. key \in Inos /\ key # "none" BY <1>3, <1>2
<1>5. b \in Named \/ b = "dormfile" => b \notin {"dir", "more", "fson3"} BY GetLabels
<1>6. key = "root" <=> b = "fson3" BY <1>1, <1>2
<1>7. key \in InFs => b \in WithDip /\ b # "fson3" BY <1>1, <1>2, GetLabels
<1>8. QED BY <1>1, <1>3, <1>4, <1>5, <1>6, <1>7

\* The slot iget finds for key is one to go on with.
Fit(k, key, b, s) ==
  /\ b = "dir" => k.node[s].ino \in {"mp", "root"}
  /\ b = "more" => k.node[s].ino = "sub"
  /\ b \in Named => k.node[s].ino = key /\ key \in InFs
  /\ k.node[s].ino = "root" => IsMounted(k)
  /\ k.node[s].ino # "none"

\* What iget finds is what was looked for, or the root that is mounted there.
LEMMA FoundFacts ==
  ASSUME NEW k, NEW k0, NEW p \in Proc, NEW X, NEW D, NEW key, NEW rest, Good(k, X), Asks(k, k0, p, D),
         Wants(k, k0, p, D, key, rest),
         NEW s0 \in Slot, NEW s \in Slot, k0.node[s0].ino = key, s = Found(k0, s0)
  PROVE  Fit(k, key, Bot(rest), s)
<1> DEFINE b == Bot(rest)
<1>1. KeyOK(key, b) /\ b \in GetL /\ (b \in Owner <=> Bot(k.u[p].pc) \in Owner)
      /\ \A t \in Slot : OwnsRoot(k.u[p], t) => k.node[t].ino # "root"
  BY DEF Wants
<1>2. k.node[s0].ino = key /\ k.node[s0].mroot = k0.node[s0].mroot BY DEF Asks
<1>3. MountInv(k) /\ OwnerInv(k) BY DEF Good, Mounts
<1> HIDE DEF b
<1>4. /\ key \in {"mp", "root"} \cup InFs /\ key \in Inos /\ key # "none"
      /\ b = "dir" => key = "mp"
      /\ b = "more" => key = "sub"
      /\ b \in Named \/ b = "dormfile" => key \in InFs
      /\ key = "root" <=> b = "fson3"
  BY <1>1, KeyFacts
<1>5. \/ s = s0
      \/ k.node[s0].mroot # 0 /\ k.node[s0].mroot = s /\ key = "mp" /\ k.node[s].ino = "root" /\ IsMounted(k)
  BY <1>2, <1>3 DEF Found, MountInv, IsMounted
<1>6. CASE s # s0
  <2>1. key = "mp" /\ k.node[s].ino = "root" /\ IsMounted(k) BY <1>5, <1>6
  <2>2. b \notin Named /\ b # "more" BY <1>4, <2>1, KeyNames
  <2>3. QED BY <2>1, <2>2 DEF b, Fit
<1>7. CASE s = s0
  <2>1. key = "root" => IsMounted(k)
    <3> SUFFICES ASSUME key = "root" PROVE IsMounted(k) OBVIOUS
    <3>1. b = "fson3" /\ b \in Owner BY <1>1, <1>4, GetLabels
    <3>2. Bot(k.u[p].pc) \in Owner BY <1>1, <3>1
    <3>3. (\E m \in Slot : k.node[m].mroot = s0) \/ (\E q \in Proc : OwnsRoot(k.u[q], s0))
      BY <1>2, <1>3 DEF OwnerInv
    <3>4. \A q \in Proc : OwnsRoot(k.u[q], s0) => q = p BY <3>2, <1>3 DEF OwnerInv, OwnsRoot
    <3>5. ~OwnsRoot(k.u[p], s0) BY <1>1, <1>2
    <3>6. \E m \in Slot : k.node[m].mroot = s0 BY <3>3, <3>4, <3>5
    <3>7. QED BY <3>6, SlotFacts DEF IsMounted
  <2>2. QED BY <1>2, <1>4, <1>7, <2>1 DEF b, Fit
<1>8. QED BY <1>6, <1>7

\* iget takes what is in core.
LEMMA GetTake ==
  ASSUME NEW k, NEW k0, NEW k1, NEW p \in Proc, NEW X, NEW D \in SUBSET Slot, NEW key, NEW rest \in Seq(Label),
         Good(k, X), Asks(k, k0, p, D), Wants(k, k0, p, D, key, rest), Types(k1),
         NEW s0 \in Slot, NEW s \in Slot, k0.node[s0].ino = key, s = Found(k0, s0),
         Takes(k0, k1, p, key, s, rest)
  PROVE  Good(k1, X)
<1> DEFINE c == k.u[p]
           c0 == k0.u[p]
           c1 == k1.u[p]
           b == Bot(rest)
<1>1. \A t \in Slot : /\ k0.node[t].ino = k.node[t].ino /\ k0.node[t].mroot = k.node[t].mroot
                      /\ k0.node[t].count = k.node[t].count /\ k0.node[t].mpoint = k.node[t].mpoint
                      /\ k0.node[t].lock <=> (k.node[t].lock /\ t \notin D)
                      /\ k.node[t].want /\ t \notin D => k0.node[t].want
  BY DEF Asks
<1>2. /\ c0.ip = 0 /\ c0.chan = Awake /\ Others(k, k0, p) /\ k0.freel = k.freel
      /\ k0.fs.ilock = k.fs.ilock /\ k0.fs.mdev = k.fs.mdev
      /\ \A t \in D : HoldP(k.u[p], t)
      /\ \A t \in D, q \in Proc \ {p} : k.node[t].want => k0.u[q].chan # On(t)
  BY DEF Asks
<1>3. /\ ~k0.node[s].lock /\ SameRest(k0, k1) /\ NodeBut(k0, k1, s)
      /\ KeepN(k0.node[s], k1.node[s], {"lock", "count"}) /\ k1.node[s].lock
      /\ k1.node[s].count = k0.node[s].count + 1
      /\ \A q \in Proc \ {p} : k1.u[q] = k0.u[q]
      /\ c1.pc = rest /\ c1.ip = s /\ c1.key = key
      /\ KeepU(c0, c1, {"pc", "ip", "key"})
  BY DEF Takes
<1>4. ASSUME NEW t \in Slot
      PROVE  /\ k1.node[t].ino = k.node[t].ino /\ k1.node[t].mroot = k.node[t].mroot
             /\ k1.node[t].mpoint = k.node[t].mpoint
             /\ t # s => k1.node[t].count = k.node[t].count
             /\ t # s => (k1.node[t].lock <=> (k.node[t].lock /\ t \notin D))
             /\ k.node[t].want /\ t \notin D => k1.node[t].want
  <2>1. CASE t = s
    <3>1. KeepN(k0.node[t], k1.node[t], {"lock", "count"}) BY <2>1, <1>3
    <3>2. /\ k1.node[t].ino = k0.node[t].ino /\ k1.node[t].mroot = k0.node[t].mroot
          /\ k1.node[t].mpoint = k0.node[t].mpoint /\ k1.node[t].want = k0.node[t].want
      BY ONLY <3>1 DEF KeepN, NodeF
    <3>3. QED BY <2>1, <3>2, <1>1
  <2>2. CASE t # s BY <2>2, <1>1, <1>3 DEF NodeBut
  <2>3. QED BY <2>1, <2>2
<1>5. k1.fs.mdev = k.fs.mdev /\ k1.fs.ilock = k.fs.ilock /\ k1.freel = k.freel BY <1>2, <1>3 DEF SameRest
<1>6. /\ HandOK(c0, rest) /\ Top(rest) \notin LeafL /\ b \in GetL
      /\ \A t \in Slot : HoldQ(c0, t, b) <=> (HoldP(c, t) /\ t \notin D)
  BY DEF Wants
<1>7. s # 0 /\ s \in Opt BY SlotFacts
<1>8. s # c0.dip \/ b \in {"got", "more"}
  <2>1. ASSUME s = c0.dip, b \notin {"got", "more"} PROVE FALSE
    <3>1. HoldQ(c0, s, b) BY <2>1 DEF HoldQ
    <3>2. HoldP(c, s) /\ s \notin D BY <3>1, <1>6
    <3>3. k.node[s].lock BY <3>2 DEF Good, Core, LockInv
    <3>4. QED BY <3>2, <3>3, <1>1, <1>3
  <2>2. QED BY <2>1
<1>9. /\ b = "dir" => k.node[s].ino \in {"mp", "root"}
      /\ b = "more" => k.node[s].ino = "sub"
      /\ b \in Named => k.node[s].ino = key /\ key \in InFs
      /\ k.node[s].ino = "root" => IsMounted(k)
      /\ k.node[s].ino # "none"
  <2>1. Fit(k, key, Bot(rest), s) BY FoundFacts
  <2>2. QED BY <2>1 DEF Fit
<1>10. Gets(k, k0, k1, p, key, rest, s)
  <2>1. StackOK(rest) BY <1>6 DEF HandOK
  <2>2. Top(rest) \notin {"upput", "fstrunc", "fsiupdat", "iget", "fsiread"} BY <1>6 DEF LeafL
  <2>3. KeepU(c0, c1, {"pc", "chan", "key", "ip"}) BY <1>3 DEF KeepU
  <2>4. QED BY <1>3, <1>4, <1>5, <1>7, <1>8, <1>9, <2>1, <2>2, <2>3 DEF Gets
<1>11. Settled(k, k1, p) /\ Holds(k, k1, p, D, s) BY <1>10, GetSettled
<1>12. Took(k, k1, p, s, D)
  <2>1. Others(k, k1, p) BY <1>2, <1>3 DEF Others
  <2>2. \A t \in Slot : /\ RefP(k1.u[p], t) = RefP(k.u[p], t) + B(s = t)
                        /\ HoldP(k1.u[p], t) <=> ((HoldP(k.u[p], t) /\ t \notin D) \/ t = s)
    BY <1>11 DEF Holds
  <2>3. k1.u[p].chan = Awake BY <1>2, <1>3 DEF KeepU, UserF
  <2>4. k1.node[s].count = k.node[s].count + 1 /\ (~k.node[s].lock \/ s \in D) BY <1>1, <1>3
  <2>5. \A t \in D, q \in Proc \ {p} : k.node[t].want => k1.u[q].chan # On(t) BY <1>2, <1>3
  <2>6. QED BY <1>2, <1>3, <1>4, <1>5, <1>9, <2>1, <2>2, <2>3, <2>4, <2>5 DEF Took
<1>13. QED BY <1>11, <1>12, TookGood

\* Nobody has a hand on a free slot.
LEMMA FreeSlot ==
  ASSUME NEW k, NEW X, Core(k, X), Mounts(k), NEW z \in Slot, k.node[z].ino = "none"
  PROVE  /\ k.node[z].count = 0 /\ ~k.node[z].lock /\ k.node[z].mroot = 0
         /\ \A q \in Proc : RefP(k.u[q], z) = 0 /\ ~HoldP(k.u[q], z)
<1>1. k.node[z].count = 0 /\ ~k.node[z].lock BY DEF Core, TableInv
<1>2. k.node[z].mroot = 0 BY DEF Mounts, MountInv
<1>3. \A q \in Proc : RefP(k.u[q], z) = 0 BY RefIno
<1>4. \A q \in Proc : ~HoldP(k.u[q], z) BY <1>1 DEF Core, LockInv
<1>5. QED BY <1>1, <1>2, <1>3, <1>4

\* What iget makes of the table, with a free slot for key.
Fresh(k, k1, p, D, z, key) ==
  /\ z \in Slot /\ k.node[z].ino = "none" /\ Fills(k, k1, z, key) /\ Types(k1) /\ Others(k, k1, p)
  /\ \A t \in Slot \ {z} : /\ k1.node[t].ino = k.node[t].ino /\ k1.node[t].mroot = k.node[t].mroot
                           /\ k1.node[t].mpoint = k.node[t].mpoint /\ k1.node[t].count = k.node[t].count
                           /\ k1.node[t].lock <=> (k.node[t].lock /\ t \notin D)
                           /\ k.node[t].want /\ t \notin D => k1.node[t].want
  /\ k1.node[z].ino = key /\ k1.node[z].count = 1 /\ k1.node[z].lock /\ k1.node[z].mroot = 0
  /\ k1.fs.mdev = k.fs.mdev /\ k1.fs.ilock = k.fs.ilock
  /\ \A t \in D : HoldP(k.u[p], t)
  /\ \A t \in D, q \in Proc \ {p} : k.node[t].want => k1.u[q].chan # On(t)
  /\ k1.u[p].chan = Awake

\* iget takes a free slot,
LEMMA FreshFacts ==
  ASSUME NEW k, NEW k0, NEW k1, NEW p \in Proc, NEW X, NEW D \in SUBSET Slot, NEW key, NEW rest \in Seq(Label),
         Good(k, X), Asks(k, k0, p, D), Wants(k, k0, p, D, key, rest), Types(k1), NEW z \in Slot,
         \A s \in Slot : k0.node[s].ino # key, Makes(k0, k1, p, key, z, rest)
  PROVE  Fresh(k, k1, p, D, z, key)
<1> DEFINE c0 == k0.u[p]
           c1 == k1.u[p]
<1>1. \A t \in Slot : /\ k0.node[t].ino = k.node[t].ino /\ k0.node[t].mroot = k.node[t].mroot
                      /\ k0.node[t].count = k.node[t].count /\ k0.node[t].mpoint = k.node[t].mpoint
                      /\ k0.node[t].lock <=> (k.node[t].lock /\ t \notin D)
                      /\ k.node[t].want /\ t \notin D => k0.node[t].want
  BY DEF Asks
<1>2. /\ c0.chan = Awake /\ Others(k, k0, p) /\ k0.freel = k.freel
      /\ k0.fs.ilock = k.fs.ilock /\ k0.fs.mdev = k.fs.mdev
      /\ \A t \in D : HoldP(k.u[p], t)
      /\ \A t \in D, q \in Proc \ {p} : k.node[t].want => k0.u[q].chan # On(t)
  BY DEF Asks
<1>3. /\ k0.freel # <<>> /\ z = Head(k0.freel) /\ k1.freel = Tail(k0.freel) /\ k1.fs = k0.fs
      /\ NodeBut(k0, k1, z)
      /\ k1.node[z].ino = key /\ k1.node[z].count = 1 /\ k1.node[z].lock /\ k1.node[z].mroot = 0
      /\ \A q \in Proc \ {p} : k1.u[q] = k0.u[q]
      /\ KeepU(c0, c1, {"pc", "ip", "key"})
  BY DEF Makes
<1>4. key # "none" BY KeyFacts DEF Wants
<1>5. k.node[z].ino = "none"
  <2>1. k.freel \in Seq(Slot) /\ k.freel # <<>> BY <1>2, <1>3 DEF Good, Core, Types
  <2> DEFINE f == k.freel
  <2>2. f \in Seq(Slot) /\ f # <<>> BY <2>1
  <2> HIDE DEF f
  <2>3. Head(f) = f[1] /\ 1 \in 1..Len(f) BY <2>2, TailSeq
  <2>4. QED BY <2>3, <1>2, <1>3 DEF f, Good, Core, TableInv
<1>6. ASSUME NEW t \in Slot \ {z}
      PROVE  /\ k1.node[t].ino = k.node[t].ino /\ k1.node[t].mroot = k.node[t].mroot
             /\ k1.node[t].mpoint = k.node[t].mpoint /\ k1.node[t].count = k.node[t].count
             /\ k1.node[t].lock <=> (k.node[t].lock /\ t \notin D)
             /\ k.node[t].want /\ t \notin D => k1.node[t].want
  BY <1>1, <1>3 DEF NodeBut
<1>7. Fills(k, k1, z, key)
  <2>1. \A t \in Slot \ {z} : SameSlot(k.node[t], k1.node[t])
    <3> SUFFICES ASSUME NEW t \in Slot \ {z} PROVE SameSlot(k.node[t], k1.node[t]) OBVIOUS
    <3>1. QED BY <1>6 DEF SameSlot
  <2>2. \A t \in Slot : k.node[t].ino # key BY <1>1
  <2>3. QED BY <1>2, <1>3, <1>4, <2>1, <2>2 DEF Fills
<1>8. Others(k, k1, p) BY <1>2, <1>3 DEF Others
<1>9. c1.chan = Awake BY <1>2, <1>3 DEF KeepU, UserF
<1>10. \A t \in D, q \in Proc \ {p} : k.node[t].want => k1.u[q].chan # On(t) BY <1>2, <1>3
<1>11. QED BY <1>2, <1>3, <1>5, <1>6, <1>7, <1>8, <1>9, <1>10 DEF Fresh

\* the counts and locks balance,
LEMMA FreshCore ==
  ASSUME NEW k, NEW k1, NEW p \in Proc, NEW X, NEW D \in SUBSET Slot, NEW z, NEW key \in Inos,
         Good(k, X), Fresh(k, k1, p, D, z, key), Holds(k, k1, p, D, z), ProcOK(k1.u[p]), k1.u[p].pc # <<>>,
         k1.u[p].put = 0
  PROVE  Core(k1, X) /\ \A q \in Proc : PutOK(k1, k1.u[q])
<1>0. Core(k, X) /\ Mounts(k) /\ (\A q \in Proc : PutOK(k, k.u[q])) /\ Types(k) /\ Texts(X) BY DEF Good, Core
<1>1. /\ z \in Slot /\ k.node[z].ino = "none" /\ Fills(k, k1, z, key) /\ Types(k1) /\ Others(k, k1, p)
      /\ \A t \in Slot \ {z} : /\ k1.node[t].ino = k.node[t].ino /\ k1.node[t].mroot = k.node[t].mroot
                               /\ k1.node[t].mpoint = k.node[t].mpoint /\ k1.node[t].count = k.node[t].count
                               /\ k1.node[t].lock <=> (k.node[t].lock /\ t \notin D)
                               /\ k.node[t].want /\ t \notin D => k1.node[t].want
      /\ k1.node[z].ino = key /\ k1.node[z].count = 1 /\ k1.node[z].lock /\ k1.node[z].mroot = 0
      /\ k1.fs.mdev = k.fs.mdev /\ k1.fs.ilock = k.fs.ilock
      /\ \A t \in D : HoldP(k.u[p], t)
      /\ \A t \in D, q \in Proc \ {p} : k.node[t].want => k1.u[q].chan # On(t)
      /\ k1.u[p].chan = Awake
  BY DEF Fresh
<1>2. /\ k.node[z].count = 0 /\ ~k.node[z].lock /\ k.node[z].mroot = 0
      /\ \A q \in Proc : RefP(k.u[q], z) = 0 /\ ~HoldP(k.u[q], z)
  BY <1>0, <1>1, FreeSlot
<1>3. \A t \in Slot : /\ RefP(k1.u[p], t) = RefP(k.u[p], t) + B(z = t)
                      /\ HoldP(k1.u[p], t) <=> ((HoldP(k.u[p], t) /\ t \notin D) \/ t = z)
  BY DEF Holds
<1>4. \A t \in Slot : k1.node[t].mroot = k.node[t].mroot BY <1>1, <1>2
<1>5. \A t \in Slot : MountRefs(k1.node, t) = MountRefs(k.node, t) BY <1>4, SameMountRefs
<1>6. Ledger(k, k1, p, X, X)
  <2> SUFFICES ASSUME NEW t \in Slot
               PROVE  k1.node[t].count - RefP(k1.u[p], t) - MountRefs(k1.node, t) - X[t]
                    = k.node[t].count - RefP(k.u[p], t) - MountRefs(k.node, t) - X[t]
    BY DEF Ledger
  <2> DEFINE y == B(z = t)
             r == RefP(k.u[p], t)
             r1 == RefP(k1.u[p], t)
             m == MountRefs(k.node, t)
             m1 == MountRefs(k1.node, t)
             n == k.node[t].count
             n1 == k1.node[t].count
             x == X[t]
  <2>1. r1 = r + y /\ m1 = m /\ r \in Int /\ m \in Int /\ x \in Int
    BY <1>0, <1>3, <1>5, HandRef, MountNat DEF Texts
  <2>2. n1 = n + y /\ n \in Int /\ y \in Int
    <3>1. CASE t = z BY <3>1, <1>1, <1>2 DEF B
    <3>2. CASE t # z
      <4>1. n \in Int BY <1>0 DEF Types, NodesOK, NodeOK
      <4>2. QED BY <3>2, <4>1, <1>1 DEF B
    <3>3. QED BY <3>1, <3>2
  <2> HIDE DEF y, r, r1, m, m1, n, n1, x
  <2>3. n1 - r1 - m1 - x = n - r - m - x BY ONLY <2>1, <2>2
  <2>4. QED BY <2>3 DEF r, r1, m, m1, n, n1, x
<1>7. Locking(k, k1, p)
  <2> SUFFICES ASSUME NEW t \in Slot
               PROVE  /\ k1.node[t].lock <=> (HoldP(k1.u[p], t) \/ (k.node[t].lock /\ ~HoldP(k.u[p], t)))
                      /\ HoldP(k1.u[p], t) => HoldP(k.u[p], t) \/ ~k.node[t].lock
    BY DEF Locking
  <2>1. CASE t = z BY <2>1, <1>1, <1>2, <1>3
  <2>2. CASE t # z
    <3>1. HoldP(k.u[p], t) => k.node[t].lock BY <1>0 DEF Core, LockInv
    <3>2. k1.node[t].lock <=> (k.node[t].lock /\ t \notin D) BY <2>2, <1>1
    <3>3. HoldP(k1.u[p], t) <=> (HoldP(k.u[p], t) /\ t \notin D) BY <2>2, <1>3
    <3>4. t \in D => HoldP(k.u[p], t) BY <1>1
    <3>5. QED BY <3>1, <3>2, <3>3, <3>4
  <2>3. QED BY <2>1, <2>2
<1>8. Waking(k, k1, p)
  <2>1. ASSUME NEW q \in Proc \ {p}, NEW t \in Slot, k1.u[q].chan = On(t), k.node[t].lock, k.node[t].want
        PROVE  k1.node[t].lock /\ k1.node[t].want
    <3>1. t # z /\ t \notin D BY <2>1, <1>1, <1>2
    <3>2. QED BY <3>1, <2>1, <1>1
  <2>2. \A t \in Slot : k1.u[p].chan # On(t) BY <1>1, AwakeOn
  <2>3. k1.u[p].chan # <<"ilock", 0>> BY <1>1 DEF Awake
  <2>4. QED BY <1>1, <2>1, <2>2, <2>3 DEF Waking
<1>9. Core(k1, X) BY <1>0, <1>1, <1>6, <1>7, <1>8, CoreStep
<1>10. Gains(k.u[p], k1.u[p])
  <2> SUFFICES ASSUME NEW t \in Slot, RefP(k1.u[p], t) # 0 PROVE RefP(k.u[p], t) # 0 \/ HoldP(k1.u[p], t)
    BY DEF Gains
  <2>1. CASE t = z BY <2>1, <1>3
  <2>2. CASE t # z
    <3>1. B(z = t) = 0 /\ RefP(k.u[p], t) \in Nat BY <2>2, HandRef DEF B
    <3>2. QED BY <3>1, <1>3
  <2>3. QED BY <2>1, <2>2
<1>11. \A s \in Slot : ~(X[s] > X[s]) BY <1>0 DEF Texts
<1>12. PutOK(k1, k1.u[p]) BY DEF PutOK
<1>13. \A q \in Proc : PutOK(k1, k1.u[q]) BY <1>0, <1>1, <1>5, <1>6, <1>9, <1>10, <1>11, <1>12, PutKeep
<1>14. QED BY <1>9, <1>13

\* and the invariant is kept.
LEMMA GetMake ==
  ASSUME NEW k, NEW k0, NEW k1, NEW p \in Proc, NEW X, NEW D \in SUBSET Slot, NEW key, NEW rest \in Seq(Label),
         Good(k, X), Asks(k, k0, p, D), Wants(k, k0, p, D, key, rest), Types(k1), NEW z \in Slot,
         \A s \in Slot : k0.node[s].ino # key, Makes(k0, k1, p, key, z, rest)
  PROVE  Good(k1, X)
<1> DEFINE c == k.u[p]
           c0 == k0.u[p]
           c1 == k1.u[p]
           b == Bot(rest)
           rd == <<"fsiread">> \o rest
<1>1. Fresh(k, k1, p, D, z, key) BY FreshFacts
<1>2. /\ k.node[z].ino = "none" /\ Others(k, k1, p)
      /\ \A t \in Slot \ {z} : /\ k1.node[t].ino = k.node[t].ino /\ k1.node[t].mroot = k.node[t].mroot
                               /\ k1.node[t].mpoint = k.node[t].mpoint /\ k1.node[t].count = k.node[t].count
      /\ k1.node[z].ino = key /\ k1.node[z].mroot = 0 /\ k1.fs.mdev = k.fs.mdev
  BY <1>1 DEF Fresh
<1>3. /\ HandOK(c0, rest) /\ Top(rest) \notin LeafL /\ b \in GetL
      /\ KeyOK(key, b) /\ PathAt(k, c0, b)
      /\ b \in Owner <=> Bot(c.pc) \in Owner
      /\ \A t \in Slot : /\ RefP(c, t) = RefQ(c0, t)
                         /\ HoldQ(c0, t, b) <=> (HoldP(c, t) /\ t \notin D)
                         /\ OwnsRoot(c, t) => k.node[t].ino # "root"
  BY DEF Wants
<1>4. /\ c1.pc = rd /\ c1.ip = z /\ c1.key = key /\ KeepU(c0, c1, {"pc", "ip", "key"})
      /\ k1.node[z].mpoint = IF key \in File \cup {"sub"} THEN k0.node[c0.dip].mpoint ELSE 0
  BY DEF Makes
<1>5. c0.ip = 0 /\ \A t \in Slot : k0.node[t].mpoint = k.node[t].mpoint BY DEF Asks
<1>6. /\ rd # <<>> /\ StackOK(rd) /\ Top(rd) = "fsiread" /\ Bot(rd) = b
  <2>1. StackOK(rest) BY <1>3 DEF HandOK
  <2>2. QED BY <1>3, <2>1, GetStack
<1>7. /\ Core(k, X) /\ Mounts(k) /\ PathOK(k, c) /\ Types(k0) BY DEF Good, Mounts, Asks
<1>8. /\ k.node[z].mroot = 0 /\ \A q \in Proc : RefP(k.u[q], z) = 0
  BY <1>2, <1>7, FreeSlot
<1>9. c0.dip \in Opt /\ c0.fd \in Opt /\ \A y : y \in Opt /\ y # 0 => y \in Slot BY <1>7, HandTypes
<1> HIDE DEF c, c0, c1, b, rd
<1>10. KeepU(c0, c1, {"pc", "chan", "key", "ip"}) /\ c1.dip = c0.dip /\ c1.fd = c0.fd
  BY ONLY <1>4 DEF KeepU, UserF
<1>11. z # 0 /\ z \in Opt BY SlotFacts
<1>12. StackOK(c1.pc) /\ Bot(c1.pc) = b /\ Top(c1.pc) = "fsiread" /\ c1.pc # <<>> BY <1>4, <1>6
<1>13. /\ HandOK(c1, c1.pc) /\ c1.put = 0 /\ c1.rip = 0 /\ c1.mip = 0 /\ Up(c1) = 0 /\ c0.put = 0
       /\ Walk(c1) = (b \in {"got", "more"})
       /\ \A t \in Slot : /\ RefP(c1, t) = RefQ(c0, t) + B(z = t)
                          /\ HoldP(c1, t) <=> (HoldQ(c0, t, b) \/ t = z)
  <2>1. Top(c1.pc) \notin {"upput", "fstrunc", "fsiupdat"} BY <1>12
  <2>2. Top(c1.pc) = "iget" => z = 0 /\ KeyOK(c1.key, b) BY <1>12
  <2>3. Bot(rest) = b BY DEF b
  <2>4. QED BY <1>3, <1>4, <1>5, <1>10, <1>11, <1>12, <2>1, <2>2, <2>3, GetHands
<1>14. Holds(k, k1, p, D, z)
  <2>1. \A t \in Slot : /\ RefP(c1, t) = RefP(c, t) + B(z = t)
                        /\ HoldP(c1, t) <=> ((HoldP(c, t) /\ t \notin D) \/ t = z)
    BY <1>3, <1>13
  <2>2. QED BY <2>1 DEF Holds, c, c1
<1>15. RefP(c, z) = 0 BY <1>8 DEF c
<1>16. z # c0.dip /\ z # c0.fd BY <1>15, <1>3, QEmpty
<1>17. ProcOK(c1) BY <1>4, <1>10, <1>11, <1>13, <1>16 DEF ProcOK, Apart
<1>18. key \in {"mp", "root"} \cup InFs /\ key \in Inos /\ key # "none"
       /\ (b = "dir" => key = "mp") /\ (b = "more" => key = "sub") /\ (b \in Named => key \in InFs)
       /\ (key = "root" <=> b = "fson3") /\ (key \in InFs => b \in WithDip /\ b # "fson3")
  BY <1>3, KeyFacts
<1>19. Core(k1, X) /\ \A q \in Proc : PutOK(k1, k1.u[q])
  BY <1>1, <1>12, <1>13, <1>14, <1>17, <1>18, FreshCore DEF c1
<1>20. \A t \in Slot : k1.node[t].mroot = k.node[t].mroot BY <1>2, <1>8
<1>21. IsMounted(k1) = IsMounted(k) BY <1>20 DEF IsMounted
<1>22. PathAt(k1, c1, b)
  <2>1. c1.fd # 0 => k1.node[c1.fd].ino = k.node[c1.fd].ino BY <1>2, <1>9, <1>10, <1>16
  <2>2. b \in WithDip => c0.dip # 0 BY <1>3 DEF HandOK, b
  <2>3. b \in WithDip => k1.node[c1.dip].ino = k.node[c1.dip].ino BY <2>2, <1>2, <1>9, <1>10, <1>16
  <2>4. c1.ip # 0 => /\ b = "dir" => k1.node[c1.ip].ino \in {"mp", "root"}
                     /\ b = "more" => k1.node[c1.ip].ino = "sub"
                     /\ b \in Named => k1.node[c1.ip].ino = c1.key /\ c1.key \in InFs
    BY <1>2, <1>4, <1>18
  <2>5. QED BY <1>3, <1>10, <2>1, <2>3, <2>4, GetPath
<1>23. RootOwned(k1, c1)
  <2> SUFFICES ASSUME NEW t \in Slot, RefP(c1, t) # 0, k1.node[t].ino = "root", ~IsMounted(k1) PROVE b \in Owner
    BY <1>12 DEF RootOwned
  <2>1. CASE t = z BY <2>1, <1>2, <1>18 DEF Owner
  <2>2. CASE t # z
    <3>1. RefP(c, t) \in Nat /\ B(z = t) = 0 BY <2>2, HandRef DEF B
    <3>2. RefP(c, t) # 0 BY <3>1, <1>3, <1>13
    <3>3. k.node[t].ino = "root" /\ ~IsMounted(k) BY <2>2, <1>2, <1>21
    <3>4. PathOK(k, c) BY <1>7 DEF c
    <3>5. QED BY <3>2, <3>3, <3>4, <1>3 DEF PathOK
  <2>3. QED BY <2>1, <2>2
<1>24. Empty(k1, c1)
  <2>1. b # "unhang" BY <1>3, GetLabels
  <2>2. QED BY <2>1, <1>12 DEF Empty
<1>25. b \in Owner => k1.fs.mdev /\ ~IsMounted(k1)
  <2>1. PathOK(k, c) BY <1>7 DEF c
  <2>2. QED BY <2>1, <1>2, <1>3, <1>21 DEF PathOK
<1>26. PathOK(k1, c1)
  <2>1. PathAt(k1, c1, Bot(c1.pc)) BY <1>12, <1>22
  <2>2. Bot(c1.pc) \in Owner => k1.fs.mdev /\ ~IsMounted(k1) BY <1>12, <1>25
  <2>3. QED BY <2>1, <2>2, <1>23, <1>24, PathParts
<1>27. key = "root" => OwnsRoot(c1, z) BY <1>4, <1>12, <1>18 DEF OwnsRoot, Owner
<1>28. ASSUME key \in InFs
       PROVE  /\ Bot(c.pc) \notin Owner
              /\ \E d \in Slot : /\ RefP(c, d) # 0 /\ k.node[d].ino \in {"root", "sub"}
                                 /\ k1.node[z].mpoint = k.node[d].mpoint
  <2> DEFINE d == c0.dip
  <2>1. b \in WithDip /\ b # "fson3" BY <1>28, <1>18
  <2>2. b \notin Owner BY <2>1, <1>3, GetLabels
  <2>3. d \in Slot
    <3>1. d # 0 BY <2>1, <1>3 DEF HandOK, b
    <3>2. QED BY <3>1, <1>9
  <2>4. k.node[d].ino \in {"root", "sub"} BY <2>1, <1>3 DEF PathAt
  <2>5. k1.node[z].mpoint = k.node[d].mpoint BY <1>28, <1>4, <1>5, <2>3, KeyNames
  <2> HIDE DEF d
  <2>6. RefQ(c0, d) # 0
    <3>1. d = c0.dip BY DEF d
    <3>2. QED BY <3>1, <2>3, QEmpty
  <2>7. RefP(c, d) # 0 BY <2>3, <2>6, <1>3
  <2>8. QED BY <2>2, <2>3, <2>4, <2>5, <2>7, <1>3
<1>29. Mounts(k1)
  <2>1. \A t \in Slot \ {z} : /\ k1.node[t].ino = k.node[t].ino /\ k1.node[t].mroot = k.node[t].mroot
                              /\ k1.node[t].mpoint = k.node[t].mpoint /\ k1.node[t].count = k.node[t].count
    BY <1>2
  <2>2. Bot(k1.u[p].pc) \in Owner => Bot(k.u[p].pc) \in Owner BY <1>3, <1>12 DEF c, c1
  <2>3. key = "root" => OwnsRoot(k1.u[p], z) BY <1>27 DEF c1
  <2>4. key \in InFs => /\ Bot(k.u[p].pc) \notin Owner
                        /\ \E d \in Slot : /\ RefP(k.u[p], d) # 0 /\ k.node[d].ino \in {"root", "sub"}
                                           /\ k1.node[z].mpoint = k.node[d].mpoint
    BY <1>28 DEF c
  <2>5. \A s \in Slot : OwnsRoot(k.u[p], s) /\ k.node[s].ino = "root" => OwnsRoot(k1.u[p], s) BY <1>3 DEF c
  <2>6. PathOK(k1, k1.u[p]) BY <1>26 DEF c1
  <2>7. key \in {"mp", "root"} \cup InFs /\ key \in Inos BY <1>18
  <2>8. QED BY <1>2, <1>19, <2>1, <2>2, <2>3, <2>4, <2>5, <2>6, <2>7, MountsFill
<1>30. QED BY <1>19, <1>29 DEF Good

\* iget keeps the invariant.
LEMMA GetGood ==
  ASSUME NEW k, NEW k0, NEW p \in Proc, NEW X, NEW D \in SUBSET Slot, NEW key, NEW rest \in Seq(Label),
         Good(k, X), Asks(k, k0, p, D), Wants(k, k0, p, D, key, rest)
  PROVE  Good(Iget(k0, p, key, rest), X)
<1> DEFINE k1 == Iget(k0, p, key, rest)
           c0 == k0.u[p]
           b == Bot(rest)
<1>1. /\ HandOK(c0, rest) /\ Top(rest) \notin LeafL /\ b \in GetL /\ KeyOK(key, b)
  BY DEF Wants
<1>2. Types(k0) BY DEF Asks
<1>3. key \in Inos /\ (key \in InFs => b \in WithDip) BY <1>1, KeyFacts
<1>4. rest # <<>>
  <2>1. b # "" BY <1>1, GetLabels
  <2>2. QED BY <2>1 DEF Bot
<1>5. c0.dip \in Opt /\ \A y : y \in Opt /\ y # 0 => y \in Slot BY <1>2, HandTypes
<1>6. key \in File \cup {"sub"} => k0.u[p].dip \in Slot
  <2>1. key \in InFs => c0.dip # 0 BY <1>1, <1>3 DEF HandOK
  <2>2. QED BY <2>1, <1>5, KeyNames
<1> HIDE DEF b, c0
<1>7. /\ Types(k1)
      /\ \/ \E s0 \in Slot, s \in Slot :
              /\ k0.node[s0].ino = key /\ s = Found(k0, s0)
              /\ Sleeps(k0, k1, p, key, s, rest) \/ Takes(k0, k1, p, key, s, rest)
         \/ /\ \A s \in Slot : k0.node[s].ino # key
            /\ (\E s \in Slot : Makes(k0, k1, p, key, s, rest)) \/ Lacks(k0, k1, p, key, rest)
  BY <1>2, <1>3, <1>4, <1>6, IgetEff
<1> HIDE DEF k1
<1>8. CASE \E s0 \in Slot, s \in Slot : /\ k0.node[s0].ino = key /\ s = Found(k0, s0)
                                        /\ Takes(k0, k1, p, key, s, rest)
  BY <1>7, <1>8, GetTake DEF k1
<1>9. CASE (\E s \in Slot : Sleeps(k0, k1, p, key, s, rest)) \/ Lacks(k0, k1, p, key, rest)
  <2>1. Types(k1) BY <1>7
  <2>2. Good(k1, X) BY ONLY <2>1, <1>9, GetWait, p \in Proc, D \in SUBSET Slot, rest \in Seq(Label), Good(k, X),
                            Asks(k, k0, p, D), Wants(k, k0, p, D, key, rest)
  <2>3. QED BY <2>2 DEF k1
<1>10. CASE (\A s \in Slot : k0.node[s].ino # key) /\ (\E s \in Slot : Makes(k0, k1, p, key, s, rest))
  <2>1. PICK z \in Slot : Makes(k0, k1, p, key, z, rest) BY <1>10
  <2>2. Good(k1, X) BY <1>7, <1>10, <2>1, GetMake
  <2>3. QED BY <2>2 DEF k1
<1>11. QED BY <1>7, <1>8, <1>9, <1>10 DEF k1

\* A call of iget with no lock given up before.
LEMMA AsksSame ==
  ASSUME NEW k, NEW k0, NEW p \in Proc, NEW D, D = {}, Types(k0), Others(k, k0, p), k0.freel = k.freel,
         SameNodes(k, k0), k0.fs.ilock = k.fs.ilock, k0.fs.mdev = k.fs.mdev,
         k0.u[p].chan = Awake, k0.u[p].ip = 0
  PROVE  Asks(k, k0, p, D)
<1>1. \A t \in Slot : /\ k0.node[t].ino = k.node[t].ino /\ k0.node[t].count = k.node[t].count
                      /\ k0.node[t].lock = k.node[t].lock /\ k0.node[t].want = k.node[t].want
                      /\ k0.node[t].mroot = k.node[t].mroot /\ k0.node[t].mpoint = k.node[t].mpoint
  BY DullFacts
<1>2. QED BY <1>1 DEF Asks

\* A process begins the call x for the name n.
SetCall(k, p, x, n) == [k EXCEPT !.u[p].op = x, !.u[p].name = n]

\* A process begins a call.
LEMMA SetCallEff ==
  ASSUME NEW k, Types(k), NEW p \in Proc, NEW x, NEW n
  PROVE  LET k1 == SetCall(k, p, x, n) IN
         /\ Types(k1) /\ Only(k, k1, p) /\ KeepU(k.u[p], k1.u[p], {"op", "name"})
         /\ k1.u[p].op = x /\ k1.u[p].name = n
<1> DEFINE c1 == [k.u[p] EXCEPT !.op = x, !.name = n]
           j == [k EXCEPT !.u[p] = c1]
<1>0. UserOK(k.u[p]) BY DEF Types, UsersOK
<1>1. SetCall(k, p, x, n) = j BY DEF SetCall
<1>2. c1 = [f \in UserF |-> c1[f]] /\ c1.op = x /\ c1.name = n /\ KeepU(k.u[p], c1, {"op", "name"})
  BY <1>0 DEF UserOK, UserF, KeepU
<1> HIDE DEF c1
<1>3. UserOK(c1) BY <1>0, <1>2 DEF UserOK, KeepU, UserF
<1>4. Types(j) /\ Only(k, j, p) /\ j.u[p] = c1 BY <1>3, SetUser
<1> HIDE DEF j
<1>5. QED BY <1>1, <1>2, <1>4

\* A process with nothing but an open file.
LEMMA BareHands ==
  ASSUME NEW c, c.ip = 0, c.dip = 0, c.put = 0, c.rip = 0, c.mip = 0, Up(c) = 0, NEW t \in Slot
  PROVE  /\ RefP(c, t) = B(c.fd = t) /\ RefQ(c, t) = B(c.fd = t) /\ ~HoldP(c, t) /\ ~OwnsRoot(c, t)
         /\ \A b : ~HoldQ(c, t, b)
<1>1. t # 0 BY SlotFacts
<1>2. B(FALSE) = 0 /\ B(TRUE) = 1 BY DEF B
<1>3. B(c.fd = t) \in Nat BY DEF B
<1>4. Rip(c) = 0 BY DEF Rip
<1>5. /\ B(c.ip = t) = 0 /\ B(c.dip = t) = 0 /\ B(c.put = t) = 0 /\ B(Up(c) = t) = 0 /\ B(Rip(c) = t) = 0
  BY <1>1, <1>4 DEF B
<1>6. QED BY <1>1, <1>3, <1>5 DEF RefP, RefQ, HoldP, HoldQ, OwnsRoot

\* A path name is walked from its first inode.
LEMMA NameiGood ==
  ASSUME NEW k, k = K, NEW X, Good(k, X), NEW p \in Proc, Namei(p)
  PROVE  \E k1 : Become(k1) /\ Good(k1, X)
<1> DEFINE c == k.u[p]
<1>0. u = k.u /\ node = k.node /\ K = k BY KFacts
<1>1. PICK x \in {"open", "creat", "exec", "unlink", "dotdot", "mount", "unmount"}, n \in Name :
         /\ Call(p, x) /\ (x \in {"open", "creat"} => c.fd = 0)
         /\ Become(Iget([K EXCEPT !.u[p].op = x, !.u[p].name = n], p, "mp", <<"dir">>))
  BY <1>0 DEF Namei
<1> DEFINE D == {}
           rest == <<"dir">>
           k0 == SetCall(k, p, x, n)
           c0 == k0.u[p]
<1>2. Become(Iget(k0, p, "mp", rest)) BY <1>0, <1>1 DEF SetCall
<1>3. c.pc = <<>> BY <1>0, <1>1 DEF Call
<1>4. /\ Types(k) /\ c.chan = Awake /\ HandOK(c, <<>>) /\ PathOK(k, c) /\ UserOK(c)
      /\ c.ip = 0 /\ c.dip = 0 /\ c.put = 0 /\ c.rip = 0 /\ c.mip = 0 /\ Bot(c.pc) = "" /\ Top(c.pc) = ""
  BY <1>3, IdleFacts
<1>5. /\ Types(k0) /\ Only(k, k0, p) /\ KeepU(c, c0, {"op", "name"}) /\ c0.op = x /\ c0.name = n
  <2>1. Types(k) BY <1>4
  <2>2. QED BY ONLY <2>1, SetCallEff, p \in Proc DEF k0, c0, c
<1>6. D = {} OBVIOUS
<1>7. /\ rest \in Seq(Label) /\ rest # <<>> /\ StackOK(rest) /\ Top(rest) = "dir" /\ Bot(rest) = "dir"
      /\ Top(rest) \notin LeafL
  <2>1. "dir" \in LastL BY DEF LastL, PerhapsIp
  <2>2. QED BY <2>1, LastStack
<1>8. "dir" \in GetL /\ "dir" \notin WithDip \cup WithIp \cup WithRip \cup WithMip \cup Owner
      /\ "dir" \notin Opens \cup {"fstrunc", "fsiupdat", "iget", "fsiread", "upput"}
  BY DEF GetL, WithDip, WithIp, WithRip, WithMip, Owner, Opens
<1> HIDE DEF D, rest, k0, c, c0
<1>9. /\ c0.ip = 0 /\ c0.dip = 0 /\ c0.put = 0 /\ c0.rip = 0 /\ c0.mip = 0 /\ c0.chan = Awake
      /\ c0.fd = c.fd /\ c0.fino = c.fino /\ c0.pc = c.pc
  BY ONLY <1>4, <1>5 DEF KeepU, UserF
<1>10. HandOK(c0, rest)
  <2>1. c0.op \in {"open", "creat", "exec", "unlink"} => c0.name \in Name BY <1>5
  <2>2. c0.op \in {"open", "creat"} => c0.fd = 0 BY <1>1, <1>5, <1>9
  <2>3. QED BY ONLY <1>7, <1>8, <1>9, <2>1, <2>2 DEF HandOK
<1>11. Asks(k, k0, p, D)
  <2>1. Others(k, k0, p) /\ k0.freel = k.freel /\ SameNodes(k, k0) /\ k0.fs = k.fs BY <1>5, OnlyFacts
  <2>2. k0.u[p].chan = Awake /\ k0.u[p].ip = 0 BY <1>9 DEF c0
  <2>3. k0.fs.ilock = k.fs.ilock /\ k0.fs.mdev = k.fs.mdev BY <2>1
  <2>4. Types(k0) BY <1>5
  <2>5. QED BY ONLY <1>6, <2>1, <2>2, <2>3, <2>4, AsksSame, p \in Proc
<1>12. Wants(k, k0, p, D, "mp", rest)
  <2>1. Up(c) = 0 /\ Up(c0) = 0 BY <1>4, <1>9 DEF Up
  <2>2. \A t \in Slot : /\ RefP(c, t) = RefQ(c0, t)
                        /\ HoldQ(c0, t, Bot(rest)) <=> (HoldP(c, t) /\ t \notin D)
                        /\ OwnsRoot(c, t) => k.node[t].ino # "root"
    <3> SUFFICES ASSUME NEW t \in Slot
                 PROVE  /\ RefP(c, t) = RefQ(c0, t)
                        /\ HoldQ(c0, t, Bot(rest)) <=> (HoldP(c, t) /\ t \notin D)
                        /\ OwnsRoot(c, t) => k.node[t].ino # "root"
      OBVIOUS
    <3>1. RefP(c, t) = B(c.fd = t) /\ ~HoldP(c, t) /\ ~OwnsRoot(c, t) BY <1>4, <2>1, BareHands
    <3>2. RefQ(c0, t) = B(c0.fd = t) /\ ~HoldQ(c0, t, Bot(rest)) BY <1>9, <2>1, BareHands
    <3>3. QED BY <3>1, <3>2, <1>9
  <2>3. PathAt(k, c0, "dir")
    <3>1. c0.fd # 0 => k.node[c0.fd].ino = c0.fino /\ c0.fino \in InFs BY <1>4, <1>9 DEF PathOK
    <3>2. QED BY <3>1, <1>8, <1>9 DEF PathAt, Named
  <2>4. KeyOK("mp", Bot(rest)) BY <1>7 DEF KeyOK
  <2>5. QED BY <1>4, <1>7, <1>8, <1>10, <2>2, <2>3, <2>4, EmptyStack DEF Wants, c, c0
<1>13. D \in SUBSET Slot BY <1>6
<1>14. Good(Iget(k0, p, "mp", rest), X) BY <1>7, <1>11, <1>12, <1>13, GetGood
<1>15. QED BY <1>2, <1>14

\* iget, after it has slept.
LEMMA IgetAgainGood ==
  ASSUME NEW k, k = K, NEW X, Good(k, X), NEW p \in Proc, IgetAgain(p)
  PROVE  \E k1 : Become(k1) /\ Good(k1, X)
<1> DEFINE c == k.u[p]
           rest == Tail(c.pc)
           D == {}
           b == Bot(rest)
<1>0. u = k.u /\ node = k.node /\ K = k BY KFacts
<1>1. At(p, "iget") /\ Become(Iget(K, p, u[p].key, Rest(p))) BY DEF IgetAgain
<1>2. /\ c.chan = Awake /\ c.pc # <<>> /\ Top(c.pc) = "iget" /\ Rest(p) = rest
      /\ Types(k) /\ HandOK(c, c.pc) /\ PathOK(k, c)
      /\ c.pc \in Seq(Label) /\ StackOK(c.pc)
  BY <1>1, AtFacts
<1>3. Become(Iget(k, p, c.key, rest)) BY <1>0, <1>1, <1>2
<1>4. D = {} OBVIOUS
<1>5. /\ rest \in Seq(Label) /\ StackOK(rest) /\ Top(rest) \notin LeafL
      /\ b = Bot(c.pc) /\ b \in GetL
  <2>1. /\ Tail(c.pc) \in Seq(Label) /\ StackOK(Tail(c.pc)) /\ Top(Tail(c.pc)) \notin LeafL
        /\ Tail(c.pc) # <<>> => Bot(Tail(c.pc)) = Bot(c.pc)
        /\ Tail(c.pc) = <<>> => Bot(c.pc) = Top(c.pc)
        /\ Below(Top(c.pc), Bot(c.pc))
    BY <1>2, StackPop
  <2>2. Bot(c.pc) \in GetL BY <1>2, <2>1 DEF Below, GetL
  <2>3. "iget" \notin GetL BY DEF GetL
  <2>4. QED BY <1>2, <2>1, <2>2, <2>3
<1>6. c.put = 0 /\ c.ip = 0 /\ KeyOK(c.key, b) BY <1>2, <1>5 DEF HandOK
<1> HIDE DEF c, rest, D, b
<1>7. HandOK(c, rest)
  <2>1. Top(rest) \notin {"iget", "fsiread", "upput", "fstrunc", "fsiupdat"} BY <1>5 DEF LeafL
  <2>2. Bot(rest) = Bot(c.pc) BY <1>5 DEF b
  <2>3. QED BY <1>2, <1>5, <1>6, <2>1, <2>2, HandSame
<1>8. c.rip = 0 /\ Up(c) = 0 BY <1>2, <1>5, GetLabels DEF HandOK, Up
<1>9. Asks(k, k, p, D)
  <2>1. Others(k, k, p) BY DEF Others, KeepU
  <2>2. SameNodes(k, k) BY DEF SameNodes, KeepN
  <2>3. k.u[p].chan = Awake /\ k.u[p].ip = 0 BY <1>2, <1>6 DEF c
  <2>4. QED BY <1>2, <1>4, <2>1, <2>2, <2>3, AsksSame
<1>10. Wants(k, k, p, D, c.key, rest)
  <2>1. \A t \in Slot : /\ RefP(c, t) = RefQ(c, t)
                        /\ HoldQ(c, t, b) <=> (HoldP(c, t) /\ t \notin D)
                        /\ OwnsRoot(c, t) => k.node[t].ino # "root"
    <3> SUFFICES ASSUME NEW t \in Slot
                 PROVE  /\ RefP(c, t) = RefQ(c, t)
                        /\ HoldQ(c, t, b) <=> (HoldP(c, t) /\ t \notin D)
                        /\ OwnsRoot(c, t) => k.node[t].ino # "root"
      OBVIOUS
    <3>1. t # 0 BY SlotFacts
    <3>2. /\ B(c.put = t) = 0 /\ B(Up(c) = t) = 0 BY <3>1, <1>6, <1>8 DEF B
    <3>3. RefP(c, t) = RefQ(c, t)
      <4>1. B(c.ip = t) \in Nat /\ B(c.dip = t) \in Nat /\ B(c.fd = t) \in Nat /\ B(Rip(c) = t) \in Nat BY DEF B
      <4>2. QED BY <3>2, <4>1 DEF RefP, RefQ
    <3>4. ~OwnsRoot(c, t) BY <3>1, <1>6, <1>8 DEF OwnsRoot
    <3>5. HoldQ(c, t, b) <=> HoldP(c, t) BY <3>1, <1>5, <1>6, <1>8 DEF HoldQ, HoldP, Walk
    <3>6. QED BY <3>3, <3>4, <3>5, <1>4
  <2>2. PathAt(k, c, b) BY <1>2, <1>5, PathParts
  <2>3. Bot(rest) = b BY DEF b
  <2>4. QED BY <1>5, <1>6, <1>7, <2>1, <2>2, <2>3 DEF Wants, c
<1>11. D \in SUBSET Slot BY <1>4
<1>12. Good(Iget(k, p, c.key, rest), X) BY <1>5, <1>9, <1>10, <1>11, GetGood
<1>13. QED BY <1>3, <1>12

=============================================================================
