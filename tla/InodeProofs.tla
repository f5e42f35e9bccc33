---------------------------- MODULE InodeProofs ----------------------------
(***************************************************************************)
(* The inode cache of InodeCache, for any number of processes, slots,      *)
(* files and steps: an inode is in one slot, nobody sleeps for a lock or a *)
(* list without being called, and a file system that is not mounted has    *)
(* nothing in core.                                                        *)
(*                                                                         *)
(* The last steps, those of unmount, need to know that nobody crosses the  *)
(* mount by ".." meanwhile (NoneCrosses); the theorems assume Separate of  *)
(* the scenarios, and the second part shows what that needs: who unmounts, *)
(* or takes "..", was asked to (OpsOK).  The initial states and the        *)
(* theorems follow.                                                        *)
(***************************************************************************)
EXTENDS InodePathProofs

\* What unmount has to do first: write back everything, and throw the texts out.
OffStack == {<<"update0", "fsoff">>, <<"xscan0">> \o <<"update0", "fsoff">>}

\* The stacks of an unmount that writes everything back first.
LEMMA OffStackOK ==
  ASSUME NEW pc \in OffStack
  PROVE  /\ pc \in Seq(Label) /\ pc # <<>> /\ StackOK(pc) /\ Bot(pc) = "fsoff" /\ Top(pc) \in {"update0", "xscan0"}
<1> DEFINE a == <<"update0", "fsoff">>
           l == "xscan0"
           b == <<l>> \o a
<1>1. a \in Seq(Label) /\ a # <<>> /\ StackOK(a) /\ Top(a) = "update0" /\ Bot(a) = "fsoff"
  <2>1. "fsoff" \in LastL /\ "update0" \in Label \ LastL /\ Below("update0", "fsoff")
    BY DEF LastL, WithDip, WithIp, PerhapsIp, WithRip, WithMip, Label, MidL, Below
  <2>2. QED BY <2>1, OnLast
<1>2. l \in Label /\ l \notin LastL /\ "update0" \notin LeafL /\ Below(l, "fsoff") /\ l = "xscan0"
  BY DEF LastL, WithDip, WithIp, PerhapsIp, WithRip, WithMip, Label, MidL, LeafL, Below
<1>3. pc = a \/ pc = b BY DEF OffStack
<1> HIDE DEF a, l
<1>4. b \in Seq(Label) /\ b # <<>> /\ StackOK(b) /\ Top(b) = l /\ Bot(b) = "fsoff"
  BY <1>1, <1>2, StackPush
<1> HIDE DEF b
<1>5. QED BY <1>1, <1>2, <1>3, <1>4

\* funmount has found the root r, mounted on m, and keeps it locked without a reference.
Unmounts(k, k1, p, m, r) ==
  /\ Types(k1) /\ SameRest(k, k1) /\ NodeBut(k, k1, r)
  /\ KeepN(k.node[r], k1.node[r], {"lock", "want", "count"})
  /\ k1.node[r].lock /\ k1.node[r].count = k.node[r].count - 1
  /\ CalledBut(k, k1, p, r)
  /\ KeepU(k.u[p], k1.u[p], {"pc", "ip", "rip", "mip"}) /\ k1.u[p].pc \in OffStack
  /\ k1.u[p].ip = 0 /\ k1.u[p].rip = r /\ k1.u[p].mip = m

\* When that is done.
UnmountsAt(k, p, m, r) ==
  /\ LastFacts(k, p, "funmount") /\ k.u[p].op = "unmount" /\ m \in Slot /\ r \in Slot /\ k.u[p].ip = r /\ k.node[m].mroot = r

\* unmount takes the reference of its path name off the root, and locks it.
LEMMA UnmountsGood ==
  ASSUME NEW k, NEW k1, NEW X, Good(k, X), NEW p \in Proc, NEW m, NEW r, UnmountsAt(k, p, m, r), Unmounts(k, k1, p, m, r)
  PROVE  Good(k1, X)
<1> DEFINE c == k.u[p]
           c1 == k1.u[p]
<1>1. /\ m \in Slot /\ r \in Slot /\ c.ip = r /\ k.node[m].mroot = r /\ c.op = "unmount" /\ m # 0 /\ r # 0
      /\ c.chan = Awake /\ c.put = 0 /\ c.dip = 0 /\ c.rip = 0 /\ c.mip = 0 /\ Up(c) = 0 /\ Types(k) /\ HandOK(c, c.pc)
      /\ Bot(c.pc) = "funmount" /\ PathAt(k, c, "funmount") /\ c.fd \in Opt
  BY SlotFacts, HandTypes DEF UnmountsAt, LastFacts, WithDip, WithRip, WithMip
<1>2. /\ Types(k1) /\ SameRest(k, k1) /\ NodeBut(k, k1, r)
      /\ KeepN(k.node[r], k1.node[r], {"lock", "want", "count"})
      /\ k1.node[r].lock /\ k1.node[r].count = k.node[r].count - 1
      /\ CalledBut(k, k1, p, r)
      /\ KeepU(k.u[p], k1.u[p], {"pc", "ip", "rip", "mip"}) /\ k1.u[p].pc \in OffStack
      /\ c1.ip = 0 /\ c1.rip = r /\ c1.mip = m
  BY DEF Unmounts
<1>3. c1.pc \in Seq(Label) /\ c1.pc # <<>> /\ StackOK(c1.pc) /\ Bot(c1.pc) = "fsoff" /\ Top(c1.pc) \in {"update0", "xscan0"}
  BY <1>2, OffStackOK
<1>4. /\ Core(k, X) /\ LockInv(k) /\ Texts(X) BY DEF Good, Core
<1>4a. KeepU(c, c1, {"pc", "ip", "rip", "mip"}) BY <1>2
<1> HIDE DEF c, c1
<1>5. /\ c1.dip = 0 /\ c1.put = 0 /\ c1.fd = c.fd /\ c1.fino = c.fino /\ c1.op = "unmount" /\ c1.chan = Awake
  BY <1>1, <1>4a DEF KeepU, UserF
<1>6. Up(c1) = 0 /\ Rip(c1) = 0 /\ Rip(c) = 0 /\ ~Walk(c) /\ ~Walk(c1) BY <1>1, <1>2, <1>3, <1>5 DEF Up, Rip, Walk
<1>7. ASSUME NEW t \in Slot
      PROVE  RefP(c1, t) = RefP(c, t) - B(r = t) /\ RefP(c, t) \in Nat /\ RefP(c1, t) \in Nat
             /\ (HoldP(c, t) <=> t = r) /\ (HoldP(c1, t) <=> t = r)
  <2> DEFINE y == B(r = t)
             z == B(c.fd = t)
             w == B(0 = t)
  <2>1. RefP(c, t) = y + w + z + w + w + w BY <1>1, <1>6 DEF RefP
  <2>2. RefP(c1, t) = w + w + z + w + w + w BY <1>2, <1>5, <1>6 DEF RefP
  <2>3. w = 0 BY SlotFacts DEF B
  <2>4. y \in Nat /\ z \in Nat BY DEF B
  <2> HIDE DEF y, z, w
  <2>5. RefP(c1, t) = RefP(c, t) - y /\ RefP(c, t) \in Nat /\ RefP(c1, t) \in Nat BY ONLY <2>1, <2>2, <2>3, <2>4
  <2>6. (HoldP(c, t) <=> t = r) /\ (HoldP(c1, t) <=> t = r)
    BY <1>1, <1>2, <1>5, <1>6, SlotFacts DEF HoldP
  <2>7. QED BY <2>5, <2>6 DEF y
<1>8. /\ \A t \in Slot : /\ k1.node[t].ino = k.node[t].ino /\ k1.node[t].mroot = k.node[t].mroot
                         /\ k1.node[t].mpoint = k.node[t].mpoint
                         /\ k1.node[t].count = IF t = r THEN k.node[t].count - 1 ELSE k.node[t].count
                         /\ t # r => k1.node[t].lock = k.node[t].lock /\ k1.node[t].want = k.node[t].want
  <2> SUFFICES ASSUME NEW t \in Slot
               PROVE /\ k1.node[t].ino = k.node[t].ino /\ k1.node[t].mroot = k.node[t].mroot
                     /\ k1.node[t].mpoint = k.node[t].mpoint
                     /\ k1.node[t].count = IF t = r THEN k.node[t].count - 1 ELSE k.node[t].count
                     /\ t # r => k1.node[t].lock = k.node[t].lock /\ k1.node[t].want = k.node[t].want
    OBVIOUS
  <2>1. CASE t = r
    <3>1. KeepN(k.node[r], k1.node[r], {"lock", "want", "count"}) BY <1>2
    <3>2. k1.node[r].ino = k.node[r].ino /\ k1.node[r].mroot = k.node[r].mroot /\ k1.node[r].mpoint = k.node[r].mpoint
      BY ONLY <3>1 DEF KeepN, NodeF
    <3>3. QED BY <1>2, <2>1, <3>2
  <2>2. CASE t # r
    <3>1. k1.node[t] = k.node[t] BY <1>2, <2>2 DEF NodeBut
    <3>2. QED BY <2>2, <3>1
  <2>3. QED BY <2>1, <2>2
<1>9. \A s \in Slot : MountRefs(k1.node, s) = MountRefs(k.node, s)
  <2>1. \A t \in Slot : k1.node[t].mroot = k.node[t].mroot BY <1>8
  <2>2. QED BY <2>1, SameMountRefs
<1>10. Others(k, k1, p) BY <1>2 DEF CalledBut, Others
<1>11. Ledger(k, k1, p, X, X)
  <2> SUFFICES ASSUME NEW t \in Slot
               PROVE k1.node[t].count - RefP(c1, t) - MountRefs(k1.node, t) - X[t]
                     = k.node[t].count - RefP(c, t) - MountRefs(k.node, t) - X[t]
    BY DEF Ledger, c, c1
  <2> DEFINE n == k.node[t].count
             n1 == k1.node[t].count
             a == RefP(c, t)
             a1 == RefP(c1, t)
             v == MountRefs(k.node, t)
             x == X[t]
             br == B(r = t)
  <2>1. n \in Int BY <1>1 DEF Types, NodesOK, NodeOK
  <2>2. x \in Nat /\ a \in Nat /\ v \in Nat BY <1>4, <1>7, MountNat DEF Texts
  <2>3. n1 = n - br
    <3>1. CASE t = r BY <1>8, <3>1 DEF B
    <3>2. CASE t # r
      <4>1. n1 = n BY <1>8, <3>2
      <4>2. br = 0 BY <3>2 DEF B
      <4> HIDE DEF n, n1, br
      <4>3. QED BY <4>1, <4>2, <2>1
    <3>3. QED BY <3>1, <3>2
  <2>4. a1 = a - br BY <1>7
  <2>5. MountRefs(k1.node, t) = v BY <1>9
  <2>6. br \in Nat BY DEF B
  <2> HIDE DEF n, n1, a, a1, v, x, br
  <2>7. n1 - a1 - v - x = n - a - v - x BY ONLY <2>1, <2>2, <2>3, <2>4, <2>6
  <2>8. QED BY <2>5, <2>7 DEF n, n1, a, a1, x, v
<1>12. Locking(k, k1, p)
  <2> SUFFICES ASSUME NEW t \in Slot
               PROVE /\ k1.node[t].lock <=> (HoldP(c1, t) \/ (k.node[t].lock /\ ~HoldP(c, t)))
                     /\ HoldP(c1, t) => HoldP(c, t) \/ ~k.node[t].lock
    BY DEF Locking, c, c1
  <2>1. CASE t = r BY <1>2, <1>7, <2>1
  <2>2. CASE t # r BY <1>7, <1>8, <2>2
  <2>3. QED BY <2>1, <2>2
<1>13. Waking(k, k1, p)
  <2>1. ASSUME NEW q \in Proc \ {p}, NEW t \in Slot, k1.u[q].chan = On(t), k.node[t].lock, k.node[t].want
        PROVE  k1.node[t].lock /\ k1.node[t].want
    <3>1. k1.u[q].chan = IF k.node[r].want /\ k.u[q].chan = On(r) THEN Awake ELSE k.u[q].chan
      BY <1>2 DEF CalledBut
    <3>2. t # r BY <2>1, <3>1, <1>1, AwakeOn
    <3>3. QED BY <1>8, <2>1, <3>2
  <2>2. \A t \in Slot : c1.chan # On(t) BY <1>5, AwakeOn
  <2>3. c1.chan # <<"ilock", 0>> BY <1>5 DEF Awake
  <2>4. k1.fs = k.fs BY <1>2 DEF SameRest
  <2>5. QED BY <2>1, <2>2, <2>3, <2>4, <1>3 DEF Waking, c1
<1>14. ProcOK(c1)
  <2>1. HandOK(c1, c1.pc)
    <3>1. /\ "fsoff" \in WithRip /\ "fsoff" \in WithMip
          /\ "fsoff" \notin WithDip \cup WithIp \cup PerhapsIp \cup Opens \cup {"closef", "more", "plockdir", "putdir", "got"}
      BY DEF WithRip, WithMip, WithDip, WithIp, PerhapsIp, Opens
    <3>2. Top(c1.pc) \notin {"iget", "fsiread", "upput", "fstrunc", "fsiupdat"} BY <1>3
    <3>3. QED BY <1>1, <1>2, <1>3, <1>5, <3>1, <3>2 DEF HandOK
  <2>2. Apart(c1) BY <1>1, <1>2, <1>5, <1>6 DEF Apart
  <2>3. QED BY <2>1, <2>2 DEF ProcOK
<1>15. Stays(k, k1)
  <2>1. k1.freel = k.freel BY <1>2 DEF SameRest
  <2>2. ASSUME NEW t \in Slot PROVE SameSlot(k.node[t], k1.node[t])
    <3>1. CASE t # r BY <1>8, <3>1 DEF SameSlot
    <3>2. CASE t = r
      <4>1. k.node[r].ino # "none" /\ k.node[r].count \in Nat /\ k.node[r].count >= 2
        <5>1. RefP(c, r) >= 1
          <6>1. RefP(c, r) # 0 BY <1>1, HandRef
          <6>2. QED BY <6>1, <1>1, <1>7
        <5>2. MountRefs(k.node, r) >= 1
          <6>1. MountRefs(k.node, r) # 0 BY <1>1, MountPos
          <6>2. MountRefs(k.node, r) \in Nat BY <1>1, MountNat
          <6>3. QED BY <6>1, <6>2
        <5>3. k.node[r].count \in Nat /\ X[r] \in Nat /\ k.node[r].count >= RefP(c, r) + MountRefs(k.node, r) + X[r]
          BY <1>1, <1>4, CountAtLeast DEF c
        <5>4. RefP(c, r) \in Nat /\ MountRefs(k.node, r) \in Nat BY <1>1, <1>7, MountNat
        <5>5. k.node[r].count >= 2 BY <5>1, <5>2, <5>3, <5>4
        <5>6. RefP(c, r) # 0 BY <5>1
        <5>7. k.node[r].ino # "none" BY <5>6, <1>1, <1>4, RefIno DEF c
        <5>8. QED BY <5>3, <5>5, <5>7
      <4>2. k1.node[r].count # 0 /\ k.node[r].count # 0 BY <4>1, <1>2
      <4>3. QED BY <3>2, <4>1, <4>2, <1>8 DEF SameSlot
    <3>3. QED BY <3>1, <3>2
  <2>3. QED BY <2>1, <2>2 DEF Stays
<1>16. IsMounted(k) BY <1>1 DEF IsMounted
<1>17. Plain(k, k1, p, X, X)
  <2>1. ASSUME NEW t \in Slot, RefP(c1, t) # 0 PROVE RefP(c, t) # 0
    <3> DEFINE x == RefP(c, t)
               y == RefP(c1, t)
               z == B(r = t)
    <3>1. y = x - z /\ x \in Nat /\ y \in Nat /\ y # 0 BY <1>7, <2>1
    <3>2. z \in Nat BY DEF B
    <3> HIDE DEF x, y, z
    <3>3. x # 0 BY ONLY <3>1, <3>2
    <3>4. QED BY <3>3 DEF x
  <2>2. Gains(c, c1) BY <2>1 DEF Gains
  <2>3. \A t \in Slot : ~(X[t] > X[t])
    <3>1. \A t \in Slot : X[t] \in Nat BY <1>4 DEF Texts
    <3>2. QED BY <3>1
  <2>4. Bot(c1.pc) \notin Owner /\ Bot(c.pc) \notin Owner BY <1>1, <1>3 DEF Owner
  <2>5. k1.fs = k.fs BY <1>2 DEF SameRest
  <2>6. QED BY <1>8, <2>2, <2>3, <2>4, <2>5 DEF Plain, OwnsRoot, c, c1
<1>18. PathAt(k, c1, Bot(c1.pc))
  <2>1. c1.fd # 0 => k.node[c1.fd].ino = c1.fino /\ c1.fino \in InFs BY <1>1, <1>5 DEF PathAt
  <2>2. "fsoff" \notin Named \cup WithDip BY DEF Named, WithDip
  <2>3. QED BY <1>1, <1>2, <1>3, <2>1, <2>2 DEF PathAt
<1>19. RootOwned(k, c1) BY <1>16 DEF RootOwned
<1>20. Empty(k1, c1) BY <1>3 DEF Empty
<1>21. Bot(c1.pc) \notin Owner BY <1>3 DEF Owner
<1>22. PutOK(k1, c1) BY <1>5 DEF PutOK
<1>23. QED BY <1>2, <1>10, <1>11, <1>12, <1>13, <1>14, <1>15, <1>17, <1>18, <1>19, <1>20, <1>21, <1>22, StepGood DEF c1

\* That is what Funmount does.
LEMMA UnmountsEff ==
  ASSUME NEW k, NEW X, Good(k, X), NEW p \in Proc, NEW m, NEW r, UnmountsAt(k, p, m, r), NEW pc \in OffStack
  PROVE  Unmounts(k, SetMip(SetRip(Goto(Lock(PutIp(k, p, <<"update0", "fsoff">>), r), p, pc), p, r), p, m), p, m, r)
<1> DEFINE c == k.u[p]
           z == 0
           rest == <<"update0", "fsoff">>
           k0 == [k EXCEPT !.u[p].ip = z]
           ka == Iput(k0, p, r, rest)
           kb == Lock(ka, r)
           kc == Goto(kb, p, pc)
           kd == SetRip(kc, p, r)
           k1 == SetMip(kd, p, m)
<1>1. /\ m \in Slot /\ r \in Slot /\ c.ip = r /\ k.node[m].mroot = r /\ m \in Opt /\ r \in Opt
      /\ c.chan = Awake /\ Types(k) /\ Core(k, X) /\ r # 0
  BY SlotFacts DEF UnmountsAt, LastFacts, Good
<1>2. PutIp(k, p, rest) = ka BY <1>1 DEF PutIp
<1>3. rest \in Seq(Label) /\ rest # <<>> BY OffStackOK DEF OffStack
<1>4. pc \in Seq(Label) /\ pc # <<>> BY OffStackOK
<1>5. z \in Opt /\ z = 0 BY SlotFacts
<1> HIDE DEF z, rest
<1>6. Types(k0) /\ Only(k, k0, p) /\ KeepU(c, k0.u[p], {"ip"}) /\ k0.u[p].ip = z
  BY ONLY <1>1, <1>5, SetIp, p \in Proc
<1> HIDE DEF k0
<1>7. k0.node = k.node /\ k0.freel = k.freel /\ k0.fs = k.fs /\ k0.panic = k.panic /\ \A q \in Proc \ {p} : k0.u[q] = k.u[q]
  BY <1>6 DEF Only
<1>8. k.node[r].ino # "none" /\ k.node[r].count # 0 /\ k.node[r].count # 1
  <2>1. RefP(c, r) >= 1
    <3>1. RefP(c, r) # 0 /\ RefP(c, r) \in Nat BY <1>1, HandRef
    <3>2. QED BY <3>1
  <2>2. MountRefs(k.node, r) >= 1
    <3>1. MountRefs(k.node, r) # 0 BY <1>1, MountPos
    <3>2. MountRefs(k.node, r) \in Nat BY <1>1, MountNat
    <3>3. QED BY <3>1, <3>2
  <2>3. k.node[r].count \in Nat /\ X[r] \in Nat /\ k.node[r].count >= RefP(c, r) + MountRefs(k.node, r) + X[r]
    BY <1>1, CountAtLeast
  <2>4. RefP(c, r) \in Nat /\ MountRefs(k.node, r) \in Nat BY <1>1, HandRef, MountNat
  <2>5. RefP(c, r) # 0 BY <1>1, HandRef
  <2>6. k.node[r].ino # "none" BY <2>5, <1>1, RefIno
  <2>7. k.node[r].count >= 2 BY <2>1, <2>2, <2>3, <2>4
  <2>8. QED BY <2>3, <2>6, <2>7
<1>9. Dropped(k0, ka, p, r, rest)
  <2>1. k0.node[r].ino # "none" /\ k0.node[r].count # 0 /\ k0.node[r].count # 1 BY <1>7, <1>8
  <2>2. k0.u[p].chan = Awake BY <1>1, <1>6 DEF KeepU, UserF
  <2>3. QED BY <1>1, <1>3, <1>6, <2>1, <2>2, IputEff
<1> HIDE DEF ka
<1>10. /\ Types(ka) /\ SameRest(k0, ka) /\ NodeBut(k0, ka, r)
       /\ KeepN(k0.node[r], ka.node[r], {"lock", "want", "count"})
       /\ ka.node[r].count = k0.node[r].count - 1
       /\ CalledBut(k0, ka, p, r) /\ GoneTo(k0.u[p], ka.u[p], rest)
  BY <1>9 DEF Dropped
<1>11. /\ Types(kb) /\ SameRest(ka, kb) /\ kb.u = ka.u /\ NodeBut(ka, kb, r)
       /\ KeepN(ka.node[r], kb.node[r], {"lock"}) /\ kb.node[r].lock
  BY <1>1, <1>10, LockEff
<1> HIDE DEF kb
<1>12. Types(kc) /\ Only(kb, kc, p) /\ GoneTo(kb.u[p], kc.u[p], pc) BY <1>4, <1>11, GotoEff
<1> HIDE DEF kc
<1>13. Types(kd) /\ Only(kc, kd, p) /\ KeepU(kc.u[p], kd.u[p], {"rip"}) /\ kd.u[p].rip = r
  BY <1>1, <1>12, SetRipEff
<1> HIDE DEF kd
<1>14. Types(k1) /\ Only(kd, k1, p) /\ KeepU(kd.u[p], k1.u[p], {"mip"}) /\ k1.u[p].mip = m
  BY <1>1, <1>13, SetMipEff
<1> HIDE DEF k1
<1>15. /\ k1.node = kb.node /\ k1.freel = kb.freel /\ k1.fs = kb.fs /\ k1.panic = kb.panic
       /\ \A q \in Proc \ {p} : k1.u[q] = kb.u[q]
  BY <1>12, <1>13, <1>14 DEF Only
<1>16. SameRest(k, k1) BY <1>7, <1>10, <1>11, <1>15 DEF SameRest
<1>17. NodeBut(k, k1, r) BY <1>7, <1>10, <1>11, <1>15 DEF NodeBut
<1>18. /\ KeepN(k.node[r], k1.node[r], {"lock", "want", "count"})
       /\ k1.node[r].lock /\ k1.node[r].count = k.node[r].count - 1
  <2> DEFINE a == k.node[r]
             b == ka.node[r]
             d == kb.node[r]
  <2>1. KeepN(a, b, {"lock", "want", "count"}) /\ b.count = a.count - 1 /\ KeepN(b, d, {"lock"}) /\ d.lock
    BY <1>7, <1>10, <1>11
  <2>2. k1.node[r] = d BY <1>15
  <2> HIDE DEF a, b, d
  <2>3. KeepN(a, d, {"lock", "want", "count"}) /\ d.count = a.count - 1 BY ONLY <2>1 DEF KeepN, NodeF
  <2>4. QED BY <2>1, <2>2, <2>3 DEF a
<1>19. CalledBut(k, k1, p, r)
  <2>1. \A q \in Proc \ {p} : k1.u[q] = ka.u[q] /\ k0.u[q] = k.u[q] BY <1>7, <1>11, <1>15
  <2>2. QED BY <1>7, <1>10, <2>1 DEF CalledBut
<1>20. /\ KeepU(c, k1.u[p], {"pc", "ip", "rip", "mip"}) /\ k1.u[p].pc = pc
       /\ k1.u[p].ip = 0 /\ k1.u[p].rip = r /\ k1.u[p].mip = m
  <2> DEFINE c0 == k0.u[p]
             ca == ka.u[p]
             cc == kc.u[p]
             cd == kd.u[p]
             c1 == k1.u[p]
  <2>1. KeepU(c0, ca, {"pc"}) BY <1>3, <1>10 DEF GoneTo, KeepU
  <2>2. KeepU(ca, cc, {"pc"}) /\ cc.pc = pc BY <1>4, <1>11, <1>12 DEF GoneTo, KeepU
  <2>3. /\ KeepU(c, c0, {"ip"}) /\ c0.ip = 0 /\ KeepU(cc, cd, {"rip"}) /\ cd.rip = r /\ KeepU(cd, c1, {"mip"}) /\ c1.mip = m
    BY <1>5, <1>6, <1>13, <1>14
  <2> HIDE DEF c, c0, ca, cc, cd, c1
  <2>4. KeepU(c, ca, {"ip", "pc"}) /\ ca.ip = 0 BY ONLY <2>1, <2>3 DEF KeepU, UserF
  <2>5. KeepU(c, cc, {"ip", "pc"}) /\ cc.ip = 0 /\ cc.pc = pc BY ONLY <2>2, <2>4 DEF KeepU, UserF
  <2>6. KeepU(c, c1, {"pc", "ip", "rip", "mip"}) /\ c1.pc = pc /\ c1.ip = 0 /\ c1.rip = r /\ c1.mip = m
    BY ONLY <2>3, <2>5 DEF KeepU, UserF
  <2>7. QED BY <2>6 DEF c1
<1>21. Unmounts(k, k1, p, m, r) BY <1>14, <1>16, <1>17, <1>18, <1>19, <1>20 DEF Unmounts
<1>22. k1 = SetMip(SetRip(Goto(Lock(PutIp(k, p, rest), r), p, pc), p, r), p, m)
  BY <1>2 DEF k1, kd, kc, kb
<1>23. QED BY <1>21, <1>22 DEF rest

\* unmount finds what is mounted, locks its root and gives up the inode of its path name.
LEMMA FunmountGood ==
  ASSUME NEW k, k = K, NEW X, Good(k, X), NEW p \in Proc, Funmount(p)
  PROVE  \E k1 : Become(k1) /\ Good(k1, X)
<1> DEFINE c == k.u[p]
           l == "funmount"
           r == c.ip
           m == k.node[r].mpoint
           a == <<"update0", "fsoff">>
           ka == PutIp(k, p, a)
           pc == IF NText = 0 THEN ka.u[p].pc ELSE <<"xscan0">> \o ka.u[p].pc
           k1 == SetMip(SetRip(Goto(Lock(ka, r), p, pc), p, r), p, m)
<1>0. u = k.u /\ node = k.node /\ fs = k.fs /\ K = k BY KFacts
<1>1. At(p, l) BY DEF Funmount
<1>2. LastFacts(k, p, l) BY <1>1, LastAt DEF LastL, WithIp
<1>3. /\ l \in WithIp /\ l \notin WithDip \cup WithRip \cup WithMip \cup Owner /\ l \notin {"got", "more", "fson3"}
  BY DEF WithDip, WithIp, WithRip, WithMip, Owner
<1>4. /\ Types(k) /\ c.ip # 0 /\ r \in Slot /\ HandOK(c, c.pc) /\ c.op = "unmount" /\ c.chan = Awake
  <2>1. Types(k) /\ c.ip # 0 /\ HandOK(c, c.pc) /\ Bot(c.pc) = "funmount" /\ c.chan = Awake BY <1>2, <1>3 DEF LastFacts
  <2>2. c.op = "unmount" BY <2>1 DEF HandOK
  <2>3. QED BY <2>1, <2>2, HandTypes
<1>5. CASE m = 0 \/ k.node[m].mroot # r
  <2>1. Become(PutIp(k, p, <<>>)) BY <1>0, <1>5 DEF Funmount
  <2>2. "" \notin {"closef", "more", "got", "plockdir", "fsoff", "unhang"} OBVIOUS
  <2>3. "" \notin Opens BY OpensIn
  <2>4. Types(k) /\ SameNodes(k, k) BY <1>4 DEF SameNodes, KeepN
  <2>5. k.u[p].ip # 0 BY <1>4
  <2> HIDE DEF l
  <2>6. Good(PutIp(k, p, <<>>), X) BY <1>2, <1>3, <2>2, <2>3, <2>4, <2>5, EmptyStack, GiveIp
  <2>7. QED BY <2>1, <2>6
<1>6. CASE ~(m = 0 \/ k.node[m].mroot # r)
  <2>1. Become(k1) BY <1>0, <1>6 DEF Funmount, SetRip, SetMip
  <2>2. m \in Slot
    <3>1. NodeOK(k.node[r]) BY <1>4 DEF Types, NodesOK
    <3>2. QED BY <3>1, <1>6 DEF NodeOK, Opt
  <2>3. UnmountsAt(k, p, m, r) BY <1>2, <1>4, <1>6, <2>2 DEF UnmountsAt
  <2>4. ka.u[p].pc = a
    <3> DEFINE z == 0
               k0 == [k EXCEPT !.u[p].ip = z]
    <3>1. ka = Iput(k0, p, r, a) BY DEF PutIp
    <3>2. z \in Opt BY SlotFacts
    <3> HIDE DEF z
    <3>3. Types(k0) /\ Only(k, k0, p) /\ KeepU(c, k0.u[p], {"ip"}) BY ONLY <1>4, <3>2, SetIp, p \in Proc
    <3> HIDE DEF k0
    <3>4. k0.node = k.node /\ k0.u[p].chan = Awake
      <4>1. KeepU(c, k0.u[p], {"ip"}) BY <3>3
      <4> HIDE DEF c
      <4>2. k0.u[p].chan = c.chan BY ONLY <4>1 DEF KeepU, UserF
      <4>3. QED BY <4>2, <1>4, <3>3 DEF Only
    <3>5. k.node[r].ino # "none" /\ k.node[r].count # 0 /\ k.node[r].count # 1
      <4>1. k.node[m].mroot = r BY <1>6
      <4>2. Core(k, X) BY DEF Good
      <4>3. RefP(c, r) # 0 /\ RefP(c, r) \in Nat BY <1>4, HandRef
      <4>4. MountRefs(k.node, r) # 0 BY <1>4, <2>2, <4>1, MountPos
      <4>5. MountRefs(k.node, r) \in Nat BY <1>4, MountNat
      <4>6. k.node[r].count \in Nat /\ X[r] \in Nat /\ k.node[r].count >= RefP(c, r) + MountRefs(k.node, r) + X[r]
        BY <1>4, <4>2, CountAtLeast
      <4>7. k.node[r].ino # "none" BY <4>2, <4>3, <1>4, RefIno
      <4> HIDE DEF c, r
      <4>8. QED BY <4>3, <4>4, <4>5, <4>6, <4>7
    <3>6. a \in Seq(Label) /\ a # <<>> BY OffStackOK DEF OffStack
    <3> HIDE DEF a, r, ka
    <3>7. Gave(k0, ka, p, r, a) BY <1>4, <3>1, <3>3, <3>4, <3>5, <3>6, IputEff DEF Gave
    <3>8. Dropped(k0, ka, p, r, a) BY <3>4, <3>5, <3>7 DEF Gave
    <3>9. QED BY <3>8 DEF Dropped, GoneTo
  <2>5. pc \in OffStack
    <3> HIDE DEF ka
    <3>1. QED BY <2>4 DEF OffStack
  <2> HIDE DEF pc, r, m
  <2>6. Unmounts(k, k1, p, m, r) BY ONLY <2>3, <2>5, UnmountsEff, Good(k, X), p \in Proc DEF k1, ka, a
  <2> HIDE DEF k1
  <2>7. Good(k1, X) BY <2>3, <2>6, UnmountsGood
  <2>8. QED BY <2>1, <2>7
<1>7. QED BY <1>5, <1>6

\* A process that takes away the root r, which is mounted on m.
OffAt(k, p, m, r, l) ==
  /\ l \in {"fsoff", "unhang"} /\ LastFacts(k, p, l) /\ Types(k) /\ m = k.u[p].mip /\ r = k.u[p].rip
  /\ m \in Slot /\ r \in Slot /\ m # r /\ k.node[m].mroot = r /\ k.node[r].mpoint = m
  /\ k.node[m].ino = "mp" /\ k.node[r].ino = "root" /\ k.fs.mdev /\ IsMounted(k)
  /\ \A s \in Slot : k.node[s].mroot # 0 => s = m
  /\ \A s \in Slot : k.node[s].ino \in InFs => k.node[s].mpoint = m
  /\ \A s \in Slot : k.node[s].ino = "root" => s = r

\* What it has in hand.
OffHands(c, m, r) ==
  /\ c.ip = 0 /\ c.dip = 0 /\ c.put = 0 /\ c.mip = m /\ c.rip = r /\ Up(c) = 0 /\ Rip(c) = 0 /\ ~Walk(c)
  /\ c.chan = Awake /\ c.fd \in Opt /\ c.pc \in Seq(Label)
  /\ \A t \in Slot : RefP(c, t) = B(c.fd = t) /\ (HoldP(c, t) <=> t = r)

\* A process that unmounts.
LEMMA OffFacts ==
  ASSUME NEW k, NEW X, Good(k, X), NEW p \in Proc, NEW l \in {"fsoff", "unhang"}, LastFacts(k, p, l)
  PROVE  OffAt(k, p, k.u[p].mip, k.u[p].rip, l) /\ OffHands(k.u[p], k.u[p].mip, k.u[p].rip)
<1> DEFINE c == k.u[p]
           m == c.mip
           r == c.rip
<1>1. /\ l \in WithRip /\ l \in WithMip /\ l \notin WithDip \cup WithIp \cup PerhapsIp
      /\ l \notin {"got", "more", "upput"}
  BY DEF WithRip, WithMip, WithDip, WithIp, PerhapsIp
<1>2. /\ Types(k) /\ c.chan = Awake /\ c.put = 0 /\ Up(c) = 0 /\ c.ip = 0 /\ c.dip = 0 /\ c.rip # 0 /\ c.mip # 0
      /\ PathAt(k, c, l) /\ Bot(c.pc) = l
  BY <1>1 DEF LastFacts
<1>3. m \in Slot /\ r \in Slot /\ c.fd \in Opt /\ c.pc \in Seq(Label) BY <1>2, HandTypes
<1>4. MountInv(k) /\ TableInv(k) BY DEF Good, Core, Mounts
<1>5. k.node[m].mroot = r BY <1>2 DEF PathAt
<1>6. k.node[m].ino = "mp" /\ k.node[r].ino = "root" /\ k.node[r].mpoint = m /\ k.fs.mdev
  BY <1>2, <1>3, <1>4, <1>5 DEF MountInv
<1>7. m # r /\ IsMounted(k) BY <1>2, <1>3, <1>5, <1>6 DEF IsMounted
<1>8. \A s \in Slot : k.node[s].mroot # 0 => s = m BY <1>3, <1>4, <1>6 DEF MountInv, TableInv
<1>9. \A s \in Slot : k.node[s].ino \in InFs => k.node[s].mpoint = m BY <1>4, <1>8 DEF MountInv
<1>10. \A s \in Slot : k.node[s].ino = "root" => s = r BY <1>3, <1>4, <1>6 DEF TableInv
<1>11. Rip(c) = 0 /\ ~Walk(c) BY <1>1, <1>2 DEF Rip, Walk
<1>12. ASSUME NEW t \in Slot PROVE RefP(c, t) = B(c.fd = t)
  <2> DEFINE y == B(c.fd = t)
             w == B(0 = t)
  <2>1. RefP(c, t) = w + w + y + w + w + w BY <1>2, <1>11 DEF RefP
  <2>2. w = 0 BY SlotFacts DEF B
  <2>3. y \in Nat BY DEF B
  <2> HIDE DEF y, w
  <2>4. RefP(c, t) = y BY ONLY <2>1, <2>2, <2>3
  <2>5. QED BY <2>4 DEF y
<1>13. \A t \in Slot : HoldP(c, t) <=> t = r BY <1>2, <1>11, SlotFacts DEF HoldP
<1>14. OffHands(c, m, r) BY <1>2, <1>3, <1>11, <1>12, <1>13 DEF OffHands
<1>15. OffAt(k, p, m, r, l) BY <1>2, <1>3, <1>5, <1>6, <1>7, <1>8, <1>9, <1>10 DEF OffAt
<1>16. QED BY <1>14, <1>15

\* The file system is busy.
LEMMA OffBusy ==
  ASSUME NEW k, NEW X, Good(k, X), NEW p \in Proc, NEW m, NEW r, NEW l, OffAt(k, p, m, r, l), OffHands(k.u[p], m, r)
  PROVE  Good(Goto(Prele(k, r), p, <<>>), X)
<1> DEFINE c == k.u[p]
           kp == Prele(k, r)
           ka == Goto(kp, p, <<>>)
           c1 == ka.u[p]
<1>1. /\ Types(k) /\ r \in Slot /\ IsMounted(k) /\ PathAt(k, c, l) /\ l \notin Owner /\ Bot(c.pc) = l
  BY DEF OffAt, LastFacts, Owner
<1>2. /\ c.chan = Awake /\ c.fd \in Opt
      /\ \A t \in Slot : RefP(c, t) = B(c.fd = t) /\ (HoldP(c, t) <=> t = r)
  BY DEF OffHands
<1> HIDE DEF c
<1>3. /\ Types(kp) /\ SameRest(k, kp) /\ NodeBut(k, kp, r)
      /\ KeepN(k.node[r], kp.node[r], {"lock", "want"}) /\ ~kp.node[r].lock
      /\ \A q \in Proc : /\ KeepU(k.u[q], kp.u[q], {"chan"})
                         /\ kp.u[q].chan = IF k.node[r].want /\ k.u[q].chan = On(r) THEN Awake
                                           ELSE k.u[q].chan
  BY <1>1, PreleEff
<1> HIDE DEF kp
<1>4. /\ \A t \in Slot : KeepN(k.node[t], kp.node[t], {"lock", "want"})
      /\ \A t \in Slot \ {r} : kp.node[t] = k.node[t]
  BY <1>3 DEF NodeBut, KeepN
<1>5. Types(ka) /\ Only(kp, ka, p) /\ GoneTo(kp.u[p], ka.u[p], <<>>) BY <1>3, GotoEff, EmptyStack
<1> HIDE DEF ka
<1>6. /\ c1.pc = <<>> /\ c1.ip = 0 /\ c1.dip = 0 /\ c1.put = 0 /\ c1.rip = 0 /\ c1.mip = 0 /\ c1.op = ""
      /\ c1.fd = c.fd /\ c1.fino = c.fino /\ c1.chan = Awake
  <2>1. kp.u[p].fd = c.fd /\ kp.u[p].fino = c.fino
    <3>1. KeepU(c, kp.u[p], {"chan"}) BY <1>3 DEF c
    <3>2. QED BY ONLY <3>1 DEF KeepU, UserF
  <2>2. QED BY <1>5, <2>1 DEF GoneTo
<1>7. ka.node = kp.node /\ ka.fs = kp.fs /\ ka.freel = kp.freel /\ \A q \in Proc \ {p} : ka.u[q] = kp.u[q]
  BY <1>5 DEF Only
<1>8. kp.freel = k.freel /\ kp.fs = k.fs BY <1>3 DEF SameRest
<1>9. Others(k, ka, p) BY <1>3, <1>7 DEF Others
<1> HIDE DEF c1
<1>10. ProcOK(c1) /\ \A t \in Slot : RefP(c1, t) = B(c1.fd = t) /\ ~HoldP(c1, t) BY <1>6, OutHands
<1>11. Loose(k, ka, p, {r})
  <2>1. ASSUME NEW t \in Slot
        PROVE  /\ ka.node[t].ino = k.node[t].ino /\ ka.node[t].mroot = k.node[t].mroot
               /\ ka.node[t].count = k.node[t].count
               /\ ka.node[t].lock <=> (k.node[t].lock /\ t \notin {r})
               /\ k.node[t].want /\ t \notin {r} => ka.node[t].want
    BY <1>3, <1>4, <1>7 DEF KeepN, NodeF
  <2>2. \A t \in Slot : RefP(ka.u[p], t) = RefP(k.u[p], t)
    <3>1. c1.fd = c.fd BY <1>6
    <3>2. \A t \in Slot : RefP(c1, t) = RefP(c, t)
      <4>1. \A t \in Slot : RefP(c1, t) = B(c1.fd = t) BY <1>10
      <4>2. \A t \in Slot : RefP(c, t) = B(c.fd = t) BY <1>2
      <4>3. QED BY ONLY <3>1, <4>1, <4>2
    <3>3. QED BY <3>2 DEF c, c1
  <2>3. \A t \in Slot : HoldP(ka.u[p], t) <=> (HoldP(k.u[p], t) /\ t \notin {r}) BY <1>2, <1>10 DEF c, c1
  <2>4. \A t \in {r} : HoldP(k.u[p], t) BY <1>1, <1>2 DEF c
  <2>5. \A q \in Proc \ {p} : k.node[r].want => ka.u[q].chan # On(r) BY <1>1, <1>3, <1>7, AwakeOn
  <2>6. ka.u[p].chan = Awake BY <1>6 DEF c1
  <2>7. ka.freel = k.freel /\ ka.fs.ilock = k.fs.ilock BY <1>7, <1>8
  <2>8. QED BY ONLY <1>5, <1>9, <2>1, <2>2, <2>3, <2>4, <2>5, <2>6, <2>7 DEF Loose
<1>12. Settled(k, ka, p)
  <2>1. \A t \in Slot : ka.node[t].mpoint = k.node[t].mpoint BY <1>4, <1>7 DEF KeepN, NodeF
  <2>2. c1.fd # 0 => k.node[c1.fd].ino = c1.fino /\ c1.fino \in InFs BY <1>1, <1>6 DEF PathAt
  <2>3. Bot(c1.pc) = "" /\ Bot(c1.pc) \notin Owner /\ PathAt(k, c1, Bot(c1.pc)) /\ Empty(ka, c1)
    BY <1>6, <2>2, OutPath DEF Empty
  <2>4. RootOwned(k, c1) BY <1>1 DEF RootOwned
  <2>5. PutOK(ka, c1) BY <1>6 DEF PutOK
  <2>6. \A t \in Slot : ~OwnsRoot(k.u[p], t) BY <1>1 DEF OwnsRoot, c
  <2>7. QED BY <1>7, <1>8, <1>10, <2>1, <2>3, <2>4, <2>5, <2>6 DEF Settled, c1
<1>13. {r} \in SUBSET Slot BY <1>1
<1> DEFINE D == {r}
<1> HIDE DEF D
<1>14. D \in SUBSET Slot /\ Loose(k, ka, p, D) BY <1>11, <1>13 DEF D
<1>15. Good(ka, X) BY <1>12, <1>14, LooseGood
<1>16. QED BY <1>15 DEF ka, kp

\* p has taken the root r off m, which is locked, and is about to give m up.
Unhung(k, k1, p, m, r) ==
  /\ Types(k1) /\ k1.freel = k.freel /\ k1.fs = k.fs /\ \A q \in Proc \ {p} : k1.u[q] = k.u[q]
  /\ \A t \in Slot : /\ k1.node[t].ino = k.node[t].ino /\ k1.node[t].count = k.node[t].count
                     /\ k1.node[t].mroot = (IF t = m THEN 0 ELSE k.node[t].mroot)
                     /\ t # m => k1.node[t].lock = k.node[t].lock /\ k1.node[t].want = k.node[t].want
  /\ k1.node[m].lock
  /\ KeepU(k.u[p], k1.u[p], {"pc", "mip", "up"})
  /\ k1.u[p].pc = <<"upput", "iputrip">> /\ k1.u[p].mip = 0 /\ k1.u[p].up = m

\* Nothing of the file system is in core but its root, and only the mount has that.
Deserted(k, r) == \A t \in Slot : k.node[t].ino \notin {"mp", "none"} => t = r /\ k.node[t].count = 1
\* What c1 has of c: the root is a reference of its own.
UnhungHands(c, c1, m, r) ==
  /\ \A t \in Slot : RefP(c1, t) = RefP(c, t) + B(m = t) + B(r = t) /\ RefP(c, t) \in Nat /\ RefP(c1, t) \in Nat
  /\ \A t \in Slot : (HoldP(c, t) <=> t = r) /\ (HoldP(c1, t) <=> t \in {m, r})
  /\ ProcOK(c1) /\ c1.put = 0 /\ c1.fd = c.fd /\ c1.fino = c.fino /\ c1.chan = Awake /\ c1.rip = r
  /\ Bot(c1.pc) = "iputrip" /\ Top(c1.pc) = "upput" /\ c1.pc # <<>>

\* What it has in hand when the root hangs there no more,
LEMMA UnhungHandsOK ==
  ASSUME NEW k, NEW k1, NEW X, Good(k, X), NEW p \in Proc, NEW m, NEW r, NEW l, OffAt(k, p, m, r, l),
         OffHands(k.u[p], m, r), Unhung(k, k1, p, m, r)
  PROVE  UnhungHands(k.u[p], k1.u[p], m, r)
<1> DEFINE c == k.u[p]
           c1 == k1.u[p]
<1>1. /\ c.ip = 0 /\ c.dip = 0 /\ c.put = 0 /\ c.rip = r /\ c.mip = m /\ Rip(c) = 0 /\ Up(c) = 0 /\ c.chan = Awake
      /\ ~Walk(c) /\ \A t \in Slot : RefP(c, t) = B(c.fd = t) /\ (HoldP(c, t) <=> t = r)
  BY DEF OffHands
<1>1a. HandOK(c, c.pc) BY DEF OffAt, LastFacts
<1>2. /\ KeepU(c, c1, {"pc", "mip", "up"}) /\ c1.pc = <<"upput", "iputrip">> /\ c1.mip = 0 /\ c1.up = m
  BY DEF Unhung
<1>3. /\ "iputrip" \in LastL /\ "upput" \in Label \ LastL /\ Below("upput", "iputrip")
      /\ "iputrip" \in WithRip /\ "iputrip" \notin WithDip \cup WithIp \cup PerhapsIp \cup WithMip \cup Opens
  BY DEF LastL, WithIp, WithDip, WithRip, WithMip, PerhapsIp, Opens, Label, LeafL, MidL, Below
<1>4. /\ StackOK(<<"upput", "iputrip">>) /\ Bot(<<"upput", "iputrip">>) = "iputrip"
      /\ Top(<<"upput", "iputrip">>) = "upput" /\ <<"upput", "iputrip">> # <<>>
  BY <1>3, OnLast
<1>5. m \in Slot /\ r \in Slot /\ m # r /\ m # 0 /\ r # 0 BY SlotFacts DEF OffAt
<1> HIDE DEF c, c1
<1>6. /\ c1.put = 0 /\ c1.rip = r /\ c1.ip = 0 /\ c1.dip = 0 /\ c1.fd = c.fd /\ c1.fino = c.fino /\ c1.chan = Awake
      /\ c1.op = c.op /\ c1.name = c.name
  BY ONLY <1>1, <1>2 DEF KeepU, UserF
<1>7. Up(c1) = m /\ Rip(c1) = r /\ ~Walk(c1) BY <1>2, <1>4, <1>6 DEF Up, Rip, Walk
<1>8. ASSUME NEW t \in Slot
      PROVE RefP(c1, t) = RefP(c, t) + B(m = t) + B(r = t) /\ RefP(c, t) \in Nat /\ RefP(c1, t) \in Nat
  <2> DEFINE x == B(m = t)
             y == B(r = t)
             z == B(c.fd = t)
             w == B(0 = t)
  <2>1. RefP(c, t) = z BY <1>1
  <2>2. RefP(c1, t) = w + w + z + w + x + y BY <1>6, <1>7 DEF RefP
  <2>3. w = 0 BY SlotFacts DEF B
  <2>4. x \in Nat /\ y \in Nat /\ z \in Nat BY DEF B
  <2> HIDE DEF x, y, z, w
  <2>5. RefP(c1, t) = RefP(c, t) + x + y /\ RefP(c, t) \in Nat /\ RefP(c1, t) \in Nat BY ONLY <2>1, <2>2, <2>3, <2>4
  <2>6. QED BY <2>5 DEF x, y
<1>9. \A t \in Slot : (HoldP(c, t) <=> t = r) /\ (HoldP(c1, t) <=> t \in {m, r})
  BY <1>1, <1>2, <1>6, <1>7, SlotFacts DEF HoldP
<1>10. HandOK(c1, c1.pc)
  <2>1. /\ c.op \in {"open", "creat", "exec", "unlink"} => c.name \in Name
        /\ c.op \in {"open", "creat"} => c.fd = 0
    BY <1>1a DEF HandOK
  <2>2. "iputrip" \notin {"closef", "more", "plockdir", "funmount", "fsoff", "unhang", "putdir", "got"} OBVIOUS
  <2>3. QED BY <1>2, <1>3, <1>4, <1>5, <1>6, <2>1, <2>2 DEF HandOK
<1>11. ProcOK(c1) BY <1>2, <1>5, <1>6, <1>7, <1>10 DEF ProcOK, Apart
<1>12. UnhungHands(c, c1, m, r) BY <1>2, <1>4, <1>6, <1>8, <1>9, <1>11 DEF UnhungHands
<1>13. QED BY <1>12 DEF c, c1

\* that the counts and locks balance,
LEMMA UnhungCore ==
  ASSUME NEW k, NEW k1, NEW X, Good(k, X), NEW p \in Proc, NEW m, NEW r, NEW l, OffAt(k, p, m, r, l),
         OffHands(k.u[p], m, r), Unhung(k, k1, p, m, r), ~k.node[m].lock
  PROVE  Core(k1, X)
<1> DEFINE c == k.u[p]
           c1 == k1.u[p]
<1>1. /\ m \in Slot /\ r \in Slot /\ m # r /\ k.node[m].ino = "mp" /\ k.node[m].mroot = r
      /\ \A s \in Slot : k.node[s].mroot # 0 => s = m
  BY DEF OffAt
<1>2. /\ Types(k1) /\ k1.freel = k.freel /\ k1.fs = k.fs /\ \A q \in Proc \ {p} : k1.u[q] = k.u[q]
      /\ \A t \in Slot : /\ k1.node[t].ino = k.node[t].ino /\ k1.node[t].count = k.node[t].count
                         /\ k1.node[t].mroot = (IF t = m THEN 0 ELSE k.node[t].mroot)
                         /\ t # m => k1.node[t].lock = k.node[t].lock /\ k1.node[t].want = k.node[t].want
      /\ k1.node[m].lock
  BY DEF Unhung
<1>3. /\ \A t \in Slot : RefP(c1, t) = RefP(c, t) + B(m = t) + B(r = t) /\ RefP(c, t) \in Nat /\ RefP(c1, t) \in Nat
      /\ \A t \in Slot : (HoldP(c, t) <=> t = r) /\ (HoldP(c1, t) <=> t \in {m, r})
      /\ ProcOK(c1) /\ c1.put = 0 /\ c1.chan = Awake /\ c1.pc # <<>>
  <2>1. UnhungHands(c, c1, m, r) BY UnhungHandsOK
  <2> HIDE DEF c, c1
  <2>2. QED BY ONLY <2>1 DEF UnhungHands
<1>4. /\ Core(k, X) /\ Types(k) /\ Texts(X) /\ LockInv(k) BY DEF Good, Core
<1>5. Others(k, k1, p) BY <1>2 DEF Others, KeepU
<1>6. \A t \in Slot : MountRefs(k.node, t) = B(m = t) + B(r = t) /\ MountRefs(k1.node, t) = 0
  <2> SUFFICES ASSUME NEW t \in Slot PROVE MountRefs(k.node, t) = B(m = t) + B(r = t) /\ MountRefs(k1.node, t) = 0
    OBVIOUS
  <2> DEFINE S == {n \in Slot : k.node[n].mroot = t \/ (n = t /\ k.node[n].mroot # 0)}
             S1 == {n \in Slot : k1.node[n].mroot = t \/ (n = t /\ k1.node[n].mroot # 0)}
  <2>0. t # 0 /\ r # 0 BY <1>1, SlotFacts
  <2>0a. \A n \in Slot : k.node[n].mroot = IF n = m THEN r ELSE 0 BY <1>1
  <2>1. MountRefs(k.node, t) = B(m = t) + B(r = t)
    <3>1. CASE t = m \/ t = r
      <4>1. S = {m} BY <1>1, <2>0, <2>0a, <3>1
      <4>2. Cardinality(S) = 1 BY <4>1, FS_Singleton
      <4>3. B(m = t) + B(r = t) = 1 BY <1>1, <3>1 DEF B
      <4>4. QED BY <4>2, <4>3 DEF MountRefs
    <3>2. CASE t # m /\ t # r
      <4>1. S = {} BY <2>0, <2>0a, <3>2
      <4>2. Cardinality(S) = 0 BY <4>1, FS_EmptySet
      <4>3. B(m = t) + B(r = t) = 0 BY <3>2 DEF B
      <4>4. QED BY <4>2, <4>3 DEF MountRefs
    <3>3. QED BY <3>1, <3>2
  <2>2. MountRefs(k1.node, t) = 0
    <3>1. \A n \in Slot : k1.node[n].mroot = 0 BY <1>2, <2>0a
    <3>2. S1 = {} BY <2>0, <3>1
    <3>3. Cardinality(S1) = 0 BY <3>2, FS_EmptySet
    <3>4. QED BY <3>3 DEF MountRefs
  <2>3. QED BY <2>1, <2>2
<1> HIDE DEF c, c1
<1>7. Ledger(k, k1, p, X, X)
  <2> SUFFICES ASSUME NEW t \in Slot
               PROVE k1.node[t].count - RefP(c1, t) - MountRefs(k1.node, t) - X[t]
                     = k.node[t].count - RefP(c, t) - MountRefs(k.node, t) - X[t]
    BY DEF Ledger, c, c1
  <2> DEFINE n == k.node[t].count
             n1 == k1.node[t].count
             a == RefP(c, t)
             a1 == RefP(c1, t)
             v == MountRefs(k.node, t)
             v1 == MountRefs(k1.node, t)
             x == X[t]
             bm == B(m = t)
             br == B(r = t)
  <2>1. n \in Int BY <1>4 DEF Types, NodesOK, NodeOK
  <2>2. x \in Nat /\ a \in Nat BY <1>3, <1>4 DEF Texts
  <2>3. n1 = n BY <1>2
  <2>4. a1 = a + bm + br BY <1>3
  <2>5. v1 = 0 /\ v = bm + br BY <1>6
  <2>6. bm \in Nat /\ br \in Nat BY DEF B
  <2> HIDE DEF n, n1, a, a1, v, v1, x, bm, br
  <2>7. n1 - a1 - v1 - x = n - a - v - x BY ONLY <2>1, <2>2, <2>3, <2>4, <2>5, <2>6
  <2>8. QED BY <2>7 DEF n, n1, a, a1, v, v1, x
<1>8. Locking(k, k1, p)
  <2> SUFFICES ASSUME NEW t \in Slot
               PROVE /\ k1.node[t].lock <=> (HoldP(c1, t) \/ (k.node[t].lock /\ ~HoldP(c, t)))
                     /\ HoldP(c1, t) => HoldP(c, t) \/ ~k.node[t].lock
    BY DEF Locking, c, c1
  <2>1. k.node[r].lock BY <1>1, <1>3, <1>4 DEF LockInv, c
  <2>2. CASE t = r BY <1>1, <1>2, <1>3, <2>1, <2>2
  <2>3. CASE t = m BY <1>1, <1>2, <1>3, <2>3
  <2>4. CASE t # r /\ t # m BY <1>2, <1>3, <2>4
  <2>5. QED BY <2>2, <2>3, <2>4
<1>9. Waking(k, k1, p)
  <2>1. ASSUME NEW q \in Proc \ {p}, NEW t \in Slot, k1.u[q].chan = On(t), k.node[t].lock, k.node[t].want
        PROVE  k1.node[t].lock /\ k1.node[t].want
    <3>1. t # m BY <2>1
    <3>2. QED BY <1>2, <2>1, <3>1
  <2>2. \A t \in Slot : c1.chan # On(t) BY <1>3, AwakeOn
  <2>3. c1.chan # <<"ilock", 0>> BY <1>3 DEF Awake
  <2>4. QED BY <2>1, <2>2, <2>3, <1>2, <1>3 DEF Waking, c1
<1>10. Stays(k, k1)
  <2> SUFFICES ASSUME NEW t \in Slot PROVE SameSlot(k.node[t], k1.node[t]) BY <1>2 DEF Stays
  <2>1. k1.node[t].lock => k.node[t].lock \/ k.node[t].ino # "none" BY <1>1, <1>2
  <2>2. QED BY <2>1, <1>2 DEF SameSlot
<1>11. QED BY <1>2, <1>3, <1>4, <1>5, <1>7, <1>8, <1>9, <1>10, CoreStep DEF c1

\* Nobody is on the way from the root to the directory it is mounted on.
NoneCrosses(k) == \A q \in Proc : Bot(k.u[q].pc) # "plockdir"

\* and that the invariant is kept, if nobody is on the way across.
LEMMA UnhungGood ==
  ASSUME NEW k, NEW k1, NEW X, Good(k, X), NEW p \in Proc, NEW m, NEW r, NEW l, OffAt(k, p, m, r, l),
         OffHands(k.u[p], m, r), Unhung(k, k1, p, m, r), ~k.node[m].lock, Deserted(k, r), NoneCrosses(k)
  PROVE  Good(k1, X)
<1> DEFINE c == k.u[p]
           c1 == k1.u[p]
<1>1. /\ m \in Slot /\ r \in Slot /\ m # r /\ k.node[m].ino = "mp" /\ k.node[r].ino = "root" /\ k.fs.mdev
      /\ m # 0 /\ r # 0 /\ k.node[m].mroot = r /\ IsMounted(k) /\ c.fd \in Opt
      /\ \A s \in Slot : k.node[s].mroot # 0 => s = m
      /\ \A s \in Slot : k.node[s].ino = "root" => s = r
  BY SlotFacts DEF OffAt, OffHands
<1>2. /\ Types(k1) /\ k1.fs = k.fs /\ \A q \in Proc \ {p} : k1.u[q] = k.u[q]
      /\ \A t \in Slot : /\ k1.node[t].ino = k.node[t].ino /\ k1.node[t].count = k.node[t].count
                         /\ k1.node[t].mroot = (IF t = m THEN 0 ELSE k.node[t].mroot)
  BY DEF Unhung
<1>3. UnhungHands(c, c1, m, r) BY UnhungHandsOK
<1>4. Core(k1, X) BY UnhungCore
<1>5. PathAt(k, c, l) BY DEF OffAt, LastFacts
<1>6. /\ Core(k, X) /\ Types(k) /\ Mounts(k) /\ LockInv(k)
      /\ \A q \in Proc : PutOK(k, k.u[q]) /\ ProcOK(k.u[q]) /\ PathOK(k, k.u[q]) /\ UserOK(k.u[q])
      /\ \A q \in Proc : ProcOK(k1.u[q]) /\ UserOK(k1.u[q])
  BY <1>2, <1>4 DEF Good, Core, Mounts, Types, UsersOK
<1>7. ~IsMounted(k1) BY <1>1, <1>2 DEF IsMounted
<1>8. "mp" \notin InFs /\ "root" \notin InFs /\ "none" \notin InFs BY KeyNames
<1>9. /\ c1.fd = c.fd /\ c1.fino = c.fino /\ c1.put = 0 /\ c1.rip = r /\ Bot(c1.pc) = "iputrip"
      /\ \A t \in Slot : HoldP(c, t) <=> t = r
  <2> HIDE DEF c, c1
  <2>1. QED BY ONLY <1>3 DEF UnhungHands
<1>10. MountInv(k1)
  <2>1. \A s \in Slot : k1.node[s].mroot = 0 BY <1>1, <1>2
  <2>2. \A s \in Slot : k1.node[s].ino \notin InFs
    <3>1. SUFFICES ASSUME NEW s \in Slot, k1.node[s].ino \in InFs PROVE FALSE OBVIOUS
    <3>2. k.node[s].ino \in InFs BY <1>2, <3>1
    <3>3. s = r BY <3>2, <1>8 DEF Deserted
    <3>4. QED BY <3>2, <3>3, <1>1, <1>8
  <2>3. QED BY <2>1, <2>2 DEF MountInv
<1>11. ASSUME NEW q \in Proc \ {p}
       PROVE  /\ k1.u[q] = k.u[q] /\ Bot(k.u[q].pc) \notin Owner \cup {"fsoff", "unhang", "plockdir"}
              /\ RefP(k.u[q], r) = 0
  <2> DEFINE d == k.u[q]
  <2>1. Bot(d.pc) \notin Owner BY <1>1, <1>6 DEF PathOK
  <2>2. Bot(d.pc) # "plockdir" BY DEF NoneCrosses
  <2>3. Bot(d.pc) \notin {"fsoff", "unhang"}
    <3>1. SUFFICES ASSUME Bot(d.pc) \in {"fsoff", "unhang"} PROVE FALSE OBVIOUS
    <3>2. HandOK(d, d.pc) /\ PathOK(k, d) BY <1>6 DEF ProcOK
    <3>3. d.rip # 0 /\ d.mip # 0 BY <3>1, <3>2 DEF HandOK, WithRip, WithMip
    <3>4. k.node[d.mip].mroot = d.rip BY <3>1, <3>2 DEF PathOK
    <3>5. d.mip \in Slot BY <3>3, <1>6, HandTypes
    <3>6. d.rip = r BY <3>3, <3>4, <3>5, <1>1
    <3>7. HoldP(d, r) BY <3>6 DEF HoldP
    <3>8. HoldP(c, r) BY <1>1, <1>9
    <3>9. QED BY <3>7, <3>8, <1>1, <1>6 DEF LockInv
  <2>4. RefP(d, r) = 0
    <3>1. k.node[r].count = 1 BY <1>1 DEF Deserted
    <3>2. MountRefs(k.node, r) # 0 BY <1>1, MountPos
    <3>3. /\ RefP(d, r) \in Nat /\ MountRefs(k.node, r) \in Nat /\ X[r] \in Nat
          /\ k.node[r].count >= RefP(d, r) + MountRefs(k.node, r) + X[r]
      BY <1>1, <1>6, CountAtLeast
    <3>4. QED BY <3>1, <3>2, <3>3
  <2>5. QED BY <2>1, <2>2, <2>3, <2>4, <1>2
<1>12. OwnerInv(k1)
  <2>1. ASSUME NEW q \in Proc, NEW q1 \in Proc, Bot(k1.u[q].pc) \in Owner, Bot(k1.u[q1].pc) \in Owner PROVE q = q1
    BY <1>11, <2>1
  <2>2. ASSUME NEW s \in Slot, k1.node[s].ino = "root" PROVE OwnsRoot(k1.u[p], s)
    <3>1. s = r BY <1>1, <1>2, <2>2
    <3>2. QED BY <3>1, <1>9 DEF OwnsRoot, Owner
  <2>3. QED BY <2>1, <2>2 DEF OwnerInv
<1>13. ASSUME NEW q \in Proc \ {p} PROVE PathOK(k1, k1.u[q])
  <2> DEFINE d == k.u[q]
             d1 == k1.u[q]
  <2>1. KeepU(d, d1, {"chan"}) BY <1>11 DEF KeepU
  <2>2. Still(d, d1) BY <2>1, SamePath
  <2>3. UserOK(d) /\ UserOK(d1) /\ ProcOK(d) /\ ProcOK(d1) /\ PathOK(k, d) BY <1>6
  <2>4. Bot(d.pc) \notin Owner /\ Bot(d.pc) \notin WithMip /\ Bot(d.pc) # "unhang" BY <1>11 DEF WithMip
  <2>5. d1 = d /\ RefP(d, r) = 0 BY <1>11
  <2> HIDE DEF d, d1
  <2>6. \A s \in Slot : RefP(d1, s) # 0 =>
           /\ k1.node[s].ino = k.node[s].ino
           /\ k.node[s].ino = "root" /\ ~IsMounted(k1) => ~IsMounted(k)
    BY <1>1, <1>2, <2>5
  <2>7. PathOK(k1, d1) BY <2>2, <2>3, <2>4, <2>6, PathFrame
  <2>8. QED BY <2>7 DEF d1
<1>14. PathOK(k1, c1)
  <2> HIDE DEF c, c1
  <2>3. c1.fd # 0 => k1.node[c1.fd].ino = c1.fino /\ c1.fino \in InFs
    <3>1. c.fd # 0 => k.node[c.fd].ino = c.fino /\ c.fino \in InFs BY <1>5 DEF PathAt
    <3>2. c.fd # 0 => c.fd \in Slot BY <1>1 DEF Opt
    <3>3. QED BY <1>2, <1>9, <3>1, <3>2
  <2>4. PathAt(k1, c1, Bot(c1.pc)) BY <2>3, <1>9 DEF PathAt, Named, WithDip
  <2>5. Bot(c1.pc) \in Owner BY <1>9 DEF Owner
  <2>6. RootOwned(k1, c1) BY <2>5 DEF RootOwned
  <2>7. Empty(k1, c1) BY <1>9 DEF Empty
  <2>8. k1.fs.mdev BY <1>1, <1>2
  <2>9. QED BY <1>7, <2>4, <2>6, <2>7, <2>8, PathParts
<1>15. Mounts(k1) BY <1>10, <1>12, <1>13, <1>14 DEF Mounts
<1>16. ASSUME NEW q \in Proc PROVE PutOK(k1, k1.u[q])
  <2>1. CASE q = p BY <1>9, <2>1 DEF PutOK
  <2>2. CASE q # p
    <3>1. k1.u[q] = k.u[q] /\ PutOK(k, k.u[q]) /\ k.u[q].put \in Opt BY <1>6, <1>11, <2>2, HandTypes
    <3>2. QED BY <3>1, <1>2 DEF PutOK, Opt
  <2>3. QED BY <2>1, <2>2
<1>17. QED BY <1>4, <1>15, <1>16 DEF Good

\* The root is taken off m.
SetUnhung(k, p, m) == [k EXCEPT !.node[m].mroot = 0, !.u[p].mip = 0]
\* What that changes.
UnhungSet(k, k1, p, m) ==
  /\ Types(k1) /\ SameRest(k, k1) /\ NodeBut(k, k1, m) /\ KeepN(k.node[m], k1.node[m], {"mroot"})
  /\ k1.node[m].mroot = 0 /\ \A q \in Proc \ {p} : k1.u[q] = k.u[q]
  /\ KeepU(k.u[p], k1.u[p], {"mip"}) /\ k1.u[p].mip = 0

\* The root and the directory do not point at each other any more.
LEMMA SetUnhungEff ==
  ASSUME NEW k, Types(k), NEW p \in Proc, NEW m \in Slot
  PROVE  UnhungSet(k, SetUnhung(k, p, m), p, m)
<1> DEFINE z == 0
           a == [k.node[m] EXCEPT !.mroot = z]
           ka == [k EXCEPT !.node[m] = a]
           c == [k.u[p] EXCEPT !.mip = z]
           kb == [ka EXCEPT !.u[p] = c]
           k1 == SetUnhung(k, p, m)
<1>0. Shape(k) /\ NodesOK(k.node) /\ UsersOK(k.u) BY DEF Types
<1>1. k1 = kb
  <2> DEFINE e1 == [k EXCEPT !.node[m].mroot = z]
             e2 == [e1 EXCEPT !.u[p].mip = z]
  <2>1. k1 = e2 BY DEF SetUnhung
  <2>2. e1 = ka OBVIOUS
  <2>3. ka.u[p] = k.u[p] BY <1>0 DEF Shape, Five
  <2> HIDE DEF e1, ka
  <2>4. e2 = [ka EXCEPT !.u[p].mip = z] BY <2>2
  <2>5. e2 = kb BY <2>3, <2>4
  <2> HIDE DEF k1, e2, kb
  <2>6. QED BY <2>1, <2>5
<1>2. z = 0 /\ z \in Opt BY SlotFacts
<1>3. NodeOK(k.node[m]) /\ k.node[m] = [f \in NodeF |-> k.node[m][f]] /\ UserOK(k.u[p])
      /\ k.u[p] = [f \in UserF |-> k.u[p][f]]
  BY <1>0 DEF NodesOK, NodeOK, UsersOK, UserOK
<1> HIDE DEF z
<1>4. a = [f \in NodeF |-> a[f]] /\ a.mroot = z /\ KeepN(k.node[m], a, {"mroot"}) BY <1>3 DEF NodeF, KeepN
<1>5. c = [f \in UserF |-> c[f]] /\ c.mip = z /\ KeepU(k.u[p], c, {"mip"}) BY <1>3 DEF UserF, KeepU
<1> HIDE DEF a, c
<1>6. NodeOK(a) BY <1>2, <1>3, <1>4 DEF NodeOK, KeepN, NodeF
<1>7. UserOK(c) BY <1>2, <1>3, <1>5 DEF UserOK, KeepU, UserF
<1>8. Types(ka) /\ SameRest(k, ka) /\ ka.u = k.u /\ NodeBut(k, ka, m) /\ ka.node[m] = a BY <1>6, SetNode
<1> HIDE DEF ka
<1>9. Types(kb) /\ Only(ka, kb, p) /\ kb.u[p] = c BY <1>7, <1>8, SetUser
<1> HIDE DEF kb, k1
<1>10. kb.node = ka.node /\ SameRest(k, kb) BY <1>8, <1>9 DEF Only, SameRest
<1>11. NodeBut(k, kb, m) /\ kb.node[m] = a BY <1>8, <1>10 DEF NodeBut
<1>12. /\ \A q \in Proc \ {p} : kb.u[q] = k.u[q]
       /\ KeepU(k.u[p], kb.u[p], {"mip"}) /\ kb.u[p].mip = 0
  BY <1>2, <1>5, <1>8, <1>9 DEF Only
<1>13. UnhungSet(k, kb, p, m) BY <1>2, <1>4, <1>9, <1>10, <1>11, <1>12 DEF UnhungSet
<1>14. QED BY <1>1, <1>13 DEF k1

\* A process goes on at pc, and updates x.
SetPcUp(k, p, pc, x) == [k EXCEPT !.u[p].pc = pc, !.u[p].up = x]

LEMMA SetPcUpEff ==
  ASSUME NEW k, Types(k), NEW p \in Proc, NEW pc \in Seq(Label), NEW x \in Opt
  PROVE  LET k1 == SetPcUp(k, p, pc, x) IN
         /\ Types(k1) /\ Only(k, k1, p) /\ KeepU(k.u[p], k1.u[p], {"pc", "up"})
         /\ k1.u[p].pc = pc /\ k1.u[p].up = x
<1> DEFINE c == [k.u[p] EXCEPT !.pc = pc, !.up = x]
           k1 == SetPcUp(k, p, pc, x)
           j == [k EXCEPT !.u[p] = c]
<1>0. UserOK(k.u[p]) /\ k.u[p] = [f \in UserF |-> k.u[p][f]] /\ UsersOK(k.u) /\ Shape(k)
  BY DEF Types, UsersOK, UserOK
<1>1. k1 = j BY <1>0 DEF SetPcUp, UsersOK, Shape, Five
<1>2. c = [f \in UserF |-> c[f]] /\ c.pc = pc /\ c.up = x /\ KeepU(k.u[p], c, {"pc", "up"}) BY <1>0 DEF UserF, KeepU
<1> HIDE DEF c
<1>3. UserOK(c) BY <1>0, <1>2 DEF UserOK, KeepU, UserF
<1>4. Types(j) /\ Only(k, j, p) /\ j.u[p] = c BY <1>3, SetUser
<1> HIDE DEF k1, j
<1>5. QED BY <1>1, <1>2, <1>4 DEF k1

\* The directory is free: the root is taken off it and it is given up.
LEMMA UnhangDone ==
  ASSUME NEW k, NEW X, Good(k, X), NEW p \in Proc, NEW m, NEW r, NEW l, OffAt(k, p, m, r, l),
         OffHands(k.u[p], m, r), ~k.node[m].lock, Deserted(k, r), NoneCrosses(k)
  PROVE  Good(Iput(SetUnhung(Lock(k, m), p, m), p, m, <<"iputrip">>), X)
<1> DEFINE rest == <<"iputrip">>
           pc == <<"upput", "iputrip">>
           km == Lock(k, m)
           k0 == SetUnhung(km, p, m)
           k1 == Iput(k0, p, m, rest)
           kp == SetPcUp(k0, p, pc, m)
           c == k.u[p]
           c0 == k0.u[p]
           cp == kp.u[p]
<1>1. /\ m \in Slot /\ r \in Slot /\ m # r /\ k.node[m].ino = "mp" /\ k.node[m].mroot = r /\ m # 0 /\ r # 0
      /\ m \in Opt /\ Types(k) /\ k.fs.mdev /\ k.node[r].ino = "root" /\ \A s \in Slot : k.node[s].ino = "root" => s = r
  BY SlotFacts DEF OffAt
<1>2. /\ c.ip = 0 /\ c.dip = 0 /\ c.put = 0 /\ c.rip = r /\ c.mip = m /\ Rip(c) = 0 /\ c.chan = Awake
      /\ \A t \in Slot : RefP(c, t) = B(c.fd = t) /\ (HoldP(c, t) <=> t = r)
  BY DEF OffHands
<1>3. HandOK(c, c.pc) BY DEF OffAt, LastFacts
<1>4. /\ "iputrip" \in LastL /\ "upput" \in Label \ LastL /\ Below("upput", "iputrip") /\ "iputrip" \in Owner
      /\ "iputrip" \in WithRip
      /\ "iputrip" \notin WithDip \cup WithIp \cup PerhapsIp \cup WithMip \cup Opens \cup Named
  BY DEF LastL, WithIp, WithDip, WithRip, WithMip, PerhapsIp, Opens, Label, LeafL, MidL, Below, Owner, Named
<1>5. pc \in Seq(Label) /\ Bot(pc) = "iputrip" /\ Top(pc) = "upput" BY <1>4, OnLast
<1>6. /\ rest \in Seq(Label) /\ rest # <<>> /\ StackOK(rest) /\ Bot(rest) = "iputrip" /\ Top(rest) = "iputrip"
      /\ Top(rest) \notin LeafL
  BY <1>4, LastStack
<1>7. pc = <<"upput", "iputrip">> OBVIOUS
<1> HIDE DEF pc
<1>8. /\ Types(km) /\ SameRest(k, km) /\ km.u = k.u /\ NodeBut(k, km, m)
      /\ KeepN(k.node[m], km.node[m], {"lock"}) /\ km.node[m].lock
  BY <1>1, LockEff
<1> HIDE DEF km
<1>9. UnhungSet(km, k0, p, m) BY <1>1, <1>8, SetUnhungEff
<1> HIDE DEF k0
<1>10. /\ Types(k0) /\ SameRest(km, k0) /\ NodeBut(km, k0, m) /\ KeepN(km.node[m], k0.node[m], {"mroot"})
       /\ k0.node[m].mroot = 0 /\ \A q \in Proc \ {p} : k0.u[q] = k.u[q]
       /\ KeepU(c, c0, {"mip"}) /\ c0.mip = 0
  BY <1>8, <1>9 DEF UnhungSet
<1>11. KeepN(k.node[m], k0.node[m], {"lock", "mroot"}) /\ k0.node[m].lock
  <2> DEFINE a == k.node[m]
             b == km.node[m]
             d == k0.node[m]
  <2>1. KeepN(a, b, {"lock"}) /\ b.lock /\ KeepN(b, d, {"mroot"}) BY <1>8, <1>10
  <2> HIDE DEF a, b, d
  <2>2. KeepN(a, d, {"lock", "mroot"}) BY ONLY <2>1 DEF KeepN, NodeF
  <2>3. d.lock = b.lock BY ONLY <2>1 DEF KeepN, NodeF
  <2>4. QED BY <2>1, <2>2, <2>3 DEF a, d
<1>12. SameRest(k, k0) BY <1>8, <1>10 DEF SameRest
<1>13. NodeBut(k, k0, m) BY <1>8, <1>10 DEF NodeBut
<1>14. Types(kp) /\ Only(k0, kp, p) /\ KeepU(c0, cp, {"pc", "up"}) /\ cp.pc = pc /\ cp.up = m
  BY <1>1, <1>5, <1>10, SetPcUpEff
<1> HIDE DEF kp
<1>15. kp.node = k0.node /\ kp.freel = k0.freel /\ kp.fs = k0.fs /\ \A q \in Proc \ {p} : kp.u[q] = k0.u[q]
  BY <1>14 DEF Only
<1> HIDE DEF c, c0, cp
<1>16. /\ KeepU(c, cp, {"pc", "mip", "up"}) /\ cp.mip = 0 /\ cp.ip = 0 /\ cp.dip = 0 /\ cp.put = 0 /\ cp.rip = r
       /\ cp.fd = c.fd /\ cp.fino = c.fino
       /\ c0.ip = 0 /\ c0.dip = 0 /\ c0.put = 0 /\ c0.rip = r /\ c0.fd = c.fd /\ c0.fino = c.fino /\ c0.op = c.op
       /\ c0.name = c.name /\ c0.chan = Awake
  BY ONLY <1>2, <1>10, <1>14 DEF KeepU, UserF
<1>17. \A t \in Slot : /\ k0.node[t].ino = k.node[t].ino /\ k0.node[t].count = k.node[t].count
                       /\ k0.node[t].mroot = (IF t = m THEN 0 ELSE k.node[t].mroot)
                       /\ t # m => k0.node[t].lock = k.node[t].lock /\ k0.node[t].want = k.node[t].want
  <2> SUFFICES ASSUME NEW t \in Slot
               PROVE  /\ k0.node[t].ino = k.node[t].ino /\ k0.node[t].count = k.node[t].count
                      /\ k0.node[t].mroot = (IF t = m THEN 0 ELSE k.node[t].mroot)
                      /\ t # m => k0.node[t].lock = k.node[t].lock /\ k0.node[t].want = k.node[t].want
    OBVIOUS
  <2>1. CASE t = m
    <3>1. k0.node[m].ino = k.node[m].ino /\ k0.node[m].count = k.node[m].count BY ONLY <1>11 DEF KeepN, NodeF
    <3>2. QED BY <2>1, <3>1, <1>10
  <2>2. CASE t # m BY <2>2, <1>13 DEF NodeBut
  <2>3. QED BY <2>1, <2>2
<1>18. Unhung(k, kp, p, m, r)
  <2>1. kp.freel = k.freel /\ kp.fs = k.fs /\ \A q \in Proc \ {p} : kp.u[q] = k.u[q]
    BY <1>10, <1>12, <1>15 DEF SameRest
  <2>2. \A t \in Slot : /\ kp.node[t].ino = k.node[t].ino /\ kp.node[t].count = k.node[t].count
                        /\ kp.node[t].mroot = (IF t = m THEN 0 ELSE k.node[t].mroot)
                        /\ t # m => kp.node[t].lock = k.node[t].lock /\ kp.node[t].want = k.node[t].want
    BY <1>15, <1>17
  <2>3. kp.node[m].lock BY <1>11, <1>15
  <2>4. KeepU(k.u[p], kp.u[p], {"pc", "mip", "up"})
        /\ kp.u[p].pc = <<"upput", "iputrip">> /\ kp.u[p].mip = 0 /\ kp.u[p].up = m
    BY <1>7, <1>14, <1>16 DEF c, cp
  <2>5. QED BY <1>14, <2>1, <2>2, <2>3, <2>4 DEF Unhung
<1>19. Good(kp, X) BY <1>18, UnhungGood
<1>20. Up(cp) = m /\ Rip(cp) = r /\ Rip(c0) = r /\ ~Walk(cp) BY <1>5, <1>10, <1>14, <1>16 DEF Up, Rip, Walk
<1>21. Prep(kp, k0, p, m)
  <2>1. Others(kp, k0, p) BY <1>15 DEF Others, KeepU
  <2>2. /\ \A t \in Slot : KeepN(kp.node[t], k0.node[t], Dull)
        /\ KeepN(kp.node[m], k0.node[m], Dull \cup {"lock", "want"})
    BY <1>15 DEF KeepN
  <2>3. k0.u[p].chan = Awake BY <1>16 DEF c0
  <2>3a. kp.node = k0.node /\ kp.freel = k0.freel /\ kp.fs = k0.fs /\ Types(k0) BY <1>10, <1>15
  <2>4. QED BY ONLY <2>1, <2>2, <2>3, <2>3a DEF Prep
<1>22. Given(kp, k0, p, m, rest)
  <2>1. HandOK(c0, rest)
    <3>1. /\ c.op \in {"open", "creat", "exec", "unlink"} => c.name \in Name
          /\ c.op \in {"open", "creat"} => c.fd = 0
      BY <1>3 DEF HandOK, c
    <3>2. "iputrip" \notin {"closef", "more", "plockdir", "funmount", "fsoff", "unhang", "putdir", "got"} OBVIOUS
    <3>3. "iputrip" \notin {"fstrunc", "fsiupdat", "iget", "fsiread", "upput"} OBVIOUS
    <3> HIDE DEF rest
    <3>4. QED BY <1>1, <1>4, <1>6, <1>10, <1>16, <3>1, <3>2, <3>3 DEF HandOK
  <2>2. ASSUME NEW t \in Slot PROVE RefP(cp, t) = RefQ(c0, t) + B(m = t)
    <3> DEFINE x == B(m = t)
               y == B(c.fd = t)
               v == B(r = t)
               w == B(0 = t)
    <3>1. RefP(cp, t) = w + w + y + w + x + v BY <1>14, <1>16, <1>20 DEF RefP
    <3>2. RefQ(c0, t) = w + w + y + v BY <1>16, <1>20 DEF RefQ
    <3>3. w = 0 BY SlotFacts DEF B
    <3>4. x \in Nat /\ y \in Nat /\ v \in Nat BY DEF B
    <3> HIDE DEF x, y, w, v
    <3>5. RefP(cp, t) = RefQ(c0, t) + x BY ONLY <3>1, <3>2, <3>3, <3>4
    <3>6. QED BY <3>5 DEF x
  <2>3. \A t \in Slot \ {m} : HoldP(cp, t) <=> HoldQ(c0, t, "iputrip")
    BY <1>14, <1>16, <1>20, SlotFacts DEF HoldP, HoldQ
  <2>4. c0.ip = 0 BY <1>16
  <2> HIDE DEF rest
  <2>5. QED BY <1>6, <2>1, <2>2, <2>3, <2>4 DEF Given, c0, cp
<1>23. GiveLock(kp, k0, p, m, rest)
  <2>1. HoldP(cp, m) BY <1>20 DEF HoldP
  <2>2. ~HoldQ(c0, m, Bot(rest)) BY <1>1, <1>16 DEF HoldQ
  <2>3. QED BY <2>1, <2>2 DEF GiveLock, c0, cp
<1>24. Onward(kp, k0, p, m, rest)
  <2>1. Bot(kp.u[p].pc) = "iputrip" BY <1>5, <1>14 DEF cp
  <2>2. kp.node[m].ino = "mp" BY <1>1, <1>15, <1>17
  <2>3. PathAt(kp, c0, "iputrip")
    <3>1. PathOK(kp, cp) BY <1>19 DEF Good, Mounts, cp
    <3>2. PathAt(kp, cp, Bot(cp.pc)) BY <3>1, PathParts
    <3>3. c0.fd # 0 => kp.node[c0.fd].ino = c0.fino /\ c0.fino \in InFs BY <1>16, <3>2 DEF PathAt
    <3>4. QED BY <3>3, <1>4 DEF PathAt
  <2>4. k0.fs.mdev /\ kp.fs = k0.fs BY <1>1, <1>12, <1>15 DEF SameRest
  <2> HIDE DEF rest
  <2>5. QED BY <1>4, <1>6, <2>1, <2>2, <2>3, <2>4 DEF Onward, c0
<1>25. Gave(k0, k1, p, m, rest)
  <2>1. k0.node[m].ino # "none" BY <1>1, <1>17
  <2>2. k0.node[m].count # 0
    <3>1. k.node[m].count # 0 BY <1>1 DEF Good, Core, TableInv
    <3>2. QED BY <1>1, <1>17, <3>1
  <2>3. k0.u[p].chan = Awake BY <1>16 DEF c0
  <2> HIDE DEF rest
  <2>4. QED BY <1>1, <1>6, <1>10, <2>1, <2>2, <2>3, IputEff DEF Gave
<1> HIDE DEF rest, k1
<1>26. Good(k1, X) BY <1>1, <1>6, <1>19, <1>21, <1>22, <1>23, <1>24, <1>25, GiveGood
<1>27. QED BY <1>26 DEF k1, k0, km, rest

\* unhang keeps the invariant, or waits.
LEMMA UnhangGood ==
  ASSUME NEW k, NEW X, Good(k, X), NEW p \in Proc, NEW m, NEW r, NEW l, OffAt(k, p, m, r, l),
         OffHands(k.u[p], m, r), Deserted(k, r), NoneCrosses(k)
  PROVE  Good(Unhang(k, p), X)
<1> DEFINE c == k.u[p]
           l1 == "unhang"
           ks == SleepOn(k, p, m)
           pc == <<l1>>
           k1 == Goto(ks, p, pc)
<1>1. /\ m \in Slot /\ Types(k) /\ c.mip = m /\ c.rip = r /\ LastFacts(k, p, l) /\ l \in {"fsoff", "unhang"}
  BY DEF OffAt
<1>2. CASE ~k.node[m].lock
  <2>1. Unhang(k, p) = Iput(SetUnhung(Lock(k, m), p, m), p, m, <<"iputrip">>) BY <1>1, <1>2 DEF Unhang, SetUnhung
  <2>2. QED BY <1>2, <2>1, UnhangDone
<1>3. CASE k.node[m].lock
  <2>1. Unhang(k, p) = k1 BY <1>1, <1>3 DEF Unhang
  <2>2. l1 \in LastL /\ l1 = "unhang" BY DEF LastL, WithRip
  <2>3. pc \in Seq(Label) /\ pc # <<>> BY <2>2, LastStack
  <2>4. /\ Types(ks) /\ SameRest(k, ks) /\ NodeBut(k, ks, m)
        /\ KeepN(k.node[m], ks.node[m], {"want"}) /\ ks.node[m].want
        /\ \A q \in Proc \ {p} : ks.u[q] = k.u[q]
        /\ KeepU(k.u[p], ks.u[p], {"chan"}) /\ ks.u[p].chan = On(m)
    BY <1>1, SleepOnEff
  <2> HIDE DEF ks, l1, pc
  <2>5. Types(k1) /\ Only(ks, k1, p) /\ GoneTo(ks.u[p], k1.u[p], pc) BY <2>3, <2>4, GotoEff
  <2> HIDE DEF k1
  <2>6. /\ k1.u[p].pc = <<l1>> /\ k1.u[p].chan = On(m) /\ k1.u[p].mip = m
        /\ KeepU(k.u[p], k1.u[p], {"pc", "chan", "mip"})
    <3> DEFINE cs == ks.u[p]
               c1 == k1.u[p]
    <3>1. KeepU(c, cs, {"chan"}) /\ cs.chan = On(m) /\ c1.pc = pc /\ \A f \in UserF \ {"pc"} : c1[f] = cs[f]
      BY <2>3, <2>4, <2>5 DEF GoneTo
    <3>1a. c.mip = m BY <1>1
    <3> HIDE DEF c, cs, c1
    <3>2. KeepU(c, c1, {"pc", "chan", "mip"}) BY ONLY <3>1 DEF KeepU, UserF
    <3>3. c1.chan = On(m) BY ONLY <3>1 DEF UserF
    <3>4. c1.mip = c.mip BY ONLY <3>1 DEF KeepU, UserF
    <3>5. c1.pc = <<l1>> BY <3>1 DEF pc
    <3>6. QED BY <3>1a, <3>2, <3>3, <3>4, <3>5 DEF c, c1
  <2>7. /\ k1.node = ks.node /\ SameRest(ks, k1) /\ \A q \in Proc \ {p} : k1.u[q] = ks.u[q] BY <2>5 DEF Only, SameRest
  <2>8. SameRest(k, k1) BY <2>4, <2>7 DEF SameRest
  <2>9. NodeBut(k, k1, m) BY <2>4, <2>7 DEF NodeBut
  <2>10. Waits(k, k1, p, m, l1) BY <1>3, <2>4, <2>5, <2>6, <2>7, <2>8, <2>9 DEF Waits
  <2>11. \A t \in Slot : k.node[t].ino \notin {"mp", "none"} => t = k.u[p].rip /\ k.node[t].count = 1
    BY <1>1 DEF Deserted
  <2>12. m = k.u[p].mip /\ l1 \in {"plockdir", "unhang"} /\ l \in {"plockdir", "fsoff", "unhang"}
         /\ (l = "plockdir" <=> l1 = "plockdir") /\ LastFacts(k, p, l)
    BY <1>1, <2>2
  <2>13. Good(k1, X) BY <1>1, <2>10, <2>11, <2>12, WaitGood
  <2>14. QED BY <2>1, <2>13
<1>4. QED BY <1>2, <1>3

\* unmount, when the directory was locked.
LEMMA UnhangLaterGood ==
  ASSUME NEW k, k = K, NEW X, Good(k, X), NEW p \in Proc, UnhangLater(p), NoneCrosses(k)
  PROVE  \E k1 : Become(k1) /\ Good(k1, X)
<1> DEFINE l == "unhang"
           m == k.u[p].mip
           r == k.u[p].rip
<1>0. u = k.u /\ node = k.node /\ fs = k.fs /\ K = k BY KFacts
<1>1. At(p, l) BY DEF UnhangLater
<1>2. LastFacts(k, p, l) BY <1>1, LastAt DEF LastL, WithRip
<1>3. OffAt(k, p, m, r, l) /\ OffHands(k.u[p], m, r) BY <1>2, OffFacts
<1>4. Deserted(k, r)
  <2>1. PathOK(k, k.u[p]) /\ Bot(k.u[p].pc) = "unhang" BY <1>2 DEF LastFacts
  <2>2. QED BY <2>1 DEF PathOK, Deserted
<1>5. Become(Unhang(k, p)) BY <1>0 DEF UnhangLater
<1> HIDE DEF l, m, r
<1>6. Good(Unhang(k, p), X) BY <1>3, <1>4, UnhangGood
<1>7. QED BY <1>5, <1>6

\* unmount, when everything is written: it goes on if only the root has a reference, and one.
LEMMA FsoffGood ==
  ASSUME NEW k, k = K, NEW X, Good(k, X), NEW p \in Proc, Fsoff(p), NoneCrosses(k)
  PROVE  \E k1 : Become(k1) /\ Good(k1, X)
<1> DEFINE l == "fsoff"
           m == k.u[p].mip
           r == k.u[p].rip
           others == {s \in Slot \ {r} : k.node[s].count > 0 /\ k.node[s].mpoint = k.node[r].mpoint}
           busy == k.node[r].count > 1 \/ others # {}
<1>0. u = k.u /\ node = k.node /\ fs = k.fs /\ K = k BY KFacts
<1>1. At(p, l) BY DEF Fsoff
<1>2. LastFacts(k, p, l) BY <1>1, LastAt DEF LastL, WithRip
<1>3. OffAt(k, p, m, r, l) /\ OffHands(k.u[p], m, r) BY <1>2, OffFacts
<1>4. Become(IF busy THEN Goto(Prele(k, r), p, <<>>) ELSE Unhang(k, p)) BY <1>0 DEF Fsoff
<1>5. CASE busy
  <2>1. Become(Goto(Prele(k, r), p, <<>>)) BY <1>4, <1>5
  <2> HIDE DEF busy, m, r, l
  <2>2. Good(Goto(Prele(k, r), p, <<>>), X) BY <1>3, OffBusy
  <2>3. QED BY <2>1, <2>2
<1>6. CASE ~busy
  <2>1. Become(Unhang(k, p)) BY <1>4, <1>6
  <2>2. /\ m \in Slot /\ r \in Slot /\ k.node[m].mroot = r /\ k.node[r].mpoint = m
        /\ \A s \in Slot : k.node[s].ino \in InFs => k.node[s].mpoint = m
        /\ \A s \in Slot : k.node[s].ino = "root" => s = r
        /\ Types(k) /\ k.node[r].ino = "root"
    BY <1>3 DEF OffAt
  <2>3. Core(k, X) /\ TableInv(k) BY DEF Good, Core
  <2>4. ~(k.node[r].count > 1) /\ others = {} BY <1>6
  <2>5. Deserted(k, r)
    <3> SUFFICES ASSUME NEW t \in Slot, k.node[t].ino \notin {"mp", "none"} PROVE t = r /\ k.node[t].count = 1
      BY DEF Deserted
    <3>1. k.node[t].count \in Nat /\ k.node[t].count # 0
      <4>1. k.node[t].count \in Nat BY <2>3, CountAtLeast
      <4>2. QED BY <4>1, <2>3 DEF TableInv
    <3>2. t = r
      <4>1. k.node[t].ino \in {"root"} \cup InFs
        <5>1. k.node[t].ino \in Inos BY <2>2 DEF Types, NodesOK, NodeOK
        <5>2. QED BY <5>1 DEF Inos, InFs
      <4>2. CASE k.node[t].ino = "root" BY <4>2, <2>2
      <4>3. CASE k.node[t].ino \in InFs
        <5>1. k.node[t].mpoint = k.node[r].mpoint BY <4>3, <2>2
        <5>2. t # r => t \in others BY <5>1, <3>1
        <5>3. QED BY <5>2, <2>4
      <4>4. QED BY <4>1, <4>2, <4>3
    <3>3. QED BY <3>1, <3>2, <2>4
  <2> HIDE DEF m, r, l
  <2>6. Good(Unhang(k, p), X) BY <1>3, <2>5, UnhangGood
  <2>7. QED BY <2>1, <2>6
<1>7. QED BY <1>5, <1>6

(* What the processes are asked to do, and where they read a directory. *)
UShape(k) == /\ k = [x \in DOMAIN k |-> k[x]] /\ Five \subseteq DOMAIN k
             /\ k.u = [q \in Proc |-> k.u[q]] /\ \A q \in Proc : k.u[q] = [f \in UserF |-> k.u[q][f]]

\* No process is asked to do another thing, or is somewhere else.
Alike(k, k1) == UShape(k1) /\ \A q \in Proc : k1.u[q].op = k.u[q].op /\ k1.u[q].pc = k.u[q].pc

\* Types give the shape.
LEMMA TypesShape == ASSUME NEW k, Types(k) PROVE UShape(k)
BY DEF Types, Shape, UsersOK, UserOK, UShape

\* Two such changes are one.
LEMMA AlikeTrans ==
  ASSUME NEW k, NEW k1, NEW k2, Alike(k, k1), Alike(k1, k2) PROVE Alike(k, k2)
BY DEF Alike

\* nor what is done to
LEMMA AlikeSelf == ASSUME NEW k, UShape(k) PROVE Alike(k, k)
BY DEF Alike

\* an inode,
LEMMA AlikeNode == ASSUME NEW k, UShape(k), NEW x PROVE Alike(k, [k EXCEPT !.node = x])
<1> DEFINE k1 == [k EXCEPT !.node = x]
<1>1. k1 = [y \in DOMAIN k1 |-> k1[y]] /\ DOMAIN k1 = DOMAIN k /\ k1.u = k.u BY DEF UShape, Five
<1> HIDE DEF k1
<1>2. Alike(k, k1) BY <1>1 DEF UShape, Alike
<1>3. QED BY <1>2 DEF k1

\* the super block,
LEMMA AlikeFs == ASSUME NEW k, UShape(k), NEW x PROVE Alike(k, [k EXCEPT !.fs = x])
<1> DEFINE k1 == [k EXCEPT !.fs = x]
<1>1. k1 = [y \in DOMAIN k1 |-> k1[y]] /\ DOMAIN k1 = DOMAIN k /\ k1.u = k.u BY DEF UShape, Five
<1> HIDE DEF k1
<1>2. Alike(k, k1) BY <1>1 DEF UShape, Alike
<1>3. QED BY <1>2 DEF k1

\* the free list,
LEMMA AlikeFreel == ASSUME NEW k, UShape(k), NEW x PROVE Alike(k, [k EXCEPT !.freel = x])
<1> DEFINE k1 == [k EXCEPT !.freel = x]
<1>1. k1 = [y \in DOMAIN k1 |-> k1[y]] /\ DOMAIN k1 = DOMAIN k /\ k1.u = k.u BY DEF UShape, Five
<1> HIDE DEF k1
<1>2. Alike(k, k1) BY <1>1 DEF UShape, Alike
<1>3. QED BY <1>2 DEF k1

\* or by panic.
LEMMA AlikePanic == ASSUME NEW k, UShape(k), NEW x PROVE Alike(k, Panic(k, x))
<1> DEFINE k1 == [k EXCEPT !.panic = x]
<1>1. k1 = [y \in DOMAIN k1 |-> k1[y]] /\ DOMAIN k1 = DOMAIN k /\ k1.u = k.u BY DEF UShape, Five
<1> HIDE DEF k1
<1>2. Alike(k, k1) BY <1>1 DEF UShape, Alike
<1>3. QED BY <1>2 DEF k1, Panic

\* One process gets a new record.
LEMMA SetOne ==
  ASSUME NEW k, UShape(k), NEW p \in Proc, NEW c, c = [f \in UserF |-> c[f]]
  PROVE  LET k1 == [k EXCEPT !.u[p] = c] IN
         UShape(k1) /\ k1.u[p] = c /\ \A q \in Proc \ {p} : k1.u[q] = k.u[q]
<1> DEFINE w == [k.u EXCEPT ![p] = c]
           k1 == [k EXCEPT !.u = w]
<1>1. w = [q \in Proc |-> w[q]] /\ w[p] = c /\ \A q \in Proc \ {p} : w[q] = k.u[q] BY DEF UShape
<1> HIDE DEF w
<1>2. k1 = [y \in DOMAIN k1 |-> k1[y]] /\ DOMAIN k1 = DOMAIN k /\ k1.u = w BY DEF UShape, Five
<1> HIDE DEF k1
<1>3. \A q \in Proc : w[q] = [f \in UserF |-> w[q][f]] BY <1>1 DEF UShape
<1>4. UShape(k1) BY <1>1, <1>2, <1>3 DEF UShape
<1>5. QED BY <1>1, <1>2, <1>4 DEF k1, w

\* What a process has in hand is no matter,
LEMMA AlikeUser ==
  ASSUME NEW k, UShape(k), NEW p \in Proc, NEW c, c = [f \in UserF |-> c[f]], c.op = k.u[p].op, c.pc = k.u[p].pc
  PROVE  Alike(k, [k EXCEPT !.u[p] = c])
<1> DEFINE k1 == [k EXCEPT !.u[p] = c]
<1>1. UShape(k1) /\ k1.u[p] = c /\ \A q \in Proc \ {p} : k1.u[q] = k.u[q] BY SetOne
<1> HIDE DEF k1
<1>2. Alike(k, k1) BY <1>1 DEF Alike
<1>3. QED BY <1>2 DEF k1

\* whatever it is;
LEMMA AlikeFields ==
  ASSUME NEW k, UShape(k), NEW p \in Proc, NEW x
  PROVE  /\ Alike(k, [k EXCEPT !.u[p].ip = x]) /\ Alike(k, [k EXCEPT !.u[p].dip = x])
         /\ Alike(k, [k EXCEPT !.u[p].put = x]) /\ Alike(k, [k EXCEPT !.u[p].up = x])
         /\ Alike(k, [k EXCEPT !.u[p].rip = x]) /\ Alike(k, [k EXCEPT !.u[p].mip = x])
         /\ Alike(k, [k EXCEPT !.u[p].fd = x]) /\ Alike(k, [k EXCEPT !.u[p].fino = x])
         /\ Alike(k, [k EXCEPT !.u[p].fw = x]) /\ Alike(k, [k EXCEPT !.u[p].key = x])
         /\ Alike(k, [k EXCEPT !.u[p].chan = x]) /\ Alike(k, [k EXCEPT !.u[p].name = x])
<1>0. k.u[p] = [f \in UserF |-> k.u[p][f]] BY DEF UShape
<1>1. Alike(k, [k EXCEPT !.u[p].ip = x])
  <2> DEFINE c == [k.u[p] EXCEPT !.ip = x]
  <2>1. c = [f \in UserF |-> c[f]] /\ c.op = k.u[p].op /\ c.pc = k.u[p].pc BY <1>0 DEF UserF
  <2>2. QED BY <2>1, AlikeUser
<1>2. Alike(k, [k EXCEPT !.u[p].dip = x])
  <2> DEFINE c == [k.u[p] EXCEPT !.dip = x]
  <2>1. c = [f \in UserF |-> c[f]] /\ c.op = k.u[p].op /\ c.pc = k.u[p].pc BY <1>0 DEF UserF
  <2>2. QED BY <2>1, AlikeUser
<1>3. Alike(k, [k EXCEPT !.u[p].put = x])
  <2> DEFINE c == [k.u[p] EXCEPT !.put = x]
  <2>1. c = [f \in UserF |-> c[f]] /\ c.op = k.u[p].op /\ c.pc = k.u[p].pc BY <1>0 DEF UserF
  <2>2. QED BY <2>1, AlikeUser
<1>4. Alike(k, [k EXCEPT !.u[p].up = x])
  <2> DEFINE c == [k.u[p] EXCEPT !.up = x]
  <2>1. c = [f \in UserF |-> c[f]] /\ c.op = k.u[p].op /\ c.pc = k.u[p].pc BY <1>0 DEF UserF
  <2>2. QED BY <2>1, AlikeUser
<1>5. Alike(k, [k EXCEPT !.u[p].rip = x])
  <2> DEFINE c == [k.u[p] EXCEPT !.rip = x]
  <2>1. c = [f \in UserF |-> c[f]] /\ c.op = k.u[p].op /\ c.pc = k.u[p].pc BY <1>0 DEF UserF
  <2>2. QED BY <2>1, AlikeUser
<1>6. Alike(k, [k EXCEPT !.u[p].mip = x])
  <2> DEFINE c == [k.u[p] EXCEPT !.mip = x]
  <2>1. c = [f \in UserF |-> c[f]] /\ c.op = k.u[p].op /\ c.pc = k.u[p].pc BY <1>0 DEF UserF
  <2>2. QED BY <2>1, AlikeUser
<1>7. Alike(k, [k EXCEPT !.u[p].fd = x])
  <2> DEFINE c == [k.u[p] EXCEPT !.fd = x]
  <2>1. c = [f \in UserF |-> c[f]] /\ c.op = k.u[p].op /\ c.pc = k.u[p].pc BY <1>0 DEF UserF
  <2>2. QED BY <2>1, AlikeUser
<1>8. Alike(k, [k EXCEPT !.u[p].fino = x])
  <2> DEFINE c == [k.u[p] EXCEPT !.fino = x]
  <2>1. c = [f \in UserF |-> c[f]] /\ c.op = k.u[p].op /\ c.pc = k.u[p].pc BY <1>0 DEF UserF
  <2>2. QED BY <2>1, AlikeUser
<1>9. Alike(k, [k EXCEPT !.u[p].fw = x])
  <2> DEFINE c == [k.u[p] EXCEPT !.fw = x]
  <2>1. c = [f \in UserF |-> c[f]] /\ c.op = k.u[p].op /\ c.pc = k.u[p].pc BY <1>0 DEF UserF
  <2>2. QED BY <2>1, AlikeUser
<1>10. Alike(k, [k EXCEPT !.u[p].key = x])
  <2> DEFINE c == [k.u[p] EXCEPT !.key = x]
  <2>1. c = [f \in UserF |-> c[f]] /\ c.op = k.u[p].op /\ c.pc = k.u[p].pc BY <1>0 DEF UserF
  <2>2. QED BY <2>1, AlikeUser
<1>11. Alike(k, [k EXCEPT !.u[p].chan = x])
  <2> DEFINE c == [k.u[p] EXCEPT !.chan = x]
  <2>1. c = [f \in UserF |-> c[f]] /\ c.op = k.u[p].op /\ c.pc = k.u[p].pc BY <1>0 DEF UserF
  <2>2. QED BY <2>1, AlikeUser
<1>12. Alike(k, [k EXCEPT !.u[p].name = x])
  <2> DEFINE c == [k.u[p] EXCEPT !.name = x]
  <2>1. c = [f \in UserF |-> c[f]] /\ c.op = k.u[p].op /\ c.pc = k.u[p].pc BY <1>0 DEF UserF
  <2>2. QED BY <2>1, AlikeUser
<1>13. QED BY <1>1, <1>2, <1>3, <1>4, <1>5, <1>6, <1>7, <1>8, <1>9, <1>10, <1>11, <1>12

\* nor is who sleeps, what is locked, or what is in core.
LEMMA AlikeWakeup == ASSUME NEW k, UShape(k), NEW c PROVE Alike(k, Wakeup(k, c))
<1> DEFINE w == [q \in DOMAIN k.u |-> IF k.u[q].chan = c THEN [k.u[q] EXCEPT !.chan = Awake] ELSE k.u[q]]
           k1 == [k EXCEPT !.u = w]
<1>1. Wakeup(k, c) = k1 BY DEF Wakeup
<1>2. w = [q \in Proc |-> w[q]] BY DEF UShape
<1>3. ASSUME NEW q \in Proc
      PROVE  w[q] = [f \in UserF |-> w[q][f]] /\ w[q].op = k.u[q].op /\ w[q].pc = k.u[q].pc
  <2> DEFINE a == Awake
             d == k.u[q]
  <2>1. w[q] = IF d.chan = c THEN [d EXCEPT !.chan = a] ELSE d BY DEF UShape
  <2>2. d = [f \in UserF |-> d[f]] BY DEF UShape
  <2> HIDE DEF a, d, w
  <2>3. w[q] = [f \in UserF |-> w[q][f]] /\ w[q].op = d.op /\ w[q].pc = d.pc BY <2>1, <2>2 DEF UserF
  <2>4. QED BY <2>3 DEF d
<1> HIDE DEF w
<1>4. k1 = [y \in DOMAIN k1 |-> k1[y]] /\ DOMAIN k1 = DOMAIN k /\ k1.u = w BY DEF UShape, Five
<1> HIDE DEF k1
<1>5. Alike(k, k1) BY <1>2, <1>3, <1>4 DEF Alike, UShape
<1>6. QED BY <1>1, <1>5

\* lock,
LEMMA AlikeLock == ASSUME NEW k, UShape(k), NEW s PROVE Alike(k, Lock(k, s))
<1> DEFINE n == [k.node EXCEPT ![s].lock = TRUE]
           k1 == [k EXCEPT !.node = n]
<1>1. Lock(k, s) = k1 BY DEF Lock
<1> HIDE DEF n
<1>2. QED BY <1>1, AlikeNode

\* sleep,
LEMMA AlikeSleepOn == ASSUME NEW k, UShape(k), NEW p \in Proc, NEW s PROVE Alike(k, SleepOn(k, p, s))
<1> DEFINE n == [k.node EXCEPT ![s].want = TRUE]
           ka == [k EXCEPT !.node = n]
           x == On(s)
           k1 == [ka EXCEPT !.u[p].chan = x]
<1>1. SleepOn(k, p, s) = k1 BY DEF SleepOn
<1> HIDE DEF n, x
<1>2. Alike(k, ka) BY AlikeNode
<1> HIDE DEF ka
<1>2a. UShape(ka) BY <1>2 DEF Alike
<1>3. Alike(ka, k1) BY ONLY <1>2a, AlikeFields, p \in Proc
<1> HIDE DEF k1
<1>4. QED BY <1>1, <1>2, <1>3, AlikeTrans

\* prele,
LEMMA AlikePrele == ASSUME NEW k, UShape(k), NEW s PROVE Alike(k, Prele(k, s))
<1> DEFINE n == [k.node EXCEPT ![s].lock = FALSE]
           ka == [k EXCEPT !.node = n]
           n1 == [ka.node EXCEPT ![s].want = FALSE]
           kb == [ka EXCEPT !.node = n1]
           x == On(s)
           k1 == Wakeup(kb, x)
<1>1. Prele(k, s) = IF k.node[s].want THEN k1 ELSE kb BY DEF Prele
<1> HIDE DEF n
<1>2. Alike(k, ka) BY AlikeNode
<1> HIDE DEF ka, n1
<1>3. Alike(ka, kb) BY <1>2, AlikeNode DEF Alike
<1> HIDE DEF kb, x
<1>4. Alike(k, kb) BY <1>2, <1>3, AlikeTrans
<1>5. Alike(kb, k1) BY <1>4, AlikeWakeup DEF Alike
<1> HIDE DEF k1
<1>6. Alike(k, k1) BY <1>4, <1>5, AlikeTrans
<1>7. QED BY <1>1, <1>4, <1>6

\* ifree,
LEMMA AlikeIfree == ASSUME NEW k, UShape(k), NEW i PROVE Alike(k, Ifree(k, i))
<1> DEFINE f == [k.fs EXCEPT !.sinode = Append(k.fs.sinode, i)]
           k1 == [k EXCEPT !.fs = f]
<1>1. Ifree(k, i) = k \/ Ifree(k, i) = k1 BY DEF Ifree
<1> HIDE DEF f
<1>2. Alike(k, k) /\ Alike(k, k1) BY AlikeFs, AlikeSelf
<1> HIDE DEF k1
<1>3. QED BY <1>1, <1>2

\* the end of idec,
LEMMA AlikeUnhash == ASSUME NEW k, UShape(k), NEW s PROVE Alike(k, Unhash(k, s))
<1> DEFINE kp == Prele(k, s)
           x == "idec"
           kx == Panic(k, x)
           r == [kp.node[s] EXCEPT !.ino = "none", !.text = FALSE, !.chg = FALSE, !.count = k.node[s].count - 1]
           n == [kp.node EXCEPT ![s] = r]
           ka == [kp EXCEPT !.node = n]
           fl == <<s>> \o ka.freel
           k1 == [ka EXCEPT !.freel = fl]
<1>0. Unhash(k, s) = kx \/ Unhash(k, s) = [kp EXCEPT !.node[s] = r, !.freel = <<s>> \o @] BY DEF Unhash
<1>1. Unhash(k, s) = kx \/ Unhash(k, s) = k1
  <2> HIDE DEF r, kp
  <2>1. QED BY <1>0
<1> HIDE DEF x
<1>2. Alike(k, kx) BY AlikePanic
<1>3. Alike(k, kp) BY AlikePrele
<1> HIDE DEF kx, kp, n
<1>4. Alike(kp, ka) BY <1>3, AlikeNode DEF Alike
<1> HIDE DEF ka, fl
<1>5. Alike(ka, k1) BY <1>4, AlikeFreel DEF Alike
<1> HIDE DEF k1
<1>6. Alike(k, k1)
  <2>1. Alike(k, ka) BY <1>3, <1>4, AlikeTrans
  <2>2. QED BY <2>1, <1>5, AlikeTrans
<1>7. QED BY <1>1, <1>2, <1>6

\* fsiupdat
LEMMA AlikeWritten == ASSUME NEW k, UShape(k), NEW s, NEW j \in Written(k, s) PROVE Alike(k, j)
<1> DEFINE n == [k.node EXCEPT ![s].chg = FALSE]
           ka == [k EXCEPT !.node = n]
           f == [ka.fs EXCEPT !.disk[k.node[s].ino] = [mode |-> k.node[s].mode, nlink |-> k.node[s].nlink]]
           kb == [ka EXCEPT !.fs = f]
<1>1. WriteInode(k, s) = ka \/ WriteInode(k, s) = kb BY DEF WriteInode
<1> HIDE DEF n
<1>2. Alike(k, ka) BY AlikeNode
<1> HIDE DEF ka, f
<1>3. Alike(ka, kb) BY <1>2, AlikeFs DEF Alike
<1> HIDE DEF kb
<1>4. Alike(k, kb) BY <1>2, <1>3, AlikeTrans
<1>5. Alike(k, WriteInode(k, s)) BY <1>1, <1>2, <1>4
<1>6. j = WriteInode(k, s) \/ j = k BY DEF Written
<1>7. QED BY <1>5, <1>6, AlikeSelf

\* and what iget does to a free slot are no matter.
LEMMA AlikeNew == ASSUME NEW k, UShape(k), NEW p \in Proc, NEW key PROVE Alike(k, NewInode(k, p, key))
<1> DEFINE s == Head(k.freel)
           fl == Tail(k.freel)
           ka == [k EXCEPT !.freel = fl]
           r == [k.node[s] EXCEPT !.ino = key, !.count = 1, !.lock = TRUE, !.want = FALSE,
                                  !.text = FALSE, !.chg = FALSE, !.mroot = 0,
                                  !.mpoint = IF key \in File \cup {"sub"} THEN k.node[k.u[p].dip].mpoint ELSE 0]
           n == [ka.node EXCEPT ![s] = r]
           kb == [ka EXCEPT !.node = n]
           k1 == [kb EXCEPT !.u[p].ip = s]
<1>0. ka.node = k.node
  <2> HIDE DEF fl
  <2>1. QED BY DEF UShape, Five
<1>1. NewInode(k, p, key) = [k EXCEPT !.freel = Tail(@), !.node[s] = r, !.u[p].ip = s] BY DEF NewInode
<1> HIDE DEF r, s
<1>2. NewInode(k, p, key) = k1 BY <1>0, <1>1
<1> HIDE DEF fl
<1>3. Alike(k, ka) BY AlikeFreel
<1> HIDE DEF ka, n
<1>4. Alike(ka, kb) BY <1>3, AlikeNode DEF Alike
<1> HIDE DEF kb
<1>4a. UShape(kb) BY <1>4 DEF Alike
<1>5. Alike(kb, k1) BY ONLY <1>4a, AlikeFields, p \in Proc
<1> HIDE DEF k1
<1>6. Alike(k, k1)
  <2>1. Alike(k, kb) BY <1>3, <1>4, AlikeTrans
  <2>2. QED BY <2>1, <1>5, AlikeTrans
<1>7. QED BY <1>2, <1>6

\* p has moved: what it is to run is rest, or what rest waits for.
Over(rest) == {rest} \cup {<<l>> \o rest : l \in {"fstrunc", "fsiupdat", "iget", "fsiread"}}
\* k1 is k but for what does not matter, and p gone on to rest.
Went(k, k1, p, rest) ==
  /\ UShape(k1) /\ \A q \in Proc \ {p} : k1.u[q].op = k.u[q].op /\ k1.u[q].pc = k.u[q].pc
  /\ \/ k1.u[p].op = k.u[p].op /\ k1.u[p].pc = k.u[p].pc
     \/ k1.u[p].pc \in Over(rest) /\ k1.u[p].op = IF k1.u[p].pc = <<>> THEN "" ELSE k.u[p].op

\* A change that does not matter, then going on,
LEMMA WentAfter ==
  ASSUME NEW k, NEW k1, NEW k2, NEW p \in Proc, NEW rest, Alike(k, k1), Went(k1, k2, p, rest) PROVE Went(k, k2, p, rest)
<1>1. k1.u[p].op = k.u[p].op /\ k1.u[p].pc = k.u[p].pc BY DEF Alike
<1>2. \A q \in Proc \ {p} : k1.u[q].op = k.u[q].op /\ k1.u[q].pc = k.u[q].pc BY DEF Alike
<1>3. QED BY <1>1, <1>2 DEF Went

\* and the other way round.
LEMMA WentBefore ==
  ASSUME NEW k, NEW k1, NEW k2, NEW p \in Proc, NEW rest, Went(k, k1, p, rest), Alike(k1, k2) PROVE Went(k, k2, p, rest)
<1>1. k2.u[p].op = k1.u[p].op /\ k2.u[p].pc = k1.u[p].pc BY DEF Alike
<1>2. \A q \in Proc \ {p} : k2.u[q].op = k1.u[q].op /\ k2.u[q].pc = k1.u[q].pc BY DEF Alike
<1>3. QED BY <1>1, <1>2 DEF Went, Alike

\* Staying is going on.
LEMMA WentAlike ==
  ASSUME NEW k, NEW k1, NEW p \in Proc, NEW rest, Alike(k, k1) PROVE Went(k, k1, p, rest)
BY DEF Alike, Went

\* Goto goes on.
LEMMA GotoWent ==
  ASSUME NEW k, UShape(k), NEW p \in Proc, NEW rest, NEW pc \in Over(rest) PROVE Went(k, Goto(k, p, pc), p, rest)
<1>0. k.u[p] = [f \in UserF |-> k.u[p][f]] BY DEF UShape
<1>1. CASE pc = <<>>
  <2> DEFINE c == [Idle EXCEPT !.fd = k.u[p].fd, !.fino = k.u[p].fino, !.fw = k.u[p].fw]
             k1 == [k EXCEPT !.u[p] = c]
  <2>1. Goto(k, p, pc) = k1 BY <1>1 DEF Goto
  <2>2. c = [f \in UserF |-> c[f]] /\ c.op = "" /\ c.pc = <<>> BY DEF Idle, UserF
  <2> HIDE DEF c
  <2>2a. c = [f \in UserF |-> c[f]] BY <2>2
  <2>3. UShape(k1) /\ k1.u[p] = c /\ \A q \in Proc \ {p} : k1.u[q] = k.u[q]
    BY ONLY <2>2a, SetOne, UShape(k), p \in Proc
  <2> HIDE DEF k1
  <2>4. k1.u[p].op = "" /\ k1.u[p].pc = <<>> BY <2>2, <2>3
  <2>5. Went(k, k1, p, rest) BY <1>1, <2>3, <2>4 DEF Went
  <2>6. QED BY <2>1, <2>5
<1>2. CASE pc # <<>>
  <2> DEFINE c == [k.u[p] EXCEPT !.pc = pc]
             k1 == [k EXCEPT !.u[p] = c]
  <2>1. Goto(k, p, pc) = k1 BY <1>2 DEF Goto
  <2>2. c = [f \in UserF |-> c[f]] /\ c.op = k.u[p].op /\ c.pc = pc BY <1>0 DEF UserF
  <2> HIDE DEF c
  <2>3. UShape(k1) /\ k1.u[p] = c /\ \A q \in Proc \ {p} : k1.u[q] = k.u[q] BY <2>2, SetOne
  <2> HIDE DEF k1
  <2>4. k1.u[p].op = k.u[p].op /\ k1.u[p].pc = pc BY <2>2, <2>3
  <2>5. Went(k, k1, p, rest) BY <1>2, <2>3, <2>4 DEF Went
  <2>6. QED BY <2>1, <2>5
<1>3. QED BY <1>1, <1>2

\* The places to go on to.
LEMMA OverIn ==
  ASSUME NEW rest, NEW l \in {"fstrunc", "fsiupdat", "iget", "fsiread"}
  PROVE  rest \in Over(rest) /\ <<l>> \o rest \in Over(rest)
BY DEF Over

\* To go on after a step that leaves everyone where he is.
LEMMA GotoOn ==
  ASSUME NEW k, NEW k1, Alike(k, k1), NEW p \in Proc, NEW rest, NEW pc \in Over(rest)
  PROVE  Went(k, Goto(k1, p, pc), p, rest)
<1>1. UShape(k1) BY DEF Alike
<1>2. Went(k1, Goto(k1, p, pc), p, rest) BY <1>1, GotoWent
<1>3. QED BY <1>2, WentAfter

\* So do idec, iput and iget: with rest, or with one routine more.
LEMMA Idec1Went ==
  ASSUME NEW k, UShape(k), NEW p \in Proc, NEW s, NEW rest
  PROVE  Went(k, Idec1(k, p, s, rest), p, rest)
<1> DEFINE k1 == Lock(k, s)
           busy == [k1 EXCEPT !.u[p].put = s]
           i == k.node[s].ino
           kf == Ifree(busy, i)
           n == [kf.node EXCEPT ![s].chg = TRUE]
           kg == [kf EXCEPT !.node = n]
           kh == Unhash(k1, s)
           pt == <<"fstrunc">> \o rest
           pu == <<"fsiupdat">> \o rest
<1>1. \/ Idec1(k, p, s, rest) = Goto(busy, p, pt)
      \/ Idec1(k, p, s, rest) = Goto(kg, p, pu)
      \/ Idec1(k, p, s, rest) = Goto(busy, p, pu)
      \/ Idec1(k, p, s, rest) = Goto(kh, p, rest)
  BY DEF Idec1
<1>2. pt \in Over(rest) /\ pu \in Over(rest) /\ rest \in Over(rest) BY OverIn
<1> HIDE DEF pt, pu, n, i
<1>3. Alike(k, k1) BY AlikeLock
<1> HIDE DEF k1
<1>4. UShape(k1) BY <1>3 DEF Alike
<1>5. Alike(k1, busy) BY ONLY <1>4, AlikeFields, p \in Proc
<1>6. Alike(k1, kh) BY <1>4, AlikeUnhash
<1> HIDE DEF busy, kh
<1>7. Alike(k, busy) BY <1>3, <1>5, AlikeTrans
<1>8. Alike(k, kh) BY <1>3, <1>6, AlikeTrans
<1>9. UShape(busy) BY <1>7 DEF Alike
<1>10. Alike(busy, kf) BY <1>9, AlikeIfree
<1> HIDE DEF kf
<1>11. UShape(kf) BY <1>10 DEF Alike
<1>12. Alike(kf, kg) BY <1>11, AlikeNode
<1> HIDE DEF kg
<1>13. Alike(busy, kg) BY <1>10, <1>12, AlikeTrans
<1>14. Alike(k, kg) BY <1>7, <1>13, AlikeTrans
<1>15. Went(k, Goto(busy, p, pt), p, rest) BY <1>2, <1>7, GotoOn
<1>16. Went(k, Goto(kg, p, pu), p, rest) BY <1>2, <1>14, GotoOn
<1>17. Went(k, Goto(busy, p, pu), p, rest) BY <1>2, <1>7, GotoOn
<1>18. Went(k, Goto(kh, p, rest), p, rest) BY <1>2, <1>8, GotoOn
<1>19. QED BY ONLY <1>1, <1>15, <1>16, <1>17, <1>18

\* iput,
LEMMA IputWent ==
  ASSUME NEW k, UShape(k), NEW p \in Proc, NEW s, NEW rest
  PROVE  Went(k, Iput(k, p, s, rest), p, rest)
<1> DEFINE n == [k.node EXCEPT ![s].count = @ - 1]
           ka == [k EXCEPT !.node = n]
           kb == Prele(ka, s)
           x == "i_count==0"
           kx == Panic(k, x)
<1>1. \/ Iput(k, p, s, rest) = kx
      \/ Iput(k, p, s, rest) = Idec1(k, p, s, rest)
      \/ Iput(k, p, s, rest) = Goto(kb, p, rest)
  BY DEF Iput
<1> HIDE DEF n, x
<1>2. Alike(k, kx) BY AlikePanic
<1>3. Alike(k, ka) BY AlikeNode
<1> HIDE DEF kx, ka
<1>4. UShape(ka) BY <1>3 DEF Alike
<1>5. Alike(ka, kb) BY <1>4, AlikePrele
<1> HIDE DEF kb
<1>6. Alike(k, kb) BY <1>3, <1>5, AlikeTrans
<1>7. Went(k, kx, p, rest) BY <1>2, WentAlike
<1>8. rest \in Over(rest) BY OverIn
<1>9. Went(k, Goto(kb, p, rest), p, rest) BY <1>6, <1>8, GotoOn
<1>10. Went(k, Idec1(k, p, s, rest), p, rest) BY Idec1Went
<1>11. QED BY ONLY <1>1, <1>7, <1>9, <1>10

\* idec,
LEMMA IdecWent ==
  ASSUME NEW k, UShape(k), NEW p \in Proc, NEW s, NEW rest
  PROVE  Went(k, Idec(k, p, s, rest), p, rest)
<1> DEFINE n == [k.node EXCEPT ![s].count = @ - 1]
           ka == [k EXCEPT !.node = n]
           x == "i_count==0"
           kx == Panic(k, x)
<1>1. \/ Idec(k, p, s, rest) = kx
      \/ Idec(k, p, s, rest) = Idec1(k, p, s, rest)
      \/ Idec(k, p, s, rest) = Goto(ka, p, rest)
  BY DEF Idec
<1> HIDE DEF n, x
<1>2. Alike(k, kx) BY AlikePanic
<1>3. Alike(k, ka) BY AlikeNode
<1> HIDE DEF kx, ka
<1>7. Went(k, kx, p, rest) BY <1>2, WentAlike
<1>8. rest \in Over(rest) BY OverIn
<1>9. Went(k, Goto(ka, p, rest), p, rest) BY <1>3, <1>8, GotoOn
<1>10. Went(k, Idec1(k, p, s, rest), p, rest) BY Idec1Went
<1>11. QED BY ONLY <1>1, <1>7, <1>9, <1>10

\* iput of ip,
LEMMA PutIpWent ==
  ASSUME NEW k, UShape(k), NEW p \in Proc, NEW rest
  PROVE  Went(k, PutIp(k, p, rest), p, rest)
<1> DEFINE z == 0
           ka == [k EXCEPT !.u[p].ip = z]
           s == k.u[p].ip
<1>1. PutIp(k, p, rest) = Iput(ka, p, s, rest) BY DEF PutIp
<1> HIDE DEF z, s
<1>2. Alike(k, ka) BY ONLY UShape(k), AlikeFields, p \in Proc
<1> HIDE DEF ka
<1>3. UShape(ka) BY <1>2 DEF Alike
<1>4. Went(ka, Iput(ka, p, s, rest), p, rest) BY <1>3, IputWent
<1>5. Went(k, Iput(ka, p, s, rest), p, rest) BY <1>2, <1>4, WentAfter
<1>6. QED BY <1>1, <1>5

\* of dip,
LEMMA PutDipWent ==
  ASSUME NEW k, UShape(k), NEW p \in Proc, NEW rest
  PROVE  Went(k, PutDip(k, p, rest), p, rest)
<1> DEFINE z == 0
           ka == [k EXCEPT !.u[p].dip = z]
           s == k.u[p].dip
<1>1. PutDip(k, p, rest) = Iput(ka, p, s, rest) BY DEF PutDip
<1> HIDE DEF z, s
<1>2. Alike(k, ka) BY ONLY UShape(k), AlikeFields, p \in Proc
<1> HIDE DEF ka
<1>3. UShape(ka) BY <1>2 DEF Alike
<1>4. Went(ka, Iput(ka, p, s, rest), p, rest) BY <1>3, IputWent
<1>5. Went(k, Iput(ka, p, s, rest), p, rest) BY <1>2, <1>4, WentAfter
<1>6. QED BY <1>1, <1>5

\* and iget.
LEMMA IgetWent ==
  ASSUME NEW k0, UShape(k0), NEW p \in Proc, NEW key, NEW rest
  PROVE  Went(k0, Iget(k0, p, key, rest), p, rest)
<1> DEFINE k == [k0 EXCEPT !.u[p].key = key]
           s0 == CHOOSE s \in {s \in Slot : k.node[s].ino = key} : TRUE
           s1 == IF ~k.node[s0].lock /\ k.node[s0].mroot # 0 THEN k.node[s0].mroot ELSE s0
           ks == SleepOn(k, p, s1)
           kl == Lock(k, s1)
           n == [kl.node EXCEPT ![s1].count = @ + 1]
           km == [kl EXCEPT !.node = n]
           kn == [km EXCEPT !.u[p].ip = s1]
           kw == NewInode(k, p, key)
           z == 0
           kz == [k EXCEPT !.u[p].ip = z]
           pi == <<"iget">> \o rest
           pf == <<"fsiread">> \o rest
<1>1. \/ Iget(k0, p, key, rest) = Goto(ks, p, pi)
      \/ Iget(k0, p, key, rest) = Goto(kn, p, rest)
      \/ Iget(k0, p, key, rest) = Goto(kw, p, pf)
      \/ Iget(k0, p, key, rest) = Goto(kz, p, rest)
  <2>1. Iget(k0, p, key, rest) =
          CASE {s \in Slot : k.node[s].ino = key} # {} ->
                 IF k.node[s1].lock THEN Goto(ks, p, pi) ELSE Goto([Lock(k, s1) EXCEPT !.node[s1].count = @ + 1, !.u[p].ip = s1], p, rest)
            [] {s \in Slot : k.node[s].ino = key} = {} /\ k.freel # <<>> -> Goto(kw, p, pf)
            [] OTHER -> Goto(kz, p, rest)
    BY DEF Iget
  <2> HIDE DEF k, s1
  <2>2. [Lock(k, s1) EXCEPT !.node[s1].count = @ + 1, !.u[p].ip = s1] = kn OBVIOUS
  <2> HIDE DEF ks, kn, kw, kz, pi, pf
  <2>3. QED BY <2>1, <2>2
<1>2. pi \in Over(rest) /\ pf \in Over(rest) /\ rest \in Over(rest) BY OverIn
<1> HIDE DEF pi, pf, n, z, s0, s1
<1>3. Alike(k0, k) BY ONLY UShape(k0), AlikeFields, p \in Proc
<1> HIDE DEF k
<1>4. UShape(k) BY <1>3 DEF Alike
<1>5. Alike(k, ks) /\ Alike(k, kl) /\ Alike(k, kw) BY <1>4, AlikeSleepOn, AlikeLock, AlikeNew
<1>6. Alike(k, kz) BY ONLY <1>4, AlikeFields, p \in Proc
<1> HIDE DEF ks, kl, kw, kz
<1>7. UShape(kl) BY <1>5 DEF Alike
<1>8. Alike(kl, km) BY <1>7, AlikeNode
<1> HIDE DEF km
<1>9. UShape(km) BY <1>8 DEF Alike
<1>10. Alike(km, kn) BY ONLY <1>9, AlikeFields, p \in Proc
<1> HIDE DEF kn
<1>11. Alike(kl, kn) BY <1>8, <1>10, AlikeTrans
<1>12. Alike(k, kn) BY <1>5, <1>11, AlikeTrans
<1>13. Alike(k0, ks) BY <1>3, <1>5, AlikeTrans
<1>14. Alike(k0, kn) BY <1>3, <1>12, AlikeTrans
<1>15. Alike(k0, kw) BY <1>3, <1>5, AlikeTrans
<1>16. Alike(k0, kz) BY <1>3, <1>6, AlikeTrans
<1>17. Went(k0, Goto(ks, p, pi), p, rest) BY <1>2, <1>13, GotoOn
<1>18. Went(k0, Goto(kn, p, rest), p, rest) BY <1>2, <1>14, GotoOn
<1>19. Went(k0, Goto(kw, p, pf), p, rest) BY <1>2, <1>15, GotoOn
<1>20. Went(k0, Goto(kz, p, rest), p, rest) BY <1>2, <1>16, GotoOn
<1>21. QED BY ONLY <1>1, <1>17, <1>18, <1>19, <1>20

\* A process unmounts, or takes ".." of a root, only in a scenario that has it do that; it
\* reads a directory for a call with a path name.
OpOK(op, pc, does) == /\ op \in {"dotdot", "unmount"} => op \in does
                      /\ Bot(pc) = "dir" => op \in DirOps

\* This holds of every process.
OpsOK(k, r) == UShape(k) /\ \A q \in Proc : OpOK(k.u[q].op, k.u[q].pc, r.does[q])

\* A place p may go to: a directory is read for a path name only.
Fits(k, p, rest) == /\ rest \in Seq(Label)
                    /\ Bot(rest) = "dir" => Bot(k.u[p].pc) = "dir" \/ k.u[p].op \in DirOps

\* What is at the bottom stays there.
LEMMA OverBot ==
  ASSUME NEW rest \in Seq(Label), NEW pc \in Over(rest), Bot(pc) = "dir"
  PROVE  Bot(rest) = "dir"
<1>1. CASE pc = rest BY <1>1
<1>2. ASSUME NEW l \in {"fstrunc", "fsiupdat", "iget", "fsiread"}, pc = <<l>> \o rest PROVE Bot(rest) = "dir"
  <2>1. l \in Label /\ l # "dir" BY DEF Label, LeafL
  <2>2. pc \in Seq(Label) /\ pc[Len(pc)] = IF rest = <<>> THEN l ELSE rest[Len(rest)]
    BY <1>2, <2>1, PushSeq
  <2>3. pc # <<>> BY <1>2, <2>1
  <2>4. QED BY <2>1, <2>2, <2>3 DEF Bot
<1>3. QED BY <1>1, <1>2 DEF Over

\* If p goes on to a place that fits, OpsOK is kept.
LEMMA StepOps ==
  ASSUME NEW k, NEW k1, NEW r, NEW p \in Proc, NEW rest, OpsOK(k, r), Went(k, k1, p, rest), Fits(k, p, rest)
  PROVE  OpsOK(k1, r)
<1>1. \A q \in Proc \ {p} : OpOK(k1.u[q].op, k1.u[q].pc, r.does[q]) BY DEF OpsOK, Went
<1>2. OpOK(k.u[p].op, k.u[p].pc, r.does[p]) BY DEF OpsOK
<1>3. CASE k1.u[p].op = k.u[p].op /\ k1.u[p].pc = k.u[p].pc BY <1>1, <1>2, <1>3 DEF OpsOK, Went
<1>4. CASE k1.u[p].pc \in Over(rest) /\ k1.u[p].op = IF k1.u[p].pc = <<>> THEN "" ELSE k.u[p].op
  <2>1. k1.u[p].op \in {"", k.u[p].op} BY <1>4
  <2>2. k1.u[p].op \in {"dotdot", "unmount"} => k1.u[p].op \in r.does[p] BY <1>2, <2>1 DEF OpOK
  <2>3. Bot(k1.u[p].pc) = "dir" => k1.u[p].op \in DirOps
    <3>1. SUFFICES ASSUME Bot(k1.u[p].pc) = "dir" PROVE k1.u[p].op \in DirOps OBVIOUS
    <3>2. k1.u[p].pc # <<>> BY <3>1 DEF Bot
    <3>3. Bot(rest) = "dir" BY <3>1, <1>4, OverBot DEF Fits
    <3>4. k1.u[p].op = k.u[p].op BY <1>4, <3>2
    <3>5. QED BY <3>3, <3>4, <1>2 DEF Fits, OpOK
  <2>4. OpOK(k1.u[p].op, k1.u[p].pc, r.does[p]) BY <2>2, <2>3 DEF OpOK
  <2>5. QED BY <1>1, <2>4 DEF OpsOK, Went
<1>5. QED BY <1>3, <1>4 DEF Went

\* So it is by a change that does not matter.
LEMMA AlikeOps ==
  ASSUME NEW k, NEW k1, NEW r, OpsOK(k, r), Alike(k, k1)
  PROVE  OpsOK(k1, r)
BY DEF OpsOK, Alike

\* The processes are the same.
LEMMA AlikeSameU ==
  ASSUME NEW k, NEW k1, UShape(k), k1 = [y \in DOMAIN k1 |-> k1[y]], DOMAIN k1 = DOMAIN k, k1.u = k.u
  PROVE  Alike(k, k1)
BY DEF UShape, Alike

\* What fits: any place but the reading of a directory,
LEMMA FitsLess ==
  ASSUME NEW k, NEW p \in Proc, NEW rest \in Seq(Label), Bot(rest) # "dir"
  PROVE  Fits(k, p, rest)
BY DEF Fits

\* the place of the caller,
LEMMA FitsTail ==
  ASSUME NEW k, NEW p \in Proc, k.u[p].pc \in Seq(Label), StackOK(k.u[p].pc), k.u[p].pc # <<>>
  PROVE  Fits(k, p, Tail(k.u[p].pc))
<1>1. Tail(k.u[p].pc) \in Seq(Label) /\ (Tail(k.u[p].pc) # <<>> => Bot(Tail(k.u[p].pc)) = Bot(k.u[p].pc)) BY StackPop
<1>2. Tail(k.u[p].pc) = <<>> => Bot(Tail(k.u[p].pc)) # "dir" BY DEF Bot
<1>3. QED BY <1>1, <1>2 DEF Fits

\* with one routine more,
LEMMA FitsPush ==
  ASSUME NEW k, NEW p \in Proc, NEW rest, Fits(k, p, rest), NEW l \in Label \ {"dir"}
  PROVE  Fits(k, p, <<l>> \o rest)
<1> DEFINE pc == <<l>> \o rest
<1>1. pc \in Seq(Label) /\ pc[Len(pc)] = IF rest = <<>> THEN l ELSE rest[Len(rest)] BY PushSeq DEF Fits
<1>2. pc # <<>> BY DEF Fits
<1> HIDE DEF pc
<1>3. Bot(pc) = "dir" => Bot(rest) = "dir" BY <1>1, <1>2 DEF Bot
<1>4. Fits(k, p, pc) BY <1>1, <1>3 DEF Fits
<1>5. QED BY <1>4 DEF pc

\* or alone,
LEMMA FitsOne ==
  ASSUME NEW k, NEW p \in Proc, NEW l \in Label, l = "dir" => k.u[p].op \in DirOps
  PROVE  Fits(k, p, <<l>>)
<1>1. <<l>> \in Seq(Label) /\ Bot(<<l>>) = l BY DEF Bot
<1>2. QED BY <1>1 DEF Fits

\* and the end of the call.
LEMMA FitsNone ==
  ASSUME NEW k, NEW p \in Proc PROVE Fits(k, p, <<>>)
BY DEF Fits, Bot

\* A process is asked to do one of the things it does.
LEMMA OpOps ==
  ASSUME NEW k, NEW r, OpsOK(k, r), NEW p \in Proc, NEW x, Bot(k.u[p].pc) # "dir",
         x \in {"dotdot", "unmount"} => x \in r.does[p]
  PROVE  OpsOK([k EXCEPT !.u[p].op = x], r)
<1> DEFINE c == [k.u[p] EXCEPT !.op = x]
           k1 == [k EXCEPT !.u[p] = c]
<1>0. k.u[p] = [f \in UserF |-> k.u[p][f]] BY DEF OpsOK, UShape
<1>1. c = [f \in UserF |-> c[f]] /\ c.op = x /\ c.pc = k.u[p].pc BY <1>0 DEF UserF
<1>2. [k EXCEPT !.u[p].op = x] = k1 OBVIOUS
<1> HIDE DEF c
<1>3. UShape(k1) /\ k1.u[p] = c /\ \A q \in Proc \ {p} : k1.u[q] = k.u[q] BY <1>1, SetOne DEF OpsOK
<1> HIDE DEF k1
<1>4. OpOK(k1.u[p].op, k1.u[p].pc, r.does[p]) BY <1>1, <1>3 DEF OpOK
<1>5. \A q \in Proc : OpOK(k1.u[q].op, k1.u[q].pc, r.does[q]) BY <1>3, <1>4 DEF OpsOK
<1>6. QED BY <1>2, <1>3, <1>5 DEF OpsOK

\* Goto keeps OpsOK; so do iput, idec and iget.
LEMMA GotoOps ==
  ASSUME NEW k, NEW k1, NEW r, NEW p \in Proc, NEW pc, OpsOK(k, r), Alike(k, k1), Fits(k, p, pc)
  PROVE  OpsOK(Goto(k1, p, pc), r)
<1>1. pc \in Over(pc) BY DEF Over
<1>2. Went(k, Goto(k1, p, pc), p, pc) BY <1>1, GotoOn
<1>3. QED BY <1>2, StepOps

\* Goto, after a change that does not matter.
LEMMA AfterOps ==
  ASSUME NEW k, NEW k1, NEW k2, NEW r, NEW p \in Proc, NEW rest, OpsOK(k, r), Alike(k, k1), Fits(k, p, rest),
         Went(k1, k2, p, rest)
  PROVE  OpsOK(k2, r)
<1>1. Went(k, k2, p, rest) BY WentAfter
<1>2. QED BY <1>1, StepOps

\* What fits still fits.
LEMMA AlikeFits ==
  ASSUME NEW k, NEW k1, NEW p \in Proc, NEW rest, Alike(k, k1), Fits(k, p, rest) PROVE Fits(k1, p, rest)
BY DEF Alike, Fits

LEMMA IputOps ==
  ASSUME NEW k, NEW k1, NEW r, NEW p \in Proc, NEW s, NEW rest, OpsOK(k, r), Alike(k, k1), Fits(k, p, rest)
  PROVE  OpsOK(Iput(k1, p, s, rest), r)
<1>1. UShape(k1) BY DEF Alike
<1>2. Went(k1, Iput(k1, p, s, rest), p, rest) BY <1>1, IputWent
<1>3. QED BY <1>2, AfterOps

LEMMA IdecOps ==
  ASSUME NEW k, NEW k1, NEW r, NEW p \in Proc, NEW s, NEW rest, OpsOK(k, r), Alike(k, k1), Fits(k, p, rest)
  PROVE  OpsOK(Idec(k1, p, s, rest), r)
<1>1. UShape(k1) BY DEF Alike
<1>2. Went(k1, Idec(k1, p, s, rest), p, rest) BY <1>1, IdecWent
<1>3. QED BY <1>2, AfterOps

LEMMA IgetOps ==
  ASSUME NEW k, NEW k1, NEW r, NEW p \in Proc, NEW s, NEW rest, OpsOK(k, r), Alike(k, k1), Fits(k, p, rest)
  PROVE  OpsOK(Iget(k1, p, s, rest), r)
<1>1. UShape(k1) BY DEF Alike
<1>2. Went(k1, Iget(k1, p, s, rest), p, rest) BY <1>1, IgetWent
<1>3. QED BY <1>2, AfterOps

LEMMA PutIpOps ==
  ASSUME NEW k, NEW k1, NEW r, NEW p \in Proc, NEW rest, OpsOK(k, r), Alike(k, k1), Fits(k, p, rest)
  PROVE  OpsOK(PutIp(k1, p, rest), r)
<1>1. UShape(k1) BY DEF Alike
<1>2. Went(k1, PutIp(k1, p, rest), p, rest) BY <1>1, PutIpWent
<1>3. QED BY <1>2, AfterOps

LEMMA PutDipOps ==
  ASSUME NEW k, NEW k1, NEW r, NEW p \in Proc, NEW rest, OpsOK(k, r), Alike(k, k1), Fits(k, p, rest)
  PROVE  OpsOK(PutDip(k1, p, rest), r)
<1>1. UShape(k1) BY DEF Alike
<1>2. Went(k1, PutDip(k1, p, rest), p, rest) BY <1>1, PutDipWent
<1>3. QED BY <1>2, AfterOps

\* What Become leaves behind.
LEMMA BecomeOps ==
  ASSUME NEW k1, NEW r, r = run, Become(k1), OpsOK(k1, r)
  PROVE  OpsOK(K, run)'
<1>1. K' = [node |-> k1.node, freel |-> k1.freel, u |-> k1.u, fs |-> k1.fs, panic |-> k1.panic] /\ run' = r
  BY DEF K, Become
<1> DEFINE j == [node |-> k1.node, freel |-> k1.freel, u |-> k1.u, fs |-> k1.fs, panic |-> k1.panic]
<1>2. j.u = k1.u /\ j = [y \in DOMAIN j |-> j[y]] /\ Five \subseteq DOMAIN j BY DEF Five
<1> HIDE DEF j
<1>3. OpsOK(j, r) BY <1>2 DEF OpsOK, UShape
<1>4. QED BY <1>1, <1>3 DEF j

\* The stack of p when it runs the routine l.
LEMMA OpsAt ==
  ASSUME NEW k, k = K, NEW X, Good(k, X), NEW r, OpsOK(k, r), NEW p \in Proc, NEW l, At(p, l)
  PROVE  /\ Rest(p) = Tail(k.u[p].pc) /\ Fits(k, p, Rest(p)) /\ UShape(k) /\ Alike(k, k)
         /\ HandOK(k.u[p], k.u[p].pc) /\ Top(k.u[p].pc) = l
         /\ l \in LastL => Bot(k.u[p].pc) = l
<1>1. /\ k.u[p].pc # <<>> /\ Rest(p) = Tail(k.u[p].pc) /\ k.u[p].pc \in Seq(Label) /\ StackOK(k.u[p].pc)
      /\ HandOK(k.u[p], k.u[p].pc) /\ Top(k.u[p].pc) = l
  BY AtFacts
<1>2. Fits(k, p, Tail(k.u[p].pc)) BY <1>1, FitsTail
<1>3. UShape(k) BY DEF OpsOK
<1>4. Alike(k, k) BY <1>3, AlikeSelf
<1>5. l \in LastL => Bot(k.u[p].pc) = l BY <1>1, StackPop
<1>6. QED BY <1>1, <1>2, <1>3, <1>4, <1>5

\* These routines read no directory.
LEMMA LabelOf ==
  /\ {"fstrunc", "fsiupdat", "upput", "update", "update0", "closef", "plockdir", "unhang", "iputrip", "fsoffend", "fson",
      "fson2", "fson3", "fsoff", "funmount", "iput", "open1", "putdir", "ialloc", "ialloc2", "domkfile", "mkinode",
      "mkname", "rmname", "restock", "dormfile", "got", "more", "getxfile", "trunc", "xaccess", "xscan0"} \subseteq Label \ {"dir"}
  /\ "dir" \in Label
BY DEF Label, LastL, LeafL, MidL, WithDip, WithIp, PerhapsIp, WithRip, WithMip

\* Inodes are no matter.
LEMMA NodeSet ==
  ASSUME NEW k, NEW k1, Alike(k, k1), NEW x PROVE Alike(k, [k1 EXCEPT !.node = x])
<1>1. UShape(k1) BY DEF Alike
<1>2. Alike(k1, [k1 EXCEPT !.node = x]) BY <1>1, AlikeNode
<1>3. QED BY <1>2, AlikeTrans

\* One lemma for each action that names no new call: the process goes on with what is left of its stack.
LEMMA FstruncOps ==
  ASSUME NEW k, k = K, NEW X, Good(k, X), NEW r, OpsOK(k, r), NEW p \in Proc, Fstrunc(p)
  PROVE  \E k1 : Become(k1) /\ OpsOK(k1, r)
<1>1. /\ Rest(p) = Tail(k.u[p].pc) /\ Fits(k, p, Rest(p)) /\ UShape(k) /\ Alike(k, k)
  BY OpsAt DEF Fstrunc
<1> DEFINE s == k.u[p].put
           i == k.node[s].ino
           pc == <<"fsiupdat">> \o Rest(p)
<1>2. PICK j \in Written(k, s) :
        Become(Goto([Ifree(j, i) EXCEPT !.node[s].mode = FALSE, !.node[s].chg = TRUE], p, pc))
  BY KFacts DEF Fstrunc
<1> DEFINE ka == Ifree(j, i)
           n0 == [ka.node EXCEPT ![s].mode = FALSE]
           ka0 == [ka EXCEPT !.node = n0]
           n == [ka0.node EXCEPT ![s].chg = TRUE]
           kb == [ka0 EXCEPT !.node = n]
<1>3. Alike(k, j) BY <1>1, AlikeWritten
<1>4. Fits(k, p, pc) BY <1>1, FitsPush, LabelOf
<1>5. UShape(j) BY <1>3 DEF Alike
<1>6. Alike(j, ka) BY <1>5, AlikeIfree
<1>7. Become(Goto(kb, p, pc)) BY <1>2
<1> HIDE DEF ka, n0, n, pc
<1>8. Alike(k, ka) BY <1>3, <1>6, AlikeTrans
<1>81. Alike(k, ka0) BY <1>8, NodeSet
<1> HIDE DEF ka0
<1>9. Alike(k, kb) BY <1>81, NodeSet
<1> HIDE DEF kb
<1>10. OpsOK(Goto(kb, p, pc), r) BY <1>4, <1>9, GotoOps
<1>11. QED BY <1>7, <1>10

LEMMA FsiupdatOps ==
  ASSUME NEW k, k = K, NEW X, Good(k, X), NEW r, OpsOK(k, r), NEW p \in Proc, Fsiupdat(p)
  PROVE  \E k1 : Become(k1) /\ OpsOK(k1, r)
<1>1. /\ Rest(p) = Tail(k.u[p].pc) /\ Fits(k, p, Rest(p)) /\ UShape(k) /\ Alike(k, k)
  BY OpsAt DEF Fsiupdat
<1> DEFINE s == k.u[p].put
           pc == Rest(p)
           z == 0
<1>2. PICK j \in Written(k, s) : Become(Goto([Unhash(j, s) EXCEPT !.u[p].put = z], p, pc))
  BY KFacts DEF Fsiupdat
<1> DEFINE ka == Unhash(j, s)
           kb == [ka EXCEPT !.u[p].put = z]
<1>3. Alike(k, j) BY <1>1, AlikeWritten
<1>5. UShape(j) BY <1>3 DEF Alike
<1>6. Alike(j, ka) BY <1>5, AlikeUnhash
<1>7. Become(Goto(kb, p, pc)) BY <1>2
<1> HIDE DEF ka, pc, z
<1>8. Alike(k, ka) BY <1>3, <1>6, AlikeTrans
<1>81. UShape(ka) BY <1>6 DEF Alike
<1>82. Alike(ka, kb) BY ONLY <1>81, AlikeFields, p \in Proc
<1> HIDE DEF kb
<1>9. Alike(k, kb) BY <1>8, <1>82, AlikeTrans
<1>91. Fits(k, p, pc) BY <1>1 DEF pc
<1>10. OpsOK(Goto(kb, p, pc), r) BY <1>91, <1>9, GotoOps
<1>11. QED BY <1>7, <1>10

LEMMA IgetAgainOps ==
  ASSUME NEW k, k = K, NEW X, Good(k, X), NEW r, OpsOK(k, r), NEW p \in Proc, IgetAgain(p)
  PROVE  \E k1 : Become(k1) /\ OpsOK(k1, r)
<1>1. /\ Rest(p) = Tail(k.u[p].pc) /\ Fits(k, p, Rest(p)) /\ UShape(k) /\ Alike(k, k)
  BY OpsAt DEF IgetAgain
<1>2. Become(Iget(k, p, k.u[p].key, Rest(p))) BY KFacts DEF IgetAgain
<1>3. OpsOK(Iget(k, p, k.u[p].key, Rest(p)), r) BY <1>1, IgetOps
<1>4. QED BY <1>2, <1>3

LEMMA FsireadOps ==
  ASSUME NEW k, k = K, NEW X, Good(k, X), NEW r, OpsOK(k, r), NEW p \in Proc, Fsiread(p)
  PROVE  \E k1 : Become(k1) /\ OpsOK(k1, r)
<1>1. /\ Rest(p) = Tail(k.u[p].pc) /\ Fits(k, p, Rest(p)) /\ UShape(k) /\ Alike(k, k)
  BY OpsAt DEF Fsiread
<1> DEFINE s == k.u[p].ip
           d == IF k.node[s].ino \in File THEN k.fs.disk[k.node[s].ino] ELSE [mode |-> TRUE, nlink |-> 1]
           m == d.mode
           l == d.nlink
           n0 == [k.node EXCEPT ![s].mode = m]
           ka == [k EXCEPT !.node = n0]
           n == [ka.node EXCEPT ![s].nlink = l]
           kb == [ka EXCEPT !.node = n]
<1>2. \/ Become(Goto([k EXCEPT !.node[s].mode = m, !.node[s].nlink = l], p, Rest(p)))
      \/ Become(PutIp(k, p, Rest(p)))
  BY KFacts DEF Fsiread
<1> HIDE DEF m, l, d
<1>3. Become(Goto(kb, p, Rest(p))) \/ Become(PutIp(k, p, Rest(p))) BY <1>2
<1> HIDE DEF n0, n
<1>31. Alike(k, ka) BY <1>1, NodeSet
<1> HIDE DEF ka
<1>4. Alike(k, kb) BY <1>31, NodeSet
<1> HIDE DEF kb
<1>5. OpsOK(Goto(kb, p, Rest(p)), r) BY <1>1, <1>4, GotoOps
<1>6. OpsOK(PutIp(k, p, Rest(p)), r) BY <1>1, PutIpOps
<1>7. QED BY <1>3, <1>5, <1>6

LEMMA MoreOps ==
  ASSUME NEW k, k = K, NEW X, Good(k, X), NEW r, OpsOK(k, r), NEW p \in Proc, More(p)
  PROVE  \E k1 : Become(k1) /\ OpsOK(k1, r)
<1> DEFINE l == "more"
<1>0. At(p, l) /\ l \in LastL BY DEF More, LastL, WithDip
<1>1. UShape(k) /\ Alike(k, k) /\ HandOK(k.u[p], k.u[p].pc) /\ Bot(k.u[p].pc) = "more"
  BY <1>0, OpsAt
<1> DEFINE z == 0
           s == k.u[p].dip
           ka == [k EXCEPT !.u[p].dip = z]
           pc == <<"dir">>
<1>2. Become(Idec(ka, p, s, pc)) BY KFacts DEF More
<1>3. k.u[p].op \in {"open", "creat", "exec", "unlink"} BY <1>1 DEF HandOK
<1>4. Fits(k, p, pc) BY <1>3, FitsOne, LabelOf DEF DirOps
<1> HIDE DEF z, s, pc
<1>50. UShape(k) BY <1>1
<1>5. Alike(k, ka) BY ONLY <1>50, AlikeFields, p \in Proc
<1> HIDE DEF ka
<1>6. OpsOK(Idec(ka, p, s, pc), r) BY <1>4, <1>5, IdecOps
<1>7. QED BY <1>2, <1>6

LEMMA PutLastOps ==
  ASSUME NEW k, k = K, NEW X, Good(k, X), NEW r, OpsOK(k, r), NEW p \in Proc, PutLast(p)
  PROVE  \E k1 : Become(k1) /\ OpsOK(k1, r)
<1>1. UShape(k) /\ Alike(k, k) BY OpsAt DEF PutLast
<1>2. Become(PutIp(k, p, <<>>)) BY DEF PutLast
<1>3. Fits(k, p, <<>>) BY FitsNone
<1>4. OpsOK(PutIp(k, p, <<>>), r) BY <1>1, <1>3, PutIpOps
<1>5. QED BY <1>2, <1>4

LEMMA PlockDirOps ==
  ASSUME NEW k, NEW k1, NEW r, NEW p \in Proc, NEW s, OpsOK(k1, r), Alike(k1, k)
  PROVE  OpsOK(PlockDir(k, p, s), r)
<1> DEFINE ka == SleepOn(k, p, s)
           pa == <<"plockdir">>
           kb == Goto(ka, p, pa)
           kc == [kb EXCEPT !.u[p].mip = s]
           kd == Lock(k, s)
           n == [kd.node EXCEPT ![s].count = @ + 1]
           ke == [kd EXCEPT !.node = n]
           kf == [ke EXCEPT !.u[p].ip = s]
           z == 0
           kg == [kf EXCEPT !.u[p].mip = z]
           pb == <<"iput">>
<1>1. PlockDir(k, p, s) = kc \/ PlockDir(k, p, s) = Goto(kg, p, pb)
  <2>1. [Lock(k, s) EXCEPT !.node[s].count = @ + 1, !.u[p].ip = s, !.u[p].mip = 0] = kg OBVIOUS
  <2>2. PlockDir(k, p, s) = IF k.node[s].lock THEN kc
          ELSE Goto([Lock(k, s) EXCEPT !.node[s].count = @ + 1, !.u[p].ip = s, !.u[p].mip = 0], p, pb) BY DEF PlockDir
  <2> HIDE DEF kg, kc
  <2>3. QED BY <2>1, <2>2
<1>2. Fits(k1, p, pa) /\ Fits(k1, p, pb) BY FitsOne, LabelOf
<1> HIDE DEF n, z, pa, pb
<1>3. UShape(k) BY DEF Alike
<1>4. Alike(k, ka) /\ Alike(k, kd) BY <1>3, AlikeSleepOn, AlikeLock
<1> HIDE DEF ka, kd
<1>5. UShape(kd) BY <1>4 DEF Alike
<1>6. Alike(kd, ke) BY <1>5, AlikeNode
<1> HIDE DEF ke
<1>7. UShape(ke) BY <1>6 DEF Alike
<1>8. Alike(ke, kf) BY ONLY <1>7, AlikeFields, p \in Proc
<1> HIDE DEF kf
<1>9. UShape(kf) BY <1>8 DEF Alike
<1>10. Alike(kf, kg) BY ONLY <1>9, AlikeFields, p \in Proc
<1> HIDE DEF kg
<1>11. Alike(k1, kg) BY <1>4, <1>6, <1>8, <1>10, AlikeTrans
<1>12. Alike(k1, ka) BY <1>4, AlikeTrans
<1>13. OpsOK(kb, r) BY <1>2, <1>12, GotoOps
<1> HIDE DEF kb
<1>14. UShape(kb) BY <1>13 DEF OpsOK
<1>15. Alike(kb, kc) BY ONLY <1>14, AlikeFields, p \in Proc
<1> HIDE DEF kc
<1>16. OpsOK(kc, r) BY <1>13, <1>15, AlikeOps
<1>17. OpsOK(Goto(kg, p, pb), r) BY <1>2, <1>11, GotoOps
<1>18. QED BY ONLY <1>1, <1>16, <1>17

\* Nor are hands.
LEMMA UserSet ==
  ASSUME NEW k, NEW k1, Alike(k, k1), NEW p \in Proc, NEW x
  PROVE  /\ Alike(k, [k1 EXCEPT !.u[p].ip = x]) /\ Alike(k, [k1 EXCEPT !.u[p].dip = x])
         /\ Alike(k, [k1 EXCEPT !.u[p].put = x]) /\ Alike(k, [k1 EXCEPT !.u[p].up = x])
         /\ Alike(k, [k1 EXCEPT !.u[p].rip = x]) /\ Alike(k, [k1 EXCEPT !.u[p].mip = x])
         /\ Alike(k, [k1 EXCEPT !.u[p].fd = x]) /\ Alike(k, [k1 EXCEPT !.u[p].fino = x])
         /\ Alike(k, [k1 EXCEPT !.u[p].fw = x]) /\ Alike(k, [k1 EXCEPT !.u[p].key = x])
         /\ Alike(k, [k1 EXCEPT !.u[p].chan = x]) /\ Alike(k, [k1 EXCEPT !.u[p].name = x])
<1>1. UShape(k1) BY DEF Alike
<1> DEFINE ka == [k1 EXCEPT !.u[p].ip = x]
           kb == [k1 EXCEPT !.u[p].dip = x]
           kc == [k1 EXCEPT !.u[p].put = x]
           kd == [k1 EXCEPT !.u[p].up = x]
           ke == [k1 EXCEPT !.u[p].rip = x]
           kf == [k1 EXCEPT !.u[p].mip = x]
           kg == [k1 EXCEPT !.u[p].fd = x]
           kh == [k1 EXCEPT !.u[p].fino = x]
           ki == [k1 EXCEPT !.u[p].fw = x]
           kj == [k1 EXCEPT !.u[p].key = x]
           kl == [k1 EXCEPT !.u[p].chan = x]
           km == [k1 EXCEPT !.u[p].name = x]
<1>2. /\ Alike(k1, ka) /\ Alike(k1, kb) /\ Alike(k1, kc) /\ Alike(k1, kd) /\ Alike(k1, ke) /\ Alike(k1, kf)
      /\ Alike(k1, kg) /\ Alike(k1, kh) /\ Alike(k1, ki) /\ Alike(k1, kj) /\ Alike(k1, kl) /\ Alike(k1, km)
  BY ONLY <1>1, AlikeFields, p \in Proc
<1> HIDE DEF ka, kb, kc, kd, ke, kf, kg, kh, ki, kj, kl, km
<1>3. /\ Alike(k, ka) /\ Alike(k, kb) /\ Alike(k, kc) /\ Alike(k, kd) /\ Alike(k, ke) /\ Alike(k, kf)
      /\ Alike(k, kg) /\ Alike(k, kh) /\ Alike(k, ki) /\ Alike(k, kj) /\ Alike(k, kl) /\ Alike(k, km)
  BY <1>2, AlikeTrans
<1>4. QED BY <1>3 DEF ka, kb, kc, kd, ke, kf, kg, kh, ki, kj, kl, km

\* Nothing done.
LEMMA AsBefore ==
  ASSUME NEW k, NEW r, OpsOK(k, r) PROVE Alike(k, k) /\ UShape(k)
<1>1. UShape(k) BY DEF OpsOK
<1>2. QED BY <1>1, AlikeSelf

\* A process is asked for what its scenario has it do,
LEMMA NameiOps ==
  ASSUME NEW k, k = K, NEW X, Good(k, X), NEW r, r = run, OpsOK(k, r), NEW p \in Proc, Namei(p)
  PROVE  \E k1 : Become(k1) /\ OpsOK(k1, r)
<1>0. u = k.u /\ K = k BY KFacts
<1>10. PICK op \in {"open", "creat", "exec", "unlink", "dotdot", "mount", "unmount"}, n \in Name :
        /\ Call(p, op)
        /\ Become(Iget([K EXCEPT !.u[p].op = op, !.u[p].name = n], p, "mp", <<"dir">>))
  BY <1>0 DEF Namei
<1>1. /\ k.u[p].pc = <<>> /\ op \in r.does[p] /\ op \in DirOps
      /\ Become(Iget([k EXCEPT !.u[p].op = op, !.u[p].name = n], p, "mp", <<"dir">>))
  BY <1>0, <1>10 DEF Call, DirOps
<1> DEFINE key == "mp"
           pc == <<"dir">>
           ka == [k EXCEPT !.u[p].op = op]
           kb == [ka EXCEPT !.u[p].name = n]
<1>2. Bot(k.u[p].pc) # "dir" BY <1>1 DEF Bot
<1>3. OpsOK(ka, r) BY <1>1, <1>2, OpOps
<1>31. k.u[p] = [f \in UserF |-> k.u[p][f]] /\ k.u = [q \in Proc |-> k.u[q]] /\ Shape(k)
  BY DEF Good, Core, Types, UsersOK, UserOK
<1>32. ka.u[p].op = op BY <1>31 DEF UserF, Shape, Five
<1>4. Become(Iget(kb, p, key, pc)) BY <1>1
<1> HIDE DEF ka, key, pc
<1>50. ka.u[p].op \in DirOps BY <1>1, <1>32
<1>51. "dir" \in Label BY LabelOf
<1>5. Fits(ka, p, pc) BY <1>50, <1>51, FitsOne DEF pc
<1>6. Alike(ka, ka) BY <1>3, AsBefore
<1>7. Alike(ka, kb) BY <1>6, UserSet
<1> HIDE DEF kb
<1>8. OpsOK(Iget(kb, p, key, pc), r) BY <1>3, <1>5, <1>7, IgetOps
<1>9. QED BY <1>4, <1>8

LEMMA PlockDirAgainOps ==
  ASSUME NEW k, k = K, NEW X, Good(k, X), NEW r, OpsOK(k, r), NEW p \in Proc, PlockDirAgain(p)
  PROVE  \E k1 : Become(k1) /\ OpsOK(k1, r)
<1>1. Alike(k, k) BY AsBefore
<1>2. Become(PlockDir(k, p, k.u[p].mip)) BY KFacts DEF PlockDirAgain
<1>3. OpsOK(PlockDir(k, p, k.u[p].mip), r) BY <1>1, PlockDirOps
<1>4. QED BY <1>2, <1>3

LEMMA GotOps ==
  ASSUME NEW k, k = K, NEW X, Good(k, X), NEW r, OpsOK(k, r), NEW p \in Proc, Got(p)
  PROVE  \E k1 : Become(k1) /\ OpsOK(k1, r)
<1> DEFINE z == 0
           s == k.u[p].dip
           ka == [k EXCEPT !.u[p].dip = z]
           pc == GotTo(k.u[p])
<1>1. Alike(k, k) BY AsBefore
<1>2. Become(Idec(ka, p, s, pc)) BY KFacts DEF Got, GotTo
<1>3. Fits(k, p, <<>>) /\ Fits(k, p, <<"getxfile">>) /\ Fits(k, p, <<"open1">>) BY FitsNone, FitsOne, LabelOf
<1>4. <<"trunc", "open1">> = <<"trunc">> \o <<"open1">>
      /\ <<"xaccess", "trunc", "open1">> = <<"xaccess">> \o (<<"trunc">> \o <<"open1">>) OBVIOUS
<1>5. Fits(k, p, <<"trunc">> \o <<"open1">>) BY <1>3, FitsPush, LabelOf
<1>6. Fits(k, p, <<"xaccess">> \o (<<"trunc">> \o <<"open1">>)) BY <1>5, FitsPush, LabelOf
<1>7. pc \in {<<>>, <<"getxfile">>, <<"trunc", "open1">>, <<"xaccess", "trunc", "open1">>, <<"open1">>} BY DEF GotTo
<1> HIDE DEF z, s, pc
<1>8. Fits(k, p, pc) BY ONLY <1>3, <1>4, <1>5, <1>6, <1>7
<1>9. Alike(k, ka) BY <1>1, UserSet
<1> HIDE DEF ka
<1>10. OpsOK(Idec(ka, p, s, pc), r) BY <1>8, <1>9, IdecOps
<1>11. QED BY <1>2, <1>10

LEMMA TruncOps ==
  ASSUME NEW k, k = K, NEW X, Good(k, X), NEW r, OpsOK(k, r), NEW p \in Proc, Trunc(p)
  PROVE  \E k1 : Become(k1) /\ OpsOK(k1, r)
<1>1. /\ Rest(p) = Tail(k.u[p].pc) /\ Fits(k, p, Rest(p)) /\ UShape(k) /\ Alike(k, k)
  BY OpsAt DEF Trunc
<1> DEFINE s == k.u[p].ip
<1>2. PICK j \in Written(k, s) : Become(Goto([j EXCEPT !.node[s].chg = FALSE], p, Rest(p)))
  BY KFacts DEF Trunc
<1> DEFINE n == [j.node EXCEPT ![s].chg = FALSE]
           kb == [j EXCEPT !.node = n]
<1>3. Become(Goto(kb, p, Rest(p))) BY <1>2
<1>4. Alike(k, j) BY <1>1, AlikeWritten
<1> HIDE DEF n
<1>5. Alike(k, kb) BY <1>4, NodeSet
<1> HIDE DEF kb
<1>6. OpsOK(Goto(kb, p, Rest(p)), r) BY <1>1, <1>5, GotoOps
<1>7. QED BY <1>3, <1>6

LEMMA Open1Ops ==
  ASSUME NEW k, k = K, NEW X, Good(k, X), NEW r, OpsOK(k, r), NEW p \in Proc, Open1(p)
  PROVE  \E k1 : Become(k1) /\ OpsOK(k1, r)
<1> DEFINE s == k.u[p].ip
           z == 0
           x == k.u[p].key
           w == (k.u[p].op = "creat")
           pc == <<>>
           ka == Prele(k, s)
           kb == [ka EXCEPT !.u[p].ip = z]
           kc == [kb EXCEPT !.u[p].fd = s]
           kd == [kc EXCEPT !.u[p].fino = x]
           ke == [kd EXCEPT !.u[p].fw = w]
<1>1. Alike(k, k) /\ UShape(k) BY AsBefore
<1>2. Become(Goto(ke, p, pc)) \/ Become(Iput(kb, p, s, pc))
  <2>1. \/ Become(Goto([Prele(k, s) EXCEPT !.u[p].ip = 0, !.u[p].fd = s, !.u[p].fino = x, !.u[p].fw = w], p, pc))
        \/ Become(Iput([Prele(k, s) EXCEPT !.u[p].ip = 0], p, s, pc))
    BY KFacts DEF Open1
  <2> HIDE DEF x, w, s
  <2>2. QED BY <2>1
<1> HIDE DEF x, w, s, z
<1>3. Alike(k, ka) BY <1>1, AlikePrele
<1> HIDE DEF ka
<1>4. Alike(k, kb) BY <1>3, UserSet
<1> HIDE DEF kb
<1>5. Alike(k, kc) BY <1>4, UserSet
<1> HIDE DEF kc
<1>6. Alike(k, kd) BY <1>5, UserSet
<1> HIDE DEF kd
<1>7. Alike(k, ke) BY <1>6, UserSet
<1> HIDE DEF ke
<1>8. Fits(k, p, pc) BY FitsNone
<1> HIDE DEF pc
<1>9. OpsOK(Goto(ke, p, pc), r) BY <1>7, <1>8, GotoOps
<1>10. OpsOK(Iput(kb, p, s, pc), r) BY <1>4, <1>8, IputOps
<1>11. QED BY <1>2, <1>9, <1>10

LEMMA ClosefOps ==
  ASSUME NEW k, NEW k1, NEW r, NEW p \in Proc, OpsOK(k1, r), Alike(k1, k)
  PROVE  OpsOK(Closef(k, p), r)
<1> DEFINE s == k.u[p].fd
           ka == SleepOn(k, p, s)
           pa == <<"closef">>
           pb == <<>>
           z == 0
           x == "none"
           w == FALSE
           kb == Lock(k, s)
           kc == [kb EXCEPT !.u[p].fd = z]
           kd == [kc EXCEPT !.u[p].fino = x]
           ke == [kd EXCEPT !.u[p].fw = w]
<1>1. Closef(k, p) = Goto(ka, p, pa) \/ Closef(k, p) = Iput(ke, p, s, pb)
  BY DEF Closef
<1>2. Fits(k1, p, pa) /\ Fits(k1, p, pb) BY FitsOne, FitsNone, LabelOf
<1> HIDE DEF s, z, x, w, pa, pb
<1>3. UShape(k) BY DEF Alike
<1>4. Alike(k, ka) /\ Alike(k, kb) BY <1>3, AlikeSleepOn, AlikeLock
<1> HIDE DEF ka, kb
<1>5. Alike(k1, ka) /\ Alike(k1, kb) BY <1>4, AlikeTrans
<1>6. Alike(k1, kc) BY <1>5, UserSet
<1> HIDE DEF kc
<1>7. Alike(k1, kd) BY <1>6, UserSet
<1> HIDE DEF kd
<1>8. Alike(k1, ke) BY <1>7, UserSet
<1> HIDE DEF ke
<1>9. OpsOK(Goto(ka, p, pa), r) BY <1>2, <1>5, GotoOps
<1>10. OpsOK(Iput(ke, p, s, pb), r) BY <1>2, <1>8, IputOps
<1>11. QED BY ONLY <1>1, <1>9, <1>10

LEMMA CloseLaterOps ==
  ASSUME NEW k, k = K, NEW X, Good(k, X), NEW r, OpsOK(k, r), NEW p \in Proc, CloseLater(p)
  PROVE  \E k1 : Become(k1) /\ OpsOK(k1, r)
<1>1. Alike(k, k) BY AsBefore
<1>2. Become(Closef(k, p)) BY KFacts DEF CloseLater
<1>3. OpsOK(Closef(k, p), r) BY <1>1, ClosefOps
<1>4. QED BY <1>2, <1>3

LEMMA CloseOps ==
  ASSUME NEW k, k = K, NEW X, Good(k, X), NEW r, OpsOK(k, r), NEW p \in Proc, Close(p)
  PROVE  \E k1 : Become(k1) /\ OpsOK(k1, r)
<1> DEFINE s == k.u[p].fd
           x == "close"
<1>1. PICK ch \in BOOLEAN : /\ k.u[p].pc = <<>>
                            /\ Become(Closef([k EXCEPT !.u[p].op = x, !.node[s].chg = @ \/ ch], p))
  BY KFacts DEF Close, Call
<1> DEFINE ka == [k EXCEPT !.u[p].op = x]
           n == [ka.node EXCEPT ![s].chg = @ \/ ch]
           kb == [ka EXCEPT !.node = n]
<1>2. Become(Closef(kb, p)) BY <1>1
<1>3. Bot(k.u[p].pc) # "dir" BY <1>1 DEF Bot
<1>4. OpsOK(ka, r) BY <1>3, OpOps
<1> HIDE DEF ka, n
<1>5. Alike(ka, ka) BY <1>4, AsBefore
<1>6. Alike(ka, kb) BY <1>5, NodeSet
<1> HIDE DEF kb
<1>7. OpsOK(Closef(kb, p), r) BY <1>4, <1>6, ClosefOps
<1>8. QED BY <1>2, <1>7

\* and reads a directory only for a path name.
LEMMA EnterOps ==
  ASSUME NEW k, k = K, NEW r, OpsOK(k, r), NEW p \in Proc, NEW key, NEW rest, Fits(k, p, rest)
  PROVE  OpsOK(Enter(p, key, rest), r)
<1> DEFINE dp == k.u[p].ip
           z == 0
           ka == Prele(k, dp)
           kb == [ka EXCEPT !.u[p].ip = z]
           kc == [kb EXCEPT !.u[p].dip = dp]
<1>0. u = k.u /\ K = k BY KFacts
<1>1. Enter(p, key, rest) = Iget(kc, p, key, rest) BY <1>0 DEF Enter
<1>2. Alike(k, k) /\ UShape(k) BY AsBefore
<1> HIDE DEF z, dp
<1>3. Alike(k, ka) BY <1>2, AlikePrele
<1> HIDE DEF ka
<1>4. Alike(k, kb) BY <1>3, UserSet
<1> HIDE DEF kb
<1>5. Alike(k, kc) BY <1>4, UserSet
<1> HIDE DEF kc
<1>6. OpsOK(Iget(kc, p, key, rest), r) BY <1>5, IgetOps
<1>7. QED BY <1>1, <1>6

LEMMA CrossOps ==
  ASSUME NEW k, k = K, NEW r, OpsOK(k, r), NEW p \in Proc
  PROVE  OpsOK(Cross(p), r)
<1> DEFINE pc == <<"plockdir">>
           s == k.node[k.u[p].ip].mpoint
           ka == PutIp(k, p, pc)
<1>0. u = k.u /\ node = k.node /\ K = k BY KFacts
<1>1. Cross(p) = PlockDir(ka, p, s) BY <1>0 DEF Cross
<1>2. Alike(k, k) BY AsBefore
<1>3. Fits(k, p, pc) BY FitsOne, LabelOf
<1> HIDE DEF pc, s
<1>4. OpsOK(ka, r) BY <1>2, <1>3, PutIpOps
<1> HIDE DEF ka
<1>5. Alike(ka, ka) BY <1>4, AsBefore
<1>6. OpsOK(PlockDir(ka, p, s), r) BY <1>4, <1>5, PlockDirOps
<1>7. QED BY <1>1, <1>6

LEMMA DirOpsOK ==
  ASSUME NEW k, k = K, NEW X, Good(k, X), NEW r, OpsOK(k, r), NEW p \in Proc, Dir(p)
  PROVE  \E k1 : Become(k1) /\ OpsOK(k1, r)
<1> DEFINE dp == k.u[p].ip
           z == 0
           key == fs.dir[u[p].name]
           ka == [k EXCEPT !.u[p].ip = z]
           kb == [ka EXCEPT !.u[p].dip = dp]
           p0 == <<>>
           p1 == <<"fson">>
           p2 == <<"funmount">>
           p3 == <<"more">>
           p4 == <<"got">>
           p5 == <<"dormfile">>
           p6 == <<"ialloc">>
           x == "sub"
<1>0. u = k.u /\ node = k.node /\ fs = k.fs /\ K = k BY KFacts
<1>1. \/ Become(Goto(k, p, p0)) \/ Become(Goto(k, p, p1)) \/ Become(Goto(k, p, p2)) \/ Become(Cross(p))
      \/ Become(PutIp(k, p, p0)) \/ Become(Enter(p, x, p3)) \/ Become(Enter(p, key, p4))
      \/ Become(Iget(kb, p, key, p5)) \/ Become(Goto(kb, p, p6))
  <2> DEFINE hold == [K EXCEPT !.u[p].ip = 0, !.u[p].dip = u[p].ip]
             there == key # "none"
  <2>1. hold = kb BY <1>0
  <2>2. CASE u[p].ip = 0 BY <1>0, <2>2 DEF Dir
  <2>3. CASE u[p].ip # 0 /\ u[p].op = "mount" BY <1>0, <2>3 DEF Dir
  <2>4. CASE u[p].ip # 0 /\ u[p].op = "unmount" BY <1>0, <2>4 DEF Dir
  <2>5. CASE u[p].ip # 0 /\ u[p].op = "dotdot"
    <3> HIDE DEF key, hold, ka, kb
    <3>1. Become(IF node[u[p].ip].ino = "root" THEN Cross(p) ELSE PutIp(K, p, <<>>)) BY <2>5 DEF Dir
    <3>2. QED BY <3>1, <1>0
  <2>6. CASE u[p].ip # 0 /\ u[p].op \in {"open", "creat", "exec", "unlink"}
    <3> DEFINE op == u[p].op
               R == CASE node[u[p].ip].ino = "mp" -> Become(PutIp(K, p, <<>>))
                    [] node[u[p].ip].ino = "root" /\ u[p].name \in run.insub -> Become(Enter(p, "sub", <<"more">>))
                    [] InPlace(p) /\ there /\ op # "unlink" -> Become(Enter(p, key, <<"got">>))
                    [] InPlace(p) /\ there /\ op = "unlink" -> Become(Iget(hold, p, key, <<"dormfile">>))
                    [] InPlace(p) /\ ~there /\ op = "creat" -> Become(Goto(hold, p, <<"ialloc">>))
                    [] OTHER -> Become(PutIp(K, p, <<>>))
    <3>1. R BY <2>6 DEF Dir
    <3> HIDE DEF hold, key, there, kb
    <3>2. \/ Become(PutIp(K, p, <<>>)) \/ Become(Enter(p, "sub", <<"more">>)) \/ Become(Enter(p, key, <<"got">>))
          \/ Become(Iget(hold, p, key, <<"dormfile">>)) \/ Become(Goto(hold, p, <<"ialloc">>))
      BY <3>1
    <3>3. QED BY <3>2, <2>1, <1>0
  <2>7. CASE ~(u[p].ip = 0) /\ ~(u[p].op \in DirOps)
    <3>1. At(p, "dir") /\ "dir" \in LastL BY DEF Dir, LastL, PerhapsIp
    <3>2. Bot(k.u[p].pc) = "dir" BY <3>1, OpsAt
    <3>3. QED BY <2>7, <3>2, <1>0 DEF OpsOK, OpOK
  <2>8. QED BY ONLY <2>2, <2>3, <2>4, <2>5, <2>6, <2>7 DEF DirOps
<1>2. /\ Fits(k, p, p0) /\ Fits(k, p, p1) /\ Fits(k, p, p2) /\ Fits(k, p, p3) /\ Fits(k, p, p4) /\ Fits(k, p, p5)
      /\ Fits(k, p, p6)
  BY FitsOne, FitsNone, LabelOf
<1>3. Alike(k, k) BY AsBefore
<1> HIDE DEF dp, z, key, p0, p1, p2, p3, p4, p5, p6, x
<1>4. Alike(k, ka) BY <1>3, UserSet
<1> HIDE DEF ka
<1>5. Alike(k, kb) BY <1>4, UserSet
<1> HIDE DEF kb
<1>6. OpsOK(Goto(k, p, p0), r) /\ OpsOK(Goto(k, p, p1), r) /\ OpsOK(Goto(k, p, p2), r) BY <1>2, <1>3, GotoOps
<1>7. OpsOK(Cross(p), r) BY CrossOps
<1>8. OpsOK(PutIp(k, p, p0), r) BY <1>2, <1>3, PutIpOps
<1>9. OpsOK(Enter(p, x, p3), r) /\ OpsOK(Enter(p, key, p4), r) BY <1>2, EnterOps
<1>10. OpsOK(Iget(kb, p, key, p5), r) BY <1>2, <1>5, IgetOps
<1>11. OpsOK(Goto(kb, p, p6), r) BY <1>2, <1>5, GotoOps
<1>12. QED BY <1>1, <1>6, <1>7, <1>8, <1>9, <1>10, <1>11

\* The actions of unlink and creat,
LEMMA DormfileOps ==
  ASSUME NEW k, k = K, NEW X, Good(k, X), NEW r, OpsOK(k, r), NEW p \in Proc, Dormfile(p)
  PROVE  \E k1 : Become(k1) /\ OpsOK(k1, r)
<1> DEFINE p0 == <<>>
           p1 == <<"rmname">>
           p2 == <<"xscan0", "rmname">>
<1>0. u = k.u /\ K = k BY KFacts
<1>1. Become(PutDip(k, p, p0)) \/ Become(Goto(k, p, p1)) \/ Become(Goto(k, p, p2)) BY <1>0 DEF Dormfile
<1>2. Fits(k, p, p0) /\ Fits(k, p, p1) BY FitsOne, FitsNone, LabelOf
<1>21. p2 = <<"xscan0">> \o p1 OBVIOUS
<1>3. Fits(k, p, p2) BY <1>2, <1>21, FitsPush, LabelOf
<1>4. Alike(k, k) BY AsBefore
<1> HIDE DEF p0, p1, p2
<1>5. OpsOK(PutDip(k, p, p0), r) BY <1>2, <1>4, PutDipOps
<1>6. OpsOK(Goto(k, p, p1), r) /\ OpsOK(Goto(k, p, p2), r) BY <1>2, <1>3, <1>4, GotoOps
<1>7. QED BY <1>1, <1>5, <1>6

\* Nor is the disk.
LEMMA FsSet ==
  ASSUME NEW k, NEW k1, Alike(k, k1), NEW x PROVE Alike(k, [k1 EXCEPT !.fs = x])
<1>1. UShape(k1) BY DEF Alike
<1> DEFINE k2 == [k1 EXCEPT !.fs = x]
<1>2. Alike(k1, k2) BY <1>1, AlikeFs
<1> HIDE DEF k2
<1>3. Alike(k, k2) BY <1>2, AlikeTrans
<1>4. QED BY <1>3 DEF k2

LEMMA RmnameOps ==
  ASSUME NEW k, k = K, NEW X, Good(k, X), NEW r, OpsOK(k, r), NEW p \in Proc, Rmname(p)
  PROVE  \E k1 : Become(k1) /\ OpsOK(k1, r)
<1> DEFINE s == k.u[p].ip
           nm == k.u[p].name
           pc == <<"putdir">>
<1>0. u = k.u /\ K = k BY KFacts
<1>1. PICK left : Become(PutIp([k EXCEPT !.fs.dir[nm] = left, !.node[s].nlink = @ - 1, !.node[s].chg = TRUE], p, pc))
  BY <1>0 DEF Rmname
<1> DEFINE f == [k.fs EXCEPT !.dir[nm] = left]
           ka == [k EXCEPT !.fs = f]
           n0 == [ka.node EXCEPT ![s].nlink = @ - 1]
           kb == [ka EXCEPT !.node = n0]
           n1 == [kb.node EXCEPT ![s].chg = TRUE]
           kc == [kb EXCEPT !.node = n1]
<1>2. Become(PutIp(kc, p, pc)) BY <1>1
<1>3. Fits(k, p, pc) BY FitsOne, LabelOf
<1> HIDE DEF f, n0, n1, pc
<1>4. Alike(k, k) BY AsBefore
<1>5. Alike(k, ka) BY <1>4, FsSet
<1> HIDE DEF ka
<1>6. Alike(k, kb) BY <1>5, NodeSet
<1> HIDE DEF kb
<1>7. Alike(k, kc) BY <1>6, NodeSet
<1> HIDE DEF kc
<1>8. OpsOK(PutIp(kc, p, pc), r) BY <1>3, <1>7, PutIpOps
<1>9. QED BY <1>2, <1>8

LEMMA PutdirOps ==
  ASSUME NEW k, k = K, NEW X, Good(k, X), NEW r, OpsOK(k, r), NEW p \in Proc, Putdir(p)
  PROVE  \E k1 : Become(k1) /\ OpsOK(k1, r)
<1> DEFINE p0 == <<>>
           p1 == <<"iput">>
           p2 == <<"open1">>
<1>0. u = k.u /\ K = k BY KFacts
<1>1. Become(PutDip(k, p, p0)) \/ Become(PutDip(k, p, p1)) \/ Become(PutDip(k, p, p2)) BY <1>0 DEF Putdir
<1>2. Fits(k, p, p0) /\ Fits(k, p, p1) /\ Fits(k, p, p2) BY FitsOne, FitsNone, LabelOf
<1>4. Alike(k, k) BY AsBefore
<1> HIDE DEF p0, p1, p2
<1>5. OpsOK(PutDip(k, p, p0), r) /\ OpsOK(PutDip(k, p, p1), r) /\ OpsOK(PutDip(k, p, p2), r) BY <1>2, <1>4, PutDipOps
<1>7. QED BY <1>1, <1>5

LEMMA Ialloc2Ops ==
  ASSUME NEW k, k = K, NEW X, Good(k, X), NEW r, OpsOK(k, r), NEW p \in Proc, Ialloc2(p)
  PROVE  \E k1 : Become(k1) /\ OpsOK(k1, r)
<1> DEFINE p1 == <<"ialloc">>
           p2 == <<"domkfile">>
<1>0. u = k.u /\ K = k BY KFacts
<1>1. Become(PutIp(k, p, p1)) \/ Become(Goto(k, p, p1)) \/ Become(Goto(k, p, p2)) BY <1>0 DEF Ialloc2
<1>2. Fits(k, p, p1) /\ Fits(k, p, p2) BY FitsOne, LabelOf
<1>4. Alike(k, k) BY AsBefore
<1> HIDE DEF p1, p2
<1>5. OpsOK(PutIp(k, p, p1), r) BY <1>2, <1>4, PutIpOps
<1>6. OpsOK(Goto(k, p, p1), r) /\ OpsOK(Goto(k, p, p2), r) BY <1>2, <1>4, GotoOps
<1>7. QED BY <1>1, <1>5, <1>6

LEMMA IallocOps ==
  ASSUME NEW k, k = K, NEW X, Good(k, X), NEW r, OpsOK(k, r), NEW p \in Proc, Ialloc(p)
  PROVE  \E k1 : Become(k1) /\ OpsOK(k1, r)
<1> DEFINE i == k.fs.sinode[Len(k.fs.sinode)]
           l == SubSeq(k.fs.sinode, 1, Len(k.fs.sinode) - 1)
           f == [k.fs EXCEPT !.sinode = l]
           ka == [k EXCEPT !.fs = f]
           kb == [ka EXCEPT !.u[p].key = i]
           x == <<"ilock", 0>>
           kc == [k EXCEPT !.u[p].chan = x]
           g == [k.fs EXCEPT !.ilock = TRUE]
           kd == [k EXCEPT !.fs = g]
           p1 == <<"domkfile">>
           p2 == <<"ialloc2">>
           p3 == <<"restock">>
<1>0. u = k.u /\ fs = k.fs /\ K = k BY KFacts
<1>1. \/ Become(kb) \/ Become(Goto(kb, p, p1)) \/ Become(Iget(kb, p, i, p2)) \/ Become(kc) \/ Become(Goto(kd, p, p3))
  <2>1. [K EXCEPT !.fs.sinode = SubSeq(@, 1, Len(@) - 1), !.u[p].key = fs.sinode[Len(fs.sinode)]] = kb BY <1>0
  <2>2. [K EXCEPT !.u[p].chan = <<"ilock", 0>>] = kc /\ [K EXCEPT !.fs.ilock = TRUE] = kd BY <1>0
  <2>3. fs.sinode[Len(fs.sinode)] = i BY <1>0
  <2> DEFINE i0 == fs.sinode[Len(fs.sinode)]
             k0 == [K EXCEPT !.fs.sinode = SubSeq(@, 1, Len(@) - 1), !.u[p].key = i0]
             kw == [K EXCEPT !.u[p].chan = <<"ilock", 0>>]
             kl == [K EXCEPT !.fs.ilock = TRUE]
             R1 == CASE InCore(K, i0) -> Become(k0)
                     [] ~InCore(K, i0) /\ freel = <<>> -> Become(Goto(k0, p, <<"domkfile">>))
                     [] OTHER -> Become(Iget(k0, p, i0, <<"ialloc2">>))
             R2 == IF fs.ilock THEN Become(kw) ELSE Become(Goto(kl, p, <<"restock">>))
  <2>4. IF fs.sinode # <<>> THEN R1 ELSE R2 BY DEF Ialloc
  <2>5. k0 = kb /\ kw = kc /\ kl = kd /\ i0 = i BY <2>1, <2>2, <2>3
  <2> HIDE DEF k0, kw, kl, i0, kb, kc, kd, i
  <2>6. \/ Become(k0) \/ Become(Goto(k0, p, <<"domkfile">>)) \/ Become(Iget(k0, p, i0, <<"ialloc2">>))
        \/ Become(kw) \/ Become(Goto(kl, p, <<"restock">>)) BY <2>4
  <2>7. QED BY <2>5, <2>6
<1>2. Fits(k, p, p1) /\ Fits(k, p, p2) /\ Fits(k, p, p3) BY FitsOne, LabelOf
<1>4. Alike(k, k) BY AsBefore
<1> HIDE DEF f, g, x, p1, p2, p3, i, l
<1>5. Alike(k, ka) /\ Alike(k, kd) BY <1>4, FsSet
<1> HIDE DEF ka, kd
<1>6. Alike(k, kb) /\ Alike(k, kc) BY <1>4, <1>5, UserSet
<1> HIDE DEF kb, kc
<1>7. OpsOK(kb, r) /\ OpsOK(kc, r) BY <1>6, AlikeOps
<1>8. OpsOK(Goto(kb, p, p1), r) /\ OpsOK(Goto(kd, p, p3), r) BY <1>2, <1>5, <1>6, GotoOps
<1>9. OpsOK(Iget(kb, p, i, p2), r) BY <1>2, <1>6, IgetOps
<1>10. QED BY <1>1, <1>7, <1>8, <1>9

LEMMA RestockOps ==
  ASSUME NEW k, k = K, NEW X, Good(k, X), NEW r, OpsOK(k, r), NEW p \in Proc, Restock(p)
  PROVE  \E k1 : Become(k1) /\ OpsOK(k1, r)
<1>0. u = k.u /\ fs = k.fs /\ K = k BY KFacts
<1> DEFINE p1 == <<"domkfile">>
           p2 == <<"ialloc">>
           x == <<"ilock", 0>>
<1>1. \E list : LET j == Wakeup([k EXCEPT !.fs.sinode = @ \o list, !.fs.ilock = FALSE], x) IN
                Become(Goto(j, p, IF j.fs.sinode = <<>> THEN p1 ELSE p2))
  BY <1>0 DEF Restock
<1>2. PICK list : LET j == Wakeup([k EXCEPT !.fs.sinode = @ \o list, !.fs.ilock = FALSE], x) IN
                  Become(Goto(j, p, p1)) \/ Become(Goto(j, p, p2))
  BY <1>1
<1> DEFINE l == k.fs.sinode \o list
           f == [k.fs EXCEPT !.sinode = l]
           ka == [k EXCEPT !.fs = f]
           g == [ka.fs EXCEPT !.ilock = FALSE]
           kb == [ka EXCEPT !.fs = g]
           kc == Wakeup(kb, x)
<1>3. Become(Goto(kc, p, p1)) \/ Become(Goto(kc, p, p2)) BY <1>2
<1>4. Fits(k, p, p1) /\ Fits(k, p, p2) BY FitsOne, LabelOf
<1>5. Alike(k, k) BY AsBefore
<1> HIDE DEF f, g, x, p1, p2, l
<1>6. Alike(k, ka) BY <1>5, FsSet
<1> HIDE DEF ka
<1>7. Alike(k, kb) BY <1>6, FsSet
<1> HIDE DEF kb
<1>8. UShape(kb) BY <1>7 DEF Alike
<1>9. Alike(kb, kc) BY <1>8, AlikeWakeup
<1> HIDE DEF kc
<1>10. Alike(k, kc) BY <1>7, <1>9, AlikeTrans
<1>11. OpsOK(Goto(kc, p, p1), r) /\ OpsOK(Goto(kc, p, p2), r) BY <1>4, <1>10, GotoOps
<1>12. QED BY <1>3, <1>11

LEMMA DomkfileOps ==
  ASSUME NEW k, k = K, NEW X, Good(k, X), NEW r, OpsOK(k, r), NEW p \in Proc, Domkfile(p)
  PROVE  \E k1 : Become(k1) /\ OpsOK(k1, r)
<1> DEFINE s == k.u[p].ip
           p0 == <<>>
           p1 == <<"mkinode">>
           n0 == [k.node EXCEPT ![s].mode = TRUE]
           ka == [k EXCEPT !.node = n0]
           n1 == [ka.node EXCEPT ![s].nlink = 1]
           kb == [ka EXCEPT !.node = n1]
           n2 == [kb.node EXCEPT ![s].chg = TRUE]
           kc == [kb EXCEPT !.node = n2]
<1>0. u = k.u /\ K = k BY KFacts
<1>1. Become(PutDip(k, p, p0)) \/ Become(Goto([k EXCEPT !.node[s].mode = TRUE, !.node[s].nlink = 1, !.node[s].chg = TRUE], p, p1))
  BY <1>0 DEF Domkfile
<1>11. Become(PutDip(k, p, p0)) \/ Become(Goto(kc, p, p1)) BY <1>1
<1>2. Fits(k, p, p0) /\ Fits(k, p, p1) BY FitsOne, FitsNone, LabelOf
<1>4. Alike(k, k) BY AsBefore
<1> HIDE DEF p0, p1, n0, n1, n2
<1>5. Alike(k, ka) BY <1>4, NodeSet
<1> HIDE DEF ka
<1>6. Alike(k, kb) BY <1>5, NodeSet
<1> HIDE DEF kb
<1>7. Alike(k, kc) BY <1>6, NodeSet
<1> HIDE DEF kc
<1>8. OpsOK(PutDip(k, p, p0), r) BY <1>2, <1>4, PutDipOps
<1>9. OpsOK(Goto(kc, p, p1), r) BY <1>2, <1>7, GotoOps
<1>10. QED BY <1>11, <1>8, <1>9

LEMMA MkinodeOps ==
  ASSUME NEW k, k = K, NEW X, Good(k, X), NEW r, OpsOK(k, r), NEW p \in Proc, Mkinode(p)
  PROVE  \E k1 : Become(k1) /\ OpsOK(k1, r)
<1> DEFINE s == k.u[p].ip
           pc == <<"mkname">>
<1>0. u = k.u /\ K = k BY KFacts
<1>1. PICK j \in Written(k, s) : Become(Goto(j, p, pc)) BY <1>0 DEF Mkinode
<1>2. Fits(k, p, pc) BY FitsOne, LabelOf
<1> HIDE DEF pc
<1>3. UShape(k) BY AsBefore
<1>4. Alike(k, j) BY <1>3, AlikeWritten
<1>5. OpsOK(Goto(j, p, pc), r) BY <1>2, <1>4, GotoOps
<1>6. QED BY <1>1, <1>5

LEMMA MknameOps ==
  ASSUME NEW k, k = K, NEW X, Good(k, X), NEW r, OpsOK(k, r), NEW p \in Proc, Mkname(p)
  PROVE  \E k1 : Become(k1) /\ OpsOK(k1, r)
<1> DEFINE pc == <<"putdir">>
           nm == k.u[p].name
           i == k.node[k.u[p].ip].ino
           f == [k.fs EXCEPT !.dir[nm] = i]
           ka == [k EXCEPT !.fs = f]
           x == "failed"
           kb == [k EXCEPT !.u[p].op = x]
<1>0. u = k.u /\ node = k.node /\ K = k BY KFacts
<1>1. Become(Goto(ka, p, pc)) \/ Become(Goto(kb, p, pc)) BY <1>0 DEF Mkname
<1>2. Fits(k, p, pc) /\ Fits(kb, p, pc) BY FitsOne, LabelOf
<1>3. Alike(k, k) BY AsBefore
<1>4. At(p, "mkname") /\ "mkname" \in LastL BY DEF Mkname, LastL, WithDip
<1>5. Bot(k.u[p].pc) = "mkname" BY <1>4, OpsAt
<1>6. OpsOK(kb, r) BY <1>5, OpOps
<1> HIDE DEF pc, f, kb
<1>7. Alike(k, ka) BY <1>3, FsSet
<1> HIDE DEF ka
<1>8. Alike(kb, kb) BY <1>6, AsBefore
<1>9. OpsOK(Goto(ka, p, pc), r) BY <1>2, <1>7, GotoOps
<1>10. OpsOK(Goto(kb, p, pc), r) BY <1>2, <1>6, <1>8, GotoOps
<1>11. QED BY <1>1, <1>9, <1>10

\* of sync,
LEMMA SyncOps ==
  ASSUME NEW k, k = K, NEW X, Good(k, X), NEW r, OpsOK(k, r), NEW p \in Proc, Sync(p)
  PROVE  \E k1 : Become(k1) /\ OpsOK(k1, r)
<1> DEFINE pc == <<"update0">>
           x == "sync"
           ka == [k EXCEPT !.u[p].op = x]
           kb == [ka EXCEPT !.u[p].pc = pc]
<1>0. u = k.u /\ K = k BY KFacts
<1>1. Become(kb) /\ k.u[p].pc = <<>> BY <1>0 DEF Sync, Call
<1>2. Fits(ka, p, pc) BY FitsOne, LabelOf
<1>3. Bot(k.u[p].pc) # "dir" BY <1>1 DEF Bot
<1>4. OpsOK(ka, r) BY <1>3, OpOps
<1>5. pc # <<>> OBVIOUS
<1> HIDE DEF pc, ka
<1>6. Goto(ka, p, pc) = kb BY <1>5 DEF Goto
<1> HIDE DEF kb
<1>7. Alike(ka, ka) BY <1>4, AsBefore
<1>8. OpsOK(Goto(ka, p, pc), r) BY <1>2, <1>4, <1>7, GotoOps
<1>9. QED BY <1>1, <1>6, <1>8

LEMMA Update0Ops ==
  ASSUME NEW k, k = K, NEW X, Good(k, X), NEW r, OpsOK(k, r), NEW p \in Proc, Update0(p)
  PROVE  \E k1 : Become(k1) /\ OpsOK(k1, r)
<1>0. u = k.u /\ fs = k.fs /\ K = k BY KFacts
<1>1. Fits(k, p, Rest(p)) BY OpsAt DEF Update0
<1> DEFINE z == 0
           l == "update"
           pc == <<l>> \o Rest(p)
           f == [k.fs EXCEPT !.updlock = TRUE]
           ka == [k EXCEPT !.fs = f]
           kb == [ka EXCEPT !.u[p].up = z]
<1>2. Become(Goto(k, p, Rest(p))) \/ Become(Goto(kb, p, pc)) BY <1>0 DEF Update0
<1>3. Fits(k, p, pc) BY <1>1, FitsPush, LabelOf
<1>4. Alike(k, k) BY AsBefore
<1> HIDE DEF pc, f, z
<1>5. Alike(k, ka) BY <1>4, FsSet
<1> HIDE DEF ka
<1>6. Alike(k, kb) BY <1>5, UserSet
<1> HIDE DEF kb
<1>7. OpsOK(Goto(k, p, Rest(p)), r) BY <1>1, <1>4, GotoOps
<1>8. OpsOK(Goto(kb, p, pc), r) BY <1>3, <1>6, GotoOps
<1>9. QED BY <1>2, <1>7, <1>8

LEMMA UpdateOps ==
  ASSUME NEW k, k = K, NEW X, Good(k, X), NEW r, OpsOK(k, r), NEW p \in Proc, Update(p)
  PROVE  \E k1 : Become(k1) /\ OpsOK(k1, r)
<1>0. u = k.u /\ fs = k.fs /\ K = k BY KFacts
<1>1. Fits(k, p, Rest(p)) BY OpsAt DEF Update
<1> DEFINE l == "upput"
           pc == <<l>> \o Rest(p)
           f == [k.fs EXCEPT !.updlock = FALSE]
           ka == [k EXCEPT !.fs = f]
<1>2. PICK s : Become(Goto(ka, p, Rest(p)))
               \/ Become(Goto([Lock(k, s) EXCEPT !.node[s].count = @ + 1, !.u[p].up = s], p, pc))
  BY <1>0 DEF Update
<1> DEFINE kb == Lock(k, s)
           n == [kb.node EXCEPT ![s].count = @ + 1]
           kc == [kb EXCEPT !.node = n]
           kd == [kc EXCEPT !.u[p].up = s]
<1>21. Become(Goto(ka, p, Rest(p))) \/ Become(Goto(kd, p, pc)) BY <1>2
<1>3. Fits(k, p, pc) BY <1>1, FitsPush, LabelOf
<1>4. Alike(k, k) /\ UShape(k) BY AsBefore
<1> HIDE DEF pc, f, n
<1>5. Alike(k, ka) BY <1>4, FsSet
<1> HIDE DEF ka
<1>6. Alike(k, kb) BY <1>4, AlikeLock
<1> HIDE DEF kb
<1>7. Alike(k, kc) BY <1>6, NodeSet
<1> HIDE DEF kc
<1>8. Alike(k, kd) BY <1>7, UserSet
<1> HIDE DEF kd
<1>9. OpsOK(Goto(ka, p, Rest(p)), r) BY <1>1, <1>5, GotoOps
<1>10. OpsOK(Goto(kd, p, pc), r) BY <1>3, <1>8, GotoOps
<1>11. QED BY <1>21, <1>9, <1>10

LEMMA UpputOps ==
  ASSUME NEW k, k = K, NEW X, Good(k, X), NEW r, OpsOK(k, r), NEW p \in Proc, Upput(p)
  PROVE  \E k1 : Become(k1) /\ OpsOK(k1, r)
<1>0. u = k.u /\ node = k.node /\ K = k BY KFacts
<1>1. Fits(k, p, Rest(p)) BY OpsAt DEF Upput
<1> DEFINE l == "update"
           pc == <<l>> \o Rest(p)
           s == k.u[p].up
<1>2. PICK j \in IF k.node[s].chg THEN Written(k, s) ELSE {k} : Become(Iput(j, p, s, pc)) BY <1>0 DEF Upput
<1>3. Fits(k, p, pc) BY <1>1, FitsPush, LabelOf
<1>4. Alike(k, k) /\ UShape(k) BY AsBefore
<1> HIDE DEF pc, s
<1>5. CASE j = k BY <1>5, <1>2, <1>3, <1>4, IputOps
<1>6. CASE j \in Written(k, s)
  <2>1. Alike(k, j) BY <1>4, <1>6, AlikeWritten
  <2>2. OpsOK(Iput(j, p, s, pc), r) BY <1>3, <2>1, IputOps
  <2>3. QED BY <1>2, <2>2
<1>7. QED BY <1>2, <1>5, <1>6

\* They are stacks.
LEMMA OverSeq ==
  ASSUME NEW rest \in Seq(Label), NEW pc \in Over(rest) PROVE pc \in Seq(Label)
<1>1. ASSUME NEW l \in {"fstrunc", "fsiupdat", "iget", "fsiread"}, pc = <<l>> \o rest PROVE pc \in Seq(Label)
  <2>1. l \in Label BY DEF Label, LeafL
  <2>2. QED BY <1>1, <2>1, PushSeq
<1>2. QED BY <1>1 DEF Over

\* of mount and unmount.
LEMMA FsonOps ==
  ASSUME NEW k, k = K, NEW X, Good(k, X), NEW r, OpsOK(k, r), NEW p \in Proc, Fson(p)
  PROVE  \E k1 : Become(k1) /\ OpsOK(k1, r)
<1> DEFINE p0 == <<>>
           p1 == <<"fson2">>
           f == [k.fs EXCEPT !.mdev = TRUE]
           ka == [k EXCEPT !.fs = f]
<1>0. u = k.u /\ K = k BY KFacts
<1>1. Become(PutIp(k, p, p0)) \/ Become(Goto(ka, p, p1)) BY <1>0 DEF Fson
<1>2. Fits(k, p, p0) /\ Fits(k, p, p1) BY FitsOne, FitsNone, LabelOf
<1>3. Alike(k, k) BY AsBefore
<1> HIDE DEF f, p0, p1
<1>4. Alike(k, ka) BY <1>3, FsSet
<1> HIDE DEF ka
<1>5. OpsOK(PutIp(k, p, p0), r) BY <1>2, <1>3, PutIpOps
<1>6. OpsOK(Goto(ka, p, p1), r) BY <1>2, <1>4, GotoOps
<1>7. QED BY <1>1, <1>5, <1>6

LEMMA Fson2Ops ==
  ASSUME NEW k, k = K, NEW X, Good(k, X), NEW r, OpsOK(k, r), NEW p \in Proc, Fson2(p)
  PROVE  \E k1 : Become(k1) /\ OpsOK(k1, r)
<1> DEFINE p0 == <<>>
           p1 == <<"fson3">>
           x == "root"
           z == 0
           s == k.u[p].ip
           f == [k.fs EXCEPT !.ilock = FALSE]
           ka == [k EXCEPT !.fs = f]
           kb == [ka EXCEPT !.u[p].dip = s]
           kc == [kb EXCEPT !.u[p].ip = z]
           g == [k.fs EXCEPT !.mdev = FALSE]
           kd == [k EXCEPT !.fs = g]
<1>0. u = k.u /\ K = k BY KFacts
<1>1. Become(Iget(kc, p, x, p1)) \/ Become(PutIp(kd, p, p0)) BY <1>0 DEF Fson2
<1>2. Fits(k, p, p0) /\ Fits(k, p, p1) BY FitsOne, FitsNone, LabelOf
<1>3. Alike(k, k) BY AsBefore
<1> HIDE DEF f, g, p0, p1, x, z, s
<1>4. Alike(k, ka) /\ Alike(k, kd) BY <1>3, FsSet
<1> HIDE DEF ka, kd
<1>5. Alike(k, kb) BY <1>4, UserSet
<1> HIDE DEF kb
<1>6. Alike(k, kc) BY <1>5, UserSet
<1> HIDE DEF kc
<1>7. OpsOK(Iget(kc, p, x, p1), r) BY <1>2, <1>6, IgetOps
<1>8. OpsOK(PutIp(kd, p, p0), r) BY <1>2, <1>4, PutIpOps
<1>9. QED BY <1>1, <1>7, <1>8

LEMMA Fson3Ops ==
  ASSUME NEW k, k = K, NEW X, Good(k, X), NEW r, OpsOK(k, r), NEW p \in Proc, Fson3(p)
  PROVE  \E k1 : Become(k1) /\ OpsOK(k1, r)
<1> DEFINE p0 == <<>>
           p1 == <<"putdir">>
           z == 0
           rip == k.u[p].ip
           mp == k.u[p].dip
           g == [k.fs EXCEPT !.mdev = FALSE]
           kd == [k EXCEPT !.fs = g]
           n0 == [k.node EXCEPT ![mp].mroot = rip]
           ka == [k EXCEPT !.node = n0]
           cn == k.node[mp].count + 1
           n1 == [ka.node EXCEPT ![mp].count = cn]
           kb == [ka EXCEPT !.node = n1]
           n2 == [kb.node EXCEPT ![rip].mpoint = mp]
           kc == [kb EXCEPT !.node = n2]
           ke == [kc EXCEPT !.u[p].ip = z]
           kf == Prele(ke, rip)
<1>0. u = k.u /\ node = k.node /\ K = k BY KFacts
<1>1. Become(PutDip(kd, p, p0)) \/ Become(PutIp(kd, p, p1)) \/ Become(PutDip(kf, p, p0))
  <2> DEFINE k0 == [K EXCEPT !.node[u[p].dip].mroot = u[p].ip, !.node[u[p].dip].count = @ + 1,
                             !.node[u[p].ip].mpoint = u[p].dip, !.u[p].ip = 0]
             k9 == [K EXCEPT !.fs.mdev = FALSE]
             R == CASE u[p].ip = 0 -> Become(PutDip(k9, p, <<>>))
                    [] u[p].ip # 0 /\ node[u[p].ip].count # 1 -> Become(PutIp(k9, p, <<"putdir">>))
                    [] OTHER -> Become(PutDip(Prele(k0, u[p].ip), p, <<>>))
  <2>1. R BY DEF Fson3
  <2>2. k9 = kd BY <1>0
  <2>3. [k EXCEPT !.node[mp].mroot = rip, !.node[mp].count = @ + 1,
                  !.node[rip].mpoint = mp, !.u[p].ip = 0] = ke
    <3> HIDE DEF rip, mp
    <3>1. QED OBVIOUS
  <2>4. k0 = ke /\ u[p].ip = rip BY <2>3, <1>0
  <2> HIDE DEF k0, k9, kd, ke, rip
  <2>5. Become(PutDip(k9, p, <<>>)) \/ Become(PutIp(k9, p, <<"putdir">>)) \/ Become(PutDip(Prele(k0, u[p].ip), p, <<>>))
    BY <2>1
  <2>6. QED BY <2>2, <2>4, <2>5
<1>2. Fits(k, p, p0) /\ Fits(k, p, p1) BY FitsOne, FitsNone, LabelOf
<1>3. Alike(k, k) BY AsBefore
<1> HIDE DEF g, n0, n1, n2, p0, p1, z, rip, mp
<1>4. Alike(k, kd) /\ Alike(k, ka) BY <1>3, FsSet, NodeSet
<1> HIDE DEF ka, kd
<1>5. Alike(k, kb) BY <1>4, NodeSet
<1> HIDE DEF kb
<1>6. Alike(k, kc) BY <1>5, NodeSet
<1> HIDE DEF kc
<1>7. Alike(k, ke) BY <1>6, UserSet
<1> HIDE DEF ke
<1>8. UShape(ke) BY <1>7 DEF Alike
<1>9. Alike(ke, kf) BY <1>8, AlikePrele
<1> HIDE DEF kf
<1>10. Alike(k, kf) BY <1>7, <1>9, AlikeTrans
<1>11. OpsOK(PutDip(kd, p, p0), r) /\ OpsOK(PutDip(kf, p, p0), r) BY <1>2, <1>4, <1>10, PutDipOps
<1>12. OpsOK(PutIp(kd, p, p1), r) BY <1>2, <1>4, PutIpOps
<1>13. QED BY <1>1, <1>11, <1>12

LEMMA FunmountOps ==
  ASSUME NEW k, k = K, NEW X, Good(k, X), NEW r, OpsOK(k, r), NEW p \in Proc, Funmount(p)
  PROVE  \E k1 : Become(k1) /\ OpsOK(k1, r)
<1> DEFINE p0 == <<>>
           p1 == <<"update0", "fsoff">>
           rip == k.u[p].ip
           mip == k.node[rip].mpoint
           ka == PutIp(k, p, p1)
           pa == ka.u[p].pc
           pb == <<"xscan0">> \o pa
           kb == Lock(ka, rip)
           pc == IF NText = 0 THEN pa ELSE pb
           kc == Goto(kb, p, pc)
           kd == [kc EXCEPT !.u[p].rip = rip]
           ke == [kd EXCEPT !.u[p].mip = mip]
<1>0. u = k.u /\ node = k.node /\ K = k BY KFacts
<1>1. Become(PutIp(k, p, p0)) \/ Become(ke)
  <2>1. [Goto(Lock(PutIp(K, p, <<"update0", "fsoff">>), u[p].ip), p,
              IF NText = 0 THEN PutIp(K, p, <<"update0", "fsoff">>).u[p].pc
              ELSE <<"xscan0">> \o PutIp(K, p, <<"update0", "fsoff">>).u[p].pc)
           EXCEPT !.u[p].rip = u[p].ip, !.u[p].mip = node[u[p].ip].mpoint] = ke BY <1>0
  <2> HIDE DEF ke
  <2>2. Become(PutIp(K, p, <<>>)) \/ Become(ke) BY <2>1 DEF Funmount
  <2>3. QED BY <2>2, <1>0
<1>2. Fits(k, p, p0) /\ Fits(k, p, <<"fsoff">>) BY FitsOne, FitsNone, LabelOf
<1>3. p1 = <<"update0">> \o <<"fsoff">> OBVIOUS
<1>4. Fits(k, p, p1) BY <1>2, <1>3, FitsPush, LabelOf
<1>41. p1 \in Seq(Label) /\ Bot(p1) # "dir" BY LabelOf DEF Bot
<1>5. Alike(k, k) /\ UShape(k) BY AsBefore
<1>6. At(p, "funmount") /\ "funmount" \in LastL BY DEF Funmount, LastL, WithIp
<1>7. Bot(k.u[p].pc) = "funmount" BY <1>6, OpsAt
<1> HIDE DEF p0, p1, rip, mip
<1>8. OpsOK(ka, r) BY <1>4, <1>5, PutIpOps
<1>9. Went(k, ka, p, p1) BY <1>5, PutIpWent
<1> HIDE DEF ka
<1>10. Fits(ka, p, pa)
  <2>1. CASE pa = k.u[p].pc
    <3>1. k.u[p].pc \in Seq(Label) BY DEF Good, Core, Types, UsersOK, UserOK
    <3>2. Bot(pa) # "dir" BY <1>7, <2>1
    <3> HIDE DEF pa
    <3>3. pa \in Seq(Label) BY <3>1, <2>1
    <3>4. QED BY <3>2, <3>3, FitsLess
  <2>2. CASE pa \in Over(p1)
    <3> HIDE DEF pa
    <3>1. Bot(pa) # "dir" BY <2>2, <1>41, OverBot
    <3>2. pa \in Seq(Label) BY <2>2, <1>41, OverSeq
    <3>3. QED BY <3>1, <3>2, FitsLess
  <2>3. QED BY <1>9, <2>1, <2>2 DEF Went
<1> HIDE DEF pa
<1>11. Fits(ka, p, pb) BY <1>10, FitsPush, LabelOf
<1> HIDE DEF pb
<1>12. Fits(ka, p, pc) BY <1>10, <1>11
<1> HIDE DEF pc
<1>13. UShape(ka) BY <1>8, AsBefore
<1>14. Alike(ka, kb) BY <1>13, AlikeLock
<1> HIDE DEF kb
<1>15. OpsOK(kc, r) BY <1>8, <1>12, <1>14, GotoOps
<1> HIDE DEF kc
<1>16. Alike(kc, kc) BY <1>15, AsBefore
<1>17. Alike(kc, kd) BY <1>16, UserSet
<1> HIDE DEF kd
<1>18. Alike(kc, ke) BY <1>17, UserSet
<1> HIDE DEF ke
<1>19. OpsOK(ke, r) BY <1>15, <1>18, AlikeOps
<1>20. OpsOK(PutIp(k, p, p0), r) BY <1>2, <1>5, PutIpOps
<1>21. QED BY <1>1, <1>19, <1>20

LEMMA UnhangOps ==
  ASSUME NEW k, NEW r, NEW p \in Proc, OpsOK(k, r)
  PROVE  OpsOK(Unhang(k, p), r)
<1> DEFINE m == k.u[p].mip
           ka == SleepOn(k, p, m)
           pa == <<"unhang">>
           pb == <<"iputrip">>
           z == 0
           kb == Lock(k, m)
           n == [kb.node EXCEPT ![m].mroot = 0]
           kc == [kb EXCEPT !.node = n]
           kd == [kc EXCEPT !.u[p].mip = z]
<1>1. Unhang(k, p) = Goto(ka, p, pa) \/ Unhang(k, p) = Iput(kd, p, m, pb) BY DEF Unhang
<1>2. Fits(k, p, pa) /\ Fits(k, p, pb) BY FitsOne, LabelOf
<1>3. UShape(k) BY AsBefore
<1> HIDE DEF z, n, pa, pb, m
<1>4. Alike(k, ka) /\ Alike(k, kb) BY <1>3, AlikeSleepOn, AlikeLock
<1> HIDE DEF ka, kb
<1>5. Alike(k, kc) BY <1>4, NodeSet
<1> HIDE DEF kc
<1>6. Alike(k, kd) BY <1>5, UserSet
<1> HIDE DEF kd
<1>7. OpsOK(Goto(ka, p, pa), r) BY <1>2, <1>4, GotoOps
<1>8. OpsOK(Iput(kd, p, m, pb), r) BY <1>2, <1>6, IputOps
<1>9. QED BY ONLY <1>1, <1>7, <1>8

LEMMA FsoffOps ==
  ASSUME NEW k, k = K, NEW X, Good(k, X), NEW r, OpsOK(k, r), NEW p \in Proc, Fsoff(p)
  PROVE  \E k1 : Become(k1) /\ OpsOK(k1, r)
<1> DEFINE p0 == <<>>
           s == k.u[p].rip
           ka == Prele(k, s)
<1>0. u = k.u /\ K = k BY KFacts
<1>1. Become(Goto(ka, p, p0)) \/ Become(Unhang(k, p)) BY <1>0 DEF Fsoff
<1>2. Fits(k, p, p0) BY FitsNone
<1>3. UShape(k) BY AsBefore
<1> HIDE DEF p0, s
<1>4. Alike(k, ka) BY <1>3, AlikePrele
<1> HIDE DEF ka
<1>5. OpsOK(Goto(ka, p, p0), r) BY <1>2, <1>4, GotoOps
<1>6. OpsOK(Unhang(k, p), r) BY UnhangOps
<1>7. QED BY <1>1, <1>5, <1>6

LEMMA UnhangLaterOps ==
  ASSUME NEW k, k = K, NEW X, Good(k, X), NEW r, OpsOK(k, r), NEW p \in Proc, UnhangLater(p)
  PROVE  \E k1 : Become(k1) /\ OpsOK(k1, r)
<1>0. K = k BY KFacts
<1>1. Become(Unhang(k, p)) BY <1>0 DEF UnhangLater
<1>2. OpsOK(Unhang(k, p), r) BY UnhangOps
<1>3. QED BY <1>1, <1>2

LEMMA IputripOps ==
  ASSUME NEW k, k = K, NEW X, Good(k, X), NEW r, OpsOK(k, r), NEW p \in Proc, Iputrip(p)
  PROVE  \E k1 : Become(k1) /\ OpsOK(k1, r)
<1> DEFINE pc == <<"fsoffend">>
           z == 0
           s == k.u[p].rip
           ka == [k EXCEPT !.u[p].rip = z]
<1>0. u = k.u /\ K = k BY KFacts
<1>1. Become(Iput(ka, p, s, pc)) BY <1>0 DEF Iputrip
<1>2. Fits(k, p, pc) BY FitsOne, LabelOf
<1>3. Alike(k, k) BY AsBefore
<1> HIDE DEF pc, z, s
<1>4. Alike(k, ka) BY <1>3, UserSet
<1> HIDE DEF ka
<1>5. OpsOK(Iput(ka, p, s, pc), r) BY <1>2, <1>4, IputOps
<1>6. QED BY <1>1, <1>5

LEMMA FsoffendOps ==
  ASSUME NEW k, k = K, NEW X, Good(k, X), NEW r, OpsOK(k, r), NEW p \in Proc, Fsoffend(p)
  PROVE  \E k1 : Become(k1) /\ OpsOK(k1, r)
<1> DEFINE pc == <<>>
           f == [k.fs EXCEPT !.mdev = FALSE]
           ka == [k EXCEPT !.fs = f]
<1>0. u = k.u /\ K = k BY KFacts
<1>1. Become(Goto(ka, p, pc)) BY <1>0 DEF Fsoffend
<1>2. Fits(k, p, pc) BY FitsNone
<1>3. Alike(k, k) BY AsBefore
<1> HIDE DEF pc, f
<1>4. Alike(k, ka) BY <1>3, FsSet
<1> HIDE DEF ka
<1>5. OpsOK(Goto(ka, p, pc), r) BY <1>2, <1>4, GotoOps
<1>6. QED BY <1>1, <1>5

\* Without text actions no text refers to an inode.
X0 == [s \in Slot |-> 0]

\* A process in no call is asked nothing.
LEMMA IdleOps == Bot(Idle.pc) = "" /\ Idle.op = "" /\ Idle = [f \in UserF |-> Idle[f]]
BY DEF Bot, Idle, UserF

\* At the start OpsOK holds.
LEMMA InitOps == ASSUME Init PROVE OpsOK(K, run)
<1> DEFINE k == K
<1>1. k.u = [p \in Proc |-> Idle] /\ k = [x \in DOMAIN k |-> k[x]] /\ Five \subseteq DOMAIN k BY DEF K, Init, Five
<1> HIDE DEF k
<1>2. \A q \in Proc : k.u[q] = Idle BY <1>1
<1>3. \A q \in Proc : k.u[q] = [f \in UserF |-> k.u[q][f]] BY <1>2, IdleOps
<1>4. UShape(k) BY <1>1, <1>2, <1>3 DEF UShape
<1>5. \A q \in Proc : OpOK(k.u[q].op, k.u[q].pc, run.does[q]) BY <1>2, IdleOps DEF OpOK
<1>6. OpsOK(k, run) BY <1>4, <1>5 DEF OpsOK
<1>7. QED BY <1>6 DEF k

\* A process in no call has nothing in hand.
LEMMA IdleHands ==
  /\ HandOK(Idle, Idle.pc) /\ Apart(Idle) /\ UserOK(Idle) /\ Idle.chan = Awake /\ Idle.pc = <<>>
  /\ \A s \in Slot : RefP(Idle, s) = 0 /\ ~HoldP(Idle, s)
  /\ Bot(Idle.pc) = "" /\ Idle.fd = 0 /\ Idle.put = 0
<1>1. Bot(Idle.pc) = "" /\ Top(Idle.pc) = "" /\ Idle.pc = <<>> BY DEF Bot, Top, Idle
<1>2. StackOK(<<>>) BY DEF StackOK
<1>3. /\ Idle.ip = 0 /\ Idle.dip = 0 /\ Idle.put = 0 /\ Idle.up = 0 /\ Idle.rip = 0 /\ Idle.mip = 0 /\ Idle.fd = 0
      /\ Idle.op = "" /\ Idle.chan = Awake /\ Idle.key = "none" /\ Idle = [f \in UserF |-> Idle[f]]
  BY DEF Idle, UserF
<1> HIDE DEF Idle
<1>4. HandOK(Idle, Idle.pc)
  BY <1>1, <1>2, <1>3 DEF HandOK, WithDip, WithRip, WithMip, WithIp, PerhapsIp, Opens
<1>5. Apart(Idle) BY <1>1, <1>3 DEF Apart
<1>6. "none" \in Inos /\ 0 \in Opt /\ <<>> \in Seq(Label) BY DEF Inos, Opt
<1>7. UserOK(Idle) BY <1>1, <1>3, <1>6 DEF UserOK
<1>8. \A s \in Slot : ~HoldP(Idle, s) BY <1>1, <1>3, SlotFacts DEF HoldP, Up
<1>9. QED BY <1>1, <1>3, <1>4, <1>5, <1>7, <1>8, NoRefs

\* The table at the start: slots 1 and 2 when a file system is mounted, the others free.
AtStart(n) ==
  /\ n = [s \in Slot |-> n[s]] /\ \A s \in Slot : n[s] = [f \in NodeF |-> n[s][f]]
  /\ \A s \in Slot : ~n[s].lock /\ ~n[s].want /\ n[s].lock \in BOOLEAN /\ n[s].want \in BOOLEAN
  /\ \/ /\ run.mounted /\ NInode >= 2
        /\ \A s \in Slot : /\ s = 1 => n[s].ino = "mp" /\ n[s].count = 1 /\ n[s].mroot = 2 /\ n[s].mpoint = 0
                           /\ s = 2 => n[s].ino = "root" /\ n[s].count = 1 /\ n[s].mroot = 0 /\ n[s].mpoint = 1
                           /\ s \notin {1, 2} => n[s].ino = "none" /\ n[s].count = 0 /\ n[s].mroot = 0 /\ n[s].mpoint = 0
     \/ /\ ~run.mounted
        /\ \A s \in Slot : n[s].ino = "none" /\ n[s].count = 0 /\ n[s].mroot = 0 /\ n[s].mpoint = 0

\* The record of a free slot.
LEMMA FreeFacts ==
  /\ Free.ino = "none" /\ Free.count = 0 /\ Free.lock = FALSE /\ Free.want = FALSE /\ Free.mroot = 0 /\ Free.mpoint = 0
  /\ Free = [f \in NodeF |-> Free[f]]
BY DEF Free, NodeF

\* This is the table at the start,
LEMMA InitTable == ASSUME Init PROVE AtStart(node)
<1> DEFINE a == [Free EXCEPT !.ino = "mp", !.count = 1, !.mroot = 2]
           b == [Free EXCEPT !.ino = "root", !.count = 1, !.mpoint = 1]
<1>1. /\ a.ino = "mp" /\ a.count = 1 /\ a.lock = FALSE /\ a.want = FALSE /\ a.mroot = 2 /\ a.mpoint = 0
      /\ a = [f \in NodeF |-> a[f]]
  BY FreeFacts DEF NodeF
<1>2. /\ b.ino = "root" /\ b.count = 1 /\ b.lock = FALSE /\ b.want = FALSE /\ b.mroot = 0 /\ b.mpoint = 1
      /\ b = [f \in NodeF |-> b[f]]
  BY FreeFacts DEF NodeF
<1>3. node = [s \in Slot |-> CASE s = 1 /\ run.mounted -> a [] s = 2 /\ run.mounted -> b [] OTHER -> Free] BY DEF Init
<1>4. run.mounted \in BOOLEAN /\ (run.mounted => NInode >= 2) BY ScenarioAssumption DEF Init
<1> HIDE DEF a, b
<1> DEFINE n == node
<1>5. /\ n = [s \in Slot |-> n[s]]
      /\ \A s \in Slot : /\ s = 1 /\ run.mounted => n[s] = a
                         /\ s = 2 /\ run.mounted => n[s] = b
                         /\ (s \notin {1, 2} \/ ~run.mounted) => n[s] = Free
  BY <1>3
<1> HIDE DEF n
<1>6. \A s \in Slot : n[s] \in {a, b, Free} BY <1>5
<1>7. \A s \in Slot : n[s] = [f \in NodeF |-> n[s][f]] BY <1>6, <1>1, <1>2, FreeFacts
<1>8. \A s \in Slot : ~n[s].lock /\ ~n[s].want /\ n[s].lock \in BOOLEAN /\ n[s].want \in BOOLEAN BY <1>6, <1>1, <1>2, FreeFacts
<1>9. CASE run.mounted
  <2>1. \A s \in Slot : /\ s = 1 => n[s] = a
                        /\ s = 2 => n[s] = b
                        /\ s \notin {1, 2} => n[s] = Free
    BY <1>5, <1>9
  <2>2. \A s \in Slot : /\ s = 1 => n[s].ino = "mp" /\ n[s].count = 1 /\ n[s].mroot = 2 /\ n[s].mpoint = 0
                        /\ s = 2 => n[s].ino = "root" /\ n[s].count = 1 /\ n[s].mroot = 0 /\ n[s].mpoint = 1
                        /\ s \notin {1, 2} => n[s].ino = "none" /\ n[s].count = 0 /\ n[s].mroot = 0 /\ n[s].mpoint = 0
    BY <2>1, <1>1, <1>2, FreeFacts
  <2>3. AtStart(n) BY <2>2, <1>5, <1>7, <1>8, <1>4, <1>9 DEF AtStart
  <2>4. QED BY <2>3 DEF n
<1>10. CASE ~run.mounted
  <2>1. \A s \in Slot : n[s] = Free BY <1>5, <1>10
  <2>2. \A s \in Slot : n[s].ino = "none" /\ n[s].count = 0 /\ n[s].mroot = 0 /\ n[s].mpoint = 0 BY <2>1, FreeFacts
  <2>3. AtStart(n) BY <2>2, <1>5, <1>7, <1>8, <1>10 DEF AtStart
  <2>4. QED BY <2>3 DEF n
<1>11. QED BY <1>9, <1>10

\* of its types.
LEMMA InitTypes == ASSUME Init PROVE Types(K)
<1> DEFINE k == K
<1>1. /\ k.u = [p \in Proc |-> Idle] /\ k.node = node /\ k.fs = fs /\ k.freel = freel
      /\ k = [x \in DOMAIN k |-> k[x]] /\ Five \subseteq DOMAIN k
  BY DEF K, Init, Five
<1> HIDE DEF k
<1>2. Shape(k) BY <1>1 DEF Shape
<1>3. UsersOK(k.u) BY <1>1, IdleHands DEF UsersOK
<1>4. NodesOK(k.node)
  <2> DEFINE n == node
  <2>1. AtStart(n) BY InitTable
  <2>20. run.mounted => NInode >= 2 BY ScenarioAssumption DEF Init
  <2>21. NInode \in Nat /\ NInode >= 1 BY InodeAssumption
  <2>22. 1 \in Opt /\ 0 \in Opt BY <2>21 DEF Opt, Slot
  <2>23. NInode >= 2 => 2 \in Opt BY <2>21 DEF Opt, Slot
  <2>2. 1 \in Opt /\ 0 \in Opt /\ (run.mounted => 2 \in Opt) BY ONLY <2>20, <2>22, <2>23
  <2>3. {"mp", "root", "none"} \subseteq Inos /\ 0 \in Int /\ 1 \in Int BY DEF Inos
  <2> HIDE DEF n
  <2>4. \A s \in Slot : n[s].ino \in Inos /\ n[s].count \in Int /\ n[s].mroot \in Opt /\ n[s].mpoint \in Opt
    BY <2>1, <2>2, <2>3 DEF AtStart
  <2>5. NodesOK(n) BY <2>1, <2>4 DEF NodesOK, NodeOK, AtStart
  <2>6. QED BY <2>5, <1>1 DEF n
<1>5. FsOK(k.fs)
  <2> DEFINE f == fs
  <2>1. /\ f = [x \in FsF |-> f[x]] /\ f.dir = run.dir /\ f.sinode = <<>> /\ f.ilock = FALSE
    BY DEF Init, FsF
  <2>2. run.dir \in [Name -> File \cup {"none"}] BY ScenarioAssumption DEF Init
  <2> HIDE DEF f
  <2>3. f.dir = [n \in Name |-> f.dir[n]] BY <2>1, <2>2
  <2>4. \A n \in Name : f.dir[n] \in InFs \cup {"none"} BY <2>1, <2>2 DEF InFs
  <2>40. f.sinode = <<>> BY <2>1
  <2>41. f.sinode \in Seq(Inos \ {"none"})
    <3> DEFINE S == Inos \ {"none"}
    <3> HIDE DEF S
    <3>1. f.sinode \in Seq(S) BY <2>40, EmptySeq
    <3>2. QED BY <3>1 DEF S
  <2>42. f.ilock \in BOOLEAN BY <2>1
  <2>43. f = [x \in FsF |-> f[x]] BY <2>1
  <2>5. FsOK(f) BY ONLY <2>3, <2>4, <2>41, <2>42, <2>43 DEF FsOK
  <2>6. QED BY <2>5, <1>1 DEF f
<1>6. k.freel \in Seq(Slot)
  <2>1. run.mounted \in BOOLEAN /\ (run.mounted => NInode >= 2) /\ NInode \in Nat
    BY ScenarioAssumption, InodeAssumption DEF Init
  <2>2. CASE run.mounted
    <3>1. freel = [i \in 1..(NInode - 2) |-> i + 2] BY <2>2 DEF Init
    <3>2. NInode - 2 \in Nat /\ \A i \in 1..(NInode - 2) : i + 2 \in Slot BY <2>1, <2>2 DEF Slot
    <3>3. QED BY <1>1, <3>1, <3>2
  <2>3. CASE ~run.mounted
    <3>1. freel = [i \in 1..NInode |-> i] BY <2>3 DEF Init
    <3>2. \A i \in 1..NInode : i \in Slot BY DEF Slot
    <3>3. QED BY <1>1, <3>1, <3>2, <2>1
  <2>4. QED BY <2>2, <2>3
<1>7. Types(k) BY <1>2, <1>3, <1>4, <1>5, <1>6 DEF Types
<1>8. QED BY <1>7 DEF k

\* No process has a reference,
LEMMA InitRefs ==
  ASSUME NEW w, \A q \in Proc : w[q] = Idle, NEW s \in Slot PROVE ProcRefs(w, s) = 0
<1>1. /\ Idle.ip = 0 /\ Idle.dip = 0 /\ Idle.fd = 0 /\ Idle.put = 0 /\ Up(Idle) = 0 /\ Rip(Idle) = 0 /\ s # 0
  BY NoRefs, SlotFacts DEF Idle
<1>2. /\ {p \in Proc : w[p].ip = s} = {} /\ {p \in Proc : w[p].dip = s} = {} /\ {p \in Proc : w[p].fd = s} = {}
      /\ {p \in Proc : w[p].put = s} = {} /\ {p \in Proc : Up(w[p]) = s} = {} /\ {p \in Proc : Rip(w[p]) = s} = {}
  BY <1>1
<1>3. Cardinality({}) = 0 BY FS_EmptySet
<1>4. ProcRefs(w, s) = 0 + 0 + 0 + 0 + 0 + 0 BY ONLY <1>2, <1>3 DEF ProcRefs
<1>5. QED BY <1>4

\* the mounted root and its directory have one each,
LEMMA InitMountRefs ==
  ASSUME NEW n, AtStart(n), NEW s \in Slot PROVE MountRefs(n, s) = n[s].count
<1>1. s # 0 BY SlotFacts
<1>2. CASE run.mounted /\ s \in {1, 2}
  <2>1. 1 \in Slot /\ n[1].mroot = 2 /\ n[s].count = 1 BY <1>2, InodeAssumption DEF AtStart, Slot
  <2>2. \A m \in Slot : m # 1 => n[m].mroot = 0 BY <1>2 DEF AtStart
  <2>21. s = 1 \/ s = 2 BY <1>2
  <2>22. ASSUME NEW m \in Slot PROVE (n[m].mroot = s \/ (m = s /\ n[m].mroot # 0)) <=> m = 1
    <3>1. CASE m = 1 BY <3>1, <2>1, <2>21
    <3>2. CASE m # 1 BY <3>2, <2>2, <1>1
    <3>3. QED BY <3>1, <3>2
  <2> DEFINE D == {m \in Slot : n[m].mroot = s \/ (m = s /\ n[m].mroot # 0)}
  <2>3. D = {1} BY <2>22, <2>1
  <2>4. Cardinality({1}) = 1 BY FS_Singleton
  <2>5. QED BY <2>1, <2>3, <2>4 DEF MountRefs
<1>3. CASE ~(run.mounted /\ s \in {1, 2})
  <2>1. n[s].count = 0 /\ n[s].mroot = 0 BY <1>3 DEF AtStart
  <2>2. \A m \in Slot : n[m].mroot # s
    <3>1. CASE run.mounted BY <1>1, <1>3, <3>1 DEF AtStart
    <3>2. CASE ~run.mounted BY <1>1, <3>2 DEF AtStart
    <3>3. QED BY <3>1, <3>2
  <2>3. {m \in Slot : n[m].mroot = s \/ (m = s /\ n[m].mroot # 0)} = {} BY <2>1, <2>2
  <2>4. Cardinality({}) = 0 BY FS_EmptySet
  <2>5. QED BY <2>1, <2>3, <2>4 DEF MountRefs
<1>4. QED BY <1>2, <1>3

\* the free list holds the other slots,
LEMMA InitFreel ==
  ASSUME Init, AtStart(node)
  PROVE  /\ \A i \in 1..Len(freel) : freel[i] \in Slot /\ node[freel[i]].ino = "none"
         /\ \A s \in Slot : node[s].ino = "none" => \E i \in 1..Len(freel) : freel[i] = s
         /\ \A i, j \in 1..Len(freel) : freel[i] = freel[j] => i = j
<1>1. run.mounted \in BOOLEAN BY ScenarioAssumption DEF Init
<1>0. NInode \in Nat BY InodeAssumption
<1>2. CASE run.mounted
  <2>1. freel = [i \in 1..(NInode - 2) |-> i + 2] BY <1>2 DEF Init
  <2>2. NInode >= 2 BY <1>2, ScenarioAssumption DEF Init
  <2>3. Len(freel) = NInode - 2 /\ \A i \in 1..Len(freel) : freel[i] = i + 2
    <3>1. NInode - 2 \in Nat BY <1>0, <2>2
    <3>2. QED BY <2>1, <3>1
  <2>4. \A s \in Slot : s \notin {1, 2} <=> node[s].ino = "none" BY <1>2 DEF AtStart
  <2> DEFINE l == freel
             n == node
  <2> HIDE DEF l, n
  <2>5. Len(l) = NInode - 2 /\ \A i \in 1..Len(l) : l[i] = i + 2 BY <2>3 DEF l
  <2>6. \A s \in Slot : (s # 1 /\ s # 2) <=> n[s].ino = "none" BY <2>4 DEF n
  <2>7. \A i \in 1..Len(l) : l[i] \in Slot /\ n[l[i]].ino = "none" BY <2>5, <2>6, <1>0, <2>2 DEF Slot
  <2>8. ASSUME NEW s \in Slot, n[s].ino = "none" PROVE \E i \in 1..Len(l) : l[i] = s
    <3>1. s - 2 \in 1..Len(l) /\ l[s - 2] = s BY <2>5, <2>6, <2>8, <1>0, <2>2 DEF Slot
    <3>2. QED BY <3>1
  <2>9. \A i, j \in 1..Len(l) : l[i] = l[j] => i = j BY <2>5
  <2>10. QED BY <2>7, <2>8, <2>9 DEF l, n
<1>3. CASE ~run.mounted
  <2>1. freel = [i \in 1..NInode |-> i] BY <1>3 DEF Init
  <2>2. Len(freel) = NInode /\ \A i \in 1..Len(freel) : freel[i] = i BY <2>1, <1>0
  <2>3. \A s \in Slot : node[s].ino = "none" BY <1>3 DEF AtStart
  <2> DEFINE l == freel
             n == node
  <2> HIDE DEF l, n
  <2>5. Len(l) = NInode /\ \A i \in 1..Len(l) : l[i] = i BY <2>2 DEF l
  <2>6. \A s \in Slot : n[s].ino = "none" BY <2>3 DEF n
  <2>7. \A i \in 1..Len(l) : l[i] \in Slot /\ n[l[i]].ino = "none" BY <2>5, <2>6, <1>0 DEF Slot
  <2>8. \A s \in Slot : \E i \in 1..Len(l) : l[i] = s BY <2>5, <1>0 DEF Slot
  <2>9. \A i, j \in 1..Len(l) : l[i] = l[j] => i = j BY <2>5
  <2>10. QED BY <2>7, <2>8, <2>9 DEF l, n
<1>4. QED BY <1>2, <1>3

\* so counts, locks and table are in order,
LEMMA InitCore == ASSUME Init PROVE Core(K, X0)
<1>0. AtStart(node) BY InitTable
<1>1. Types(K) BY InitTypes
<1>2. /\ \A i \in 1..Len(freel) : freel[i] \in Slot /\ node[freel[i]].ino = "none"
      /\ \A s \in Slot : node[s].ino = "none" => \E i \in 1..Len(freel) : freel[i] = s
      /\ \A i, j \in 1..Len(freel) : freel[i] = freel[j] => i = j
  BY <1>0, InitFreel
<1> DEFINE k == K
<1>3. /\ k.node = node /\ k.freel = freel /\ k.u = [p \in Proc |-> Idle] BY DEF K, Init
<1>4. Types(k) BY <1>1
<1> HIDE DEF k
<1>5. \A q \in Proc : k.u[q] = Idle BY <1>3
<1>6. \A q \in Proc : ProcOK(k.u[q]) BY <1>5, IdleHands DEF ProcOK
<1>7. \A s \in Slot : X0[s] = 0 BY DEF X0
<1>8. Texts(X0) BY <1>7 DEF Texts
<1>9. ASSUME NEW s \in Slot PROVE k.node[s].count = ProcRefs(k.u, s) + MountRefs(k.node, s) + X0[s]
  <2>1. ProcRefs(k.u, s) = 0 BY <1>5, InitRefs
  <2>2. MountRefs(k.node, s) = k.node[s].count BY <1>0, <1>3, InitMountRefs
  <2>3. k.node[s].count \in Int BY <1>4 DEF Types, NodesOK, NodeOK
  <2>4. QED BY <2>1, <2>2, <2>3, <1>7
<1>10. CountInv(k, X0) BY <1>9 DEF CountInv
<1>11. LockInv(k)
  <2>1. \A q \in Proc, s \in Slot : ~HoldP(k.u[q], s) BY <1>5, IdleHands
  <2>2. \A s \in Slot : ~k.node[s].lock BY <1>0, <1>3 DEF AtStart
  <2>3. QED BY <2>1, <2>2 DEF LockInv
<1>12. SleepInv(k)
  <2>1. \A q \in Proc : k.u[q].chan = Awake BY <1>5, IdleHands
  <2>2. Awake # <<"ilock", 0>> /\ \A s \in Slot : Awake # On(s) BY AwakeOn DEF Awake
  <2>3. QED BY <2>1, <2>2 DEF SleepInv
<1>13. TableInv(k)
  <2> DEFINE n == k.node
             l == k.freel
  <2>1. AtStart(n) BY <1>0, <1>3
  <2>2. /\ \A i \in 1..Len(l) : n[l[i]].ino = "none"
        /\ \A s \in Slot : n[s].ino = "none" => \E i \in 1..Len(l) : l[i] = s
        /\ \A i, j \in 1..Len(l) : l[i] = l[j] => i = j
    BY <1>2, <1>3
  <2> HIDE DEF n, l
  <2>3. \A s, t \in Slot : s # t /\ n[s].ino # "none" => n[s].ino # n[t].ino BY <2>1 DEF AtStart
  <2>4. \A s \in Slot : n[s].ino = "none" <=> n[s].count = 0 BY <2>1 DEF AtStart
  <2>5. \A s \in Slot : n[s].ino = "none" => ~n[s].lock BY <2>1 DEF AtStart
  <2>6. QED BY <2>2, <2>3, <2>4, <2>5 DEF TableInv, n, l
<1>14. Core(k, X0) BY <1>4, <1>6, <1>8, <1>10, <1>11, <1>12, <1>13 DEF Core
<1>15. QED BY <1>14 DEF k

\* and so is the rest of the invariant.
LEMMA InitGood == ASSUME Init PROVE Good(K, X0)
<1>0. AtStart(node) /\ Core(K, X0) BY InitTable, InitCore
<1> DEFINE k == K
<1>1. /\ k.node = node /\ k.u = [p \in Proc |-> Idle] /\ k.fs.mdev = run.mounted BY DEF K, Init
<1>2. AtStart(k.node) /\ Core(k, X0) BY <1>0, <1>1
<1> HIDE DEF k
<1>3. \A q \in Proc : k.u[q] = Idle BY <1>1
<1>4. \A q \in Proc : Bot(k.u[q].pc) = "" /\ k.u[q].fd = 0 /\ k.u[q].put = 0 BY <1>3, IdleHands
<1>5. "" \notin Owner \cup {"fson", "fson2", "dir", "more", "fson3", "fsoff", "unhang", "plockdir"} \cup Named \cup WithDip
  BY DEF Owner, Named, WithDip
<1> DEFINE n == k.node
<1>6. MountInv(k)
  <2>1. CASE run.mounted
    <3>1. 1 \in Slot /\ 2 \in Slot BY <1>2, <2>1, InodeAssumption DEF AtStart, Slot
    <3>2. /\ n[1].ino = "mp" /\ n[1].mroot = 2 /\ n[2].ino = "root" /\ n[2].mpoint = 1
          /\ \A s \in Slot : s # 1 => n[s].mroot = 0
          /\ \A s \in Slot : n[s].ino \in {"mp", "root", "none"}
      BY <1>2, <2>1, <3>1 DEF AtStart
    <3>3. InFs \cap {"mp", "root", "none"} = {} BY InodeAssumption DEF InFs
    <3>4. k.fs.mdev BY <2>1, <1>1
    <3> HIDE DEF n
    <3>5. \A m \in Slot : n[m].mroot # 0 => m = 1 BY <3>2
    <3>6. QED BY <3>1, <3>2, <3>3, <3>4, <3>5 DEF MountInv, n
  <2>2. CASE ~run.mounted
    <3>1. \A s \in Slot : n[s].ino = "none" /\ n[s].mroot = 0 BY <1>2, <2>2 DEF AtStart
    <3>2. "none" \notin InFs BY InodeAssumption DEF InFs
    <3>3. QED BY <3>1, <3>2 DEF MountInv
  <2>3. QED BY <2>1, <2>2
<1>7. OwnerInv(k)
  <2>1. \A q \in Proc : Bot(k.u[q].pc) \notin Owner BY <1>4, <1>5
  <2>2. ASSUME NEW s \in Slot, n[s].ino = "root" PROVE \E m \in Slot : n[m].mroot = s
    <3>1. run.mounted /\ s = 2 BY <1>2, <2>2 DEF AtStart
    <3>2. 1 \in Slot BY InodeAssumption DEF Slot
    <3>3. n[1].mroot = 2 BY <1>2, <3>1, <3>2 DEF AtStart
    <3>4. QED BY <3>1, <3>2, <3>3
  <2>3. QED BY <2>1, <2>2 DEF OwnerInv
<1>8. ASSUME NEW q \in Proc PROVE PathOK(k, k.u[q]) /\ PutOK(k, k.u[q])
  <2> DEFINE c == k.u[q]
  <2>1. Bot(c.pc) = "" /\ c.fd = 0 /\ c.put = 0 /\ c = Idle BY <1>3, <1>4
  <2>2. \A s \in Slot : RefP(c, s) = 0 BY <2>1, IdleHands
  <2> HIDE DEF c
  <2>3. PathAt(k, c, Bot(c.pc)) BY <2>1, <1>5 DEF PathAt
  <2>4. RootOwned(k, c) BY <2>2 DEF RootOwned
  <2>5. Empty(k, c) BY <2>1, <1>5 DEF Empty
  <2>6. Bot(c.pc) \notin Owner BY <2>1, <1>5
  <2>7. PathOK(k, c) BY <2>3, <2>4, <2>5, <2>6, PathParts
  <2>8. PutOK(k, c) BY <2>1 DEF PutOK
  <2>9. QED BY <2>7, <2>8 DEF c
<1>9. Good(k, X0) BY <1>2, <1>6, <1>7, <1>8 DEF Good, Mounts
<1>10. QED BY <1>9 DEF k

\* Nobody takes ".." of a root, across the mount, while somebody else unmounts: plock sleeps with the
\* root unlocked, and unmount does not know of it.
Separate == \A r \in Scenarios, p, q \in Proc :
              p # q => ~("dotdot" \in r.does[p] /\ "unmount" \in r.does[q])

\* The inductive invariant.
InodeInv == Good(K, X0) /\ OpsOK(K, run) /\ run \in Scenarios

\* There are no texts.
LEMMA NoTexts == ASSUME NEW k PROVE TextsIn(k, X0)
BY DEF TextsIn, X0

\* Who unmounts is alone with "..".
LEMMA UnmountAlone ==
  ASSUME Separate, NEW k, NEW X, Good(k, X), NEW r \in Scenarios, OpsOK(k, r), NEW p \in Proc,
         Bot(k.u[p].pc) \in {"fsoff", "unhang"}
  PROVE  NoneCrosses(k)
<1>1. HandOK(k.u[p], k.u[p].pc) BY DEF Good, Core, ProcOK
<1>2. k.u[p].op = "unmount" BY <1>1 DEF HandOK
<1>3. "unmount" \in r.does[p] BY <1>2 DEF OpsOK, OpOK
<1>4. ASSUME NEW q \in Proc, Bot(k.u[q].pc) = "plockdir" PROVE FALSE
  <2>1. HandOK(k.u[q], k.u[q].pc) BY DEF Good, Core, ProcOK
  <2>2. k.u[q].op = "dotdot" BY <1>4, <2>1 DEF HandOK
  <2>3. "dotdot" \in r.does[q] BY <2>2 DEF OpsOK, OpOK
  <2>4. q # p BY <1>2, <2>2
  <2>5. QED BY <1>3, <2>3, <2>4 DEF Separate
<1>5. QED BY <1>4 DEF NoneCrosses

\* After a step that leaves everything in order.
LEMMA StepDone ==
  ASSUME NEW r, r = run, r \in Scenarios, NEW k1, Become(k1), Good(k1, X0), NEW k2, Become(k2), OpsOK(k2, r)
  PROVE  InodeInv'
<1>1. Good(K, X0)' BY BecomeGood
<1>2. OpsOK(K, run)' BY BecomeOps
<1>3. (run \in Scenarios)' BY DEF Become
<1>4. QED BY <1>1, <1>2, <1>3 DEF InodeInv

\* Each step keeps the invariant.
LEMMA InodeStepInv ==
  ASSUME Separate, InodeInv, NEW p \in Proc, InodeStep(p) PROVE InodeInv'
<1>1. PICK k : k = K OBVIOUS
<1>2. PICK r : r = run OBVIOUS
<1>3. Good(k, X0) /\ OpsOK(k, r) /\ r \in Scenarios BY <1>1, <1>2 DEF InodeInv
<1>4. TextsIn(k, X0) BY NoTexts
<1>5. k.u = u BY <1>1, KFacts
<1>6. CASE Namei(p)
  <2>1. PICK k1 : Become(k1) /\ Good(k1, X0) BY <1>6, <1>1, <1>3, NameiGood
  <2>2. PICK k2 : Become(k2) /\ OpsOK(k2, r) BY <1>6, <1>1, <1>3, NameiOps, <1>2
  <2>3. QED BY <2>1, <2>2, <1>2, <1>3, StepDone
<1>7. CASE IgetAgain(p)
  <2>1. PICK k1 : Become(k1) /\ Good(k1, X0) BY <1>7, <1>1, <1>3, IgetAgainGood
  <2>2. PICK k2 : Become(k2) /\ OpsOK(k2, r) BY <1>7, <1>1, <1>3, IgetAgainOps
  <2>3. QED BY <2>1, <2>2, <1>2, <1>3, StepDone
<1>8. CASE Fsiread(p)
  <2>1. PICK k1 : Become(k1) /\ Good(k1, X0) BY <1>8, <1>1, <1>3, FsireadGood, <1>4
  <2>2. PICK k2 : Become(k2) /\ OpsOK(k2, r) BY <1>8, <1>1, <1>3, FsireadOps
  <2>3. QED BY <2>1, <2>2, <1>2, <1>3, StepDone
<1>9. CASE Dir(p)
  <2>0. At(p, "dir") /\ "dir" \in LastL BY <1>9 DEF Dir, LastL, PerhapsIp
  <2>01. Bot(k.u[p].pc) = "dir" BY <2>0, <1>1, <1>3, OpsAt
  <2>02. k.u[p].op \in DirOps BY <2>01, <1>3 DEF OpsOK, OpOK
  <2>1. PICK k1 : Become(k1) /\ Good(k1, X0) BY <1>9, <1>1, <1>3, DirGood, <2>02
  <2>2. PICK k2 : Become(k2) /\ OpsOK(k2, r) BY <1>9, <1>1, <1>3, DirOpsOK
  <2>3. QED BY <2>1, <2>2, <1>2, <1>3, StepDone
<1>10. CASE More(p)
  <2>1. PICK k1 : Become(k1) /\ Good(k1, X0) BY <1>10, <1>1, <1>3, MoreGood
  <2>2. PICK k2 : Become(k2) /\ OpsOK(k2, r) BY <1>10, <1>1, <1>3, MoreOps
  <2>3. QED BY <2>1, <2>2, <1>2, <1>3, StepDone
<1>11. CASE PlockDirAgain(p)
  <2>1. PICK k1 : Become(k1) /\ Good(k1, X0) BY <1>11, <1>1, <1>3, PlockDirAgainGood
  <2>2. PICK k2 : Become(k2) /\ OpsOK(k2, r) BY <1>11, <1>1, <1>3, PlockDirAgainOps
  <2>3. QED BY <2>1, <2>2, <1>2, <1>3, StepDone
<1>12. CASE PutLast(p)
  <2>1. PICK k1 : Become(k1) /\ Good(k1, X0) BY <1>12, <1>1, <1>3, PutLastGood
  <2>2. PICK k2 : Become(k2) /\ OpsOK(k2, r) BY <1>12, <1>1, <1>3, PutLastOps
  <2>3. QED BY <2>1, <2>2, <1>2, <1>3, StepDone
<1>13. CASE Got(p)
  <2>1. PICK k1 : Become(k1) /\ Good(k1, X0) BY <1>13, <1>1, <1>3, GotGood
  <2>2. PICK k2 : Become(k2) /\ OpsOK(k2, r) BY <1>13, <1>1, <1>3, GotOps
  <2>3. QED BY <2>1, <2>2, <1>2, <1>3, StepDone
<1>14. CASE Trunc(p)
  <2>1. PICK k1 : Become(k1) /\ Good(k1, X0) BY <1>14, <1>1, <1>3, TruncGood
  <2>2. PICK k2 : Become(k2) /\ OpsOK(k2, r) BY <1>14, <1>1, <1>3, TruncOps
  <2>3. QED BY <2>1, <2>2, <1>2, <1>3, StepDone
<1>15. CASE Open1(p)
  <2>1. PICK k1 : Become(k1) /\ Good(k1, X0) BY <1>15, <1>1, <1>3, Open1Good
  <2>2. PICK k2 : Become(k2) /\ OpsOK(k2, r) BY <1>15, <1>1, <1>3, Open1Ops
  <2>3. QED BY <2>1, <2>2, <1>2, <1>3, StepDone
<1>16. CASE Close(p)
  <2>1. PICK k1 : Become(k1) /\ Good(k1, X0) BY <1>16, <1>1, <1>3, CloseGood
  <2>2. PICK k2 : Become(k2) /\ OpsOK(k2, r) BY <1>16, <1>1, <1>3, CloseOps
  <2>3. QED BY <2>1, <2>2, <1>2, <1>3, StepDone
<1>17. CASE CloseLater(p)
  <2>1. PICK k1 : Become(k1) /\ Good(k1, X0) BY <1>17, <1>1, <1>3, CloseLaterGood
  <2>2. PICK k2 : Become(k2) /\ OpsOK(k2, r) BY <1>17, <1>1, <1>3, CloseLaterOps
  <2>3. QED BY <2>1, <2>2, <1>2, <1>3, StepDone
<1>18. CASE Fstrunc(p)
  <2>1. PICK k1 : Become(k1) /\ Good(k1, X0) BY <1>18, <1>1, <1>3, FstruncGood
  <2>2. PICK k2 : Become(k2) /\ OpsOK(k2, r) BY <1>18, <1>1, <1>3, FstruncOps
  <2>3. QED BY <2>1, <2>2, <1>2, <1>3, StepDone
<1>19. CASE Fsiupdat(p)
  <2>1. PICK k1 : Become(k1) /\ Good(k1, X0) BY <1>19, <1>1, <1>3, FsiupdatGood
  <2>2. PICK k2 : Become(k2) /\ OpsOK(k2, r) BY <1>19, <1>1, <1>3, FsiupdatOps
  <2>3. QED BY <2>1, <2>2, <1>2, <1>3, StepDone
<1>20. CASE Dormfile(p)
  <2>1. PICK k1 : Become(k1) /\ Good(k1, X0) BY <1>20, <1>1, <1>3, DormfileGood
  <2>2. PICK k2 : Become(k2) /\ OpsOK(k2, r) BY <1>20, <1>1, <1>3, DormfileOps
  <2>3. QED BY <2>1, <2>2, <1>2, <1>3, StepDone
<1>21. CASE Rmname(p)
  <2>1. PICK k1 : Become(k1) /\ Good(k1, X0) BY <1>21, <1>1, <1>3, RmnameGood
  <2>2. PICK k2 : Become(k2) /\ OpsOK(k2, r) BY <1>21, <1>1, <1>3, RmnameOps
  <2>3. QED BY <2>1, <2>2, <1>2, <1>3, StepDone
<1>22. CASE Putdir(p)
  <2>1. PICK k1 : Become(k1) /\ Good(k1, X0) BY <1>22, <1>1, <1>3, PutdirGood
  <2>2. PICK k2 : Become(k2) /\ OpsOK(k2, r) BY <1>22, <1>1, <1>3, PutdirOps
  <2>3. QED BY <2>1, <2>2, <1>2, <1>3, StepDone
<1>23. CASE Ialloc(p)
  <2>1. PICK k1 : Become(k1) /\ Good(k1, X0) BY <1>23, <1>1, <1>3, IallocGood
  <2>2. PICK k2 : Become(k2) /\ OpsOK(k2, r) BY <1>23, <1>1, <1>3, IallocOps
  <2>3. QED BY <2>1, <2>2, <1>2, <1>3, StepDone
<1>24. CASE Ialloc2(p)
  <2>1. PICK k1 : Become(k1) /\ Good(k1, X0) BY <1>24, <1>1, <1>3, Ialloc2Good
  <2>2. PICK k2 : Become(k2) /\ OpsOK(k2, r) BY <1>24, <1>1, <1>3, Ialloc2Ops
  <2>3. QED BY <2>1, <2>2, <1>2, <1>3, StepDone
<1>25. CASE Restock(p)
  <2>1. PICK k1 : Become(k1) /\ Good(k1, X0) BY <1>25, <1>1, <1>3, RestockGood, FiniteAssumption
  <2>2. PICK k2 : Become(k2) /\ OpsOK(k2, r) BY <1>25, <1>1, <1>3, RestockOps
  <2>3. QED BY <2>1, <2>2, <1>2, <1>3, StepDone
<1>26. CASE Domkfile(p)
  <2>1. PICK k1 : Become(k1) /\ Good(k1, X0) BY <1>26, <1>1, <1>3, DomkfileGood
  <2>2. PICK k2 : Become(k2) /\ OpsOK(k2, r) BY <1>26, <1>1, <1>3, DomkfileOps
  <2>3. QED BY <2>1, <2>2, <1>2, <1>3, StepDone
<1>27. CASE Mkinode(p)
  <2>1. PICK k1 : Become(k1) /\ Good(k1, X0) BY <1>27, <1>1, <1>3, MkinodeGood
  <2>2. PICK k2 : Become(k2) /\ OpsOK(k2, r) BY <1>27, <1>1, <1>3, MkinodeOps
  <2>3. QED BY <2>1, <2>2, <1>2, <1>3, StepDone
<1>28. CASE Mkname(p)
  <2>1. PICK k1 : Become(k1) /\ Good(k1, X0) BY <1>28, <1>1, <1>3, MknameGood
  <2>2. PICK k2 : Become(k2) /\ OpsOK(k2, r) BY <1>28, <1>1, <1>3, MknameOps
  <2>3. QED BY <2>1, <2>2, <1>2, <1>3, StepDone
<1>29. CASE Sync(p)
  <2>1. PICK k1 : Become(k1) /\ Good(k1, X0) BY <1>29, <1>1, <1>3, SyncGood
  <2>2. PICK k2 : Become(k2) /\ OpsOK(k2, r) BY <1>29, <1>1, <1>3, SyncOps
  <2>3. QED BY <2>1, <2>2, <1>2, <1>3, StepDone
<1>30. CASE Update0(p)
  <2>1. PICK k1 : Become(k1) /\ Good(k1, X0) BY <1>30, <1>1, <1>3, Update0Good
  <2>2. PICK k2 : Become(k2) /\ OpsOK(k2, r) BY <1>30, <1>1, <1>3, Update0Ops
  <2>3. QED BY <2>1, <2>2, <1>2, <1>3, StepDone
<1>31. CASE Update(p)
  <2>1. PICK k1 : Become(k1) /\ Good(k1, X0) BY <1>31, <1>1, <1>3, UpdateGood
  <2>2. PICK k2 : Become(k2) /\ OpsOK(k2, r) BY <1>31, <1>1, <1>3, UpdateOps
  <2>3. QED BY <2>1, <2>2, <1>2, <1>3, StepDone
<1>32. CASE Upput(p)
  <2>1. PICK k1 : Become(k1) /\ Good(k1, X0) BY <1>32, <1>1, <1>3, UpputGood, <1>4
  <2>2. PICK k2 : Become(k2) /\ OpsOK(k2, r) BY <1>32, <1>1, <1>3, UpputOps
  <2>3. QED BY <2>1, <2>2, <1>2, <1>3, StepDone
<1>33. CASE Fson(p)
  <2>1. PICK k1 : Become(k1) /\ Good(k1, X0) BY <1>33, <1>1, <1>3, FsonGood
  <2>2. PICK k2 : Become(k2) /\ OpsOK(k2, r) BY <1>33, <1>1, <1>3, FsonOps
  <2>3. QED BY <2>1, <2>2, <1>2, <1>3, StepDone
<1>34. CASE Fson2(p)
  <2>1. PICK k1 : Become(k1) /\ Good(k1, X0) BY <1>34, <1>1, <1>3, Fson2Good
  <2>2. PICK k2 : Become(k2) /\ OpsOK(k2, r) BY <1>34, <1>1, <1>3, Fson2Ops
  <2>3. QED BY <2>1, <2>2, <1>2, <1>3, StepDone
<1>35. CASE Fson3(p)
  <2>1. PICK k1 : Become(k1) /\ Good(k1, X0) BY <1>35, <1>1, <1>3, Fson3Good, <1>4
  <2>2. PICK k2 : Become(k2) /\ OpsOK(k2, r) BY <1>35, <1>1, <1>3, Fson3Ops
  <2>3. QED BY <2>1, <2>2, <1>2, <1>3, StepDone
<1>36. CASE Funmount(p)
  <2>1. PICK k1 : Become(k1) /\ Good(k1, X0) BY <1>36, <1>1, <1>3, FunmountGood
  <2>2. PICK k2 : Become(k2) /\ OpsOK(k2, r) BY <1>36, <1>1, <1>3, FunmountOps
  <2>3. QED BY <2>1, <2>2, <1>2, <1>3, StepDone
<1>37. CASE Fsoff(p)
  <2>0. At(p, "fsoff") /\ "fsoff" \in LastL BY <1>37 DEF Fsoff, LastL, WithRip
  <2>01. Bot(k.u[p].pc) = "fsoff" BY <2>0, <1>1, <1>3, OpsAt
  <2>02. NoneCrosses(k) BY <2>01, <1>3, UnmountAlone
  <2>1. PICK k1 : Become(k1) /\ Good(k1, X0) BY <1>37, <1>1, <1>3, FsoffGood, <2>02
  <2>2. PICK k2 : Become(k2) /\ OpsOK(k2, r) BY <1>37, <1>1, <1>3, FsoffOps
  <2>3. QED BY <2>1, <2>2, <1>2, <1>3, StepDone
<1>38. CASE UnhangLater(p)
  <2>0. At(p, "unhang") /\ "unhang" \in LastL BY <1>38 DEF UnhangLater, LastL, WithRip
  <2>01. Bot(k.u[p].pc) = "unhang" BY <2>0, <1>1, <1>3, OpsAt
  <2>02. NoneCrosses(k) BY <2>01, <1>3, UnmountAlone
  <2>1. PICK k1 : Become(k1) /\ Good(k1, X0) BY <1>38, <1>1, <1>3, UnhangLaterGood, <2>02
  <2>2. PICK k2 : Become(k2) /\ OpsOK(k2, r) BY <1>38, <1>1, <1>3, UnhangLaterOps
  <2>3. QED BY <2>1, <2>2, <1>2, <1>3, StepDone
<1>39. CASE Iputrip(p)
  <2>1. PICK k1 : Become(k1) /\ Good(k1, X0) BY <1>39, <1>1, <1>3, IputripGood, <1>4
  <2>2. PICK k2 : Become(k2) /\ OpsOK(k2, r) BY <1>39, <1>1, <1>3, IputripOps
  <2>3. QED BY <2>1, <2>2, <1>2, <1>3, StepDone
<1>40. CASE Fsoffend(p)
  <2>1. PICK k1 : Become(k1) /\ Good(k1, X0) BY <1>40, <1>1, <1>3, FsoffendGood
  <2>2. PICK k2 : Become(k2) /\ OpsOK(k2, r) BY <1>40, <1>1, <1>3, FsoffendOps
  <2>3. QED BY <2>1, <2>2, <1>2, <1>3, StepDone
<1>41. QED
  BY <1>6, <1>7, <1>8, <1>9, <1>10, <1>11, <1>12, <1>13, <1>14, <1>15, <1>16, <1>17, <1>18, <1>19, <1>20,
     <1>21, <1>22, <1>23, <1>24, <1>25, <1>26, <1>27, <1>28, <1>29, <1>30, <1>31, <1>32, <1>33, <1>34, <1>35,
     <1>36, <1>37, <1>38, <1>39, <1>40
  DEF InodeStep

\* A stutter keeps it.
LEMMA InodeStays == ASSUME InodeInv, UNCHANGED vars PROVE InodeInv'
<1>1. K' = K /\ run' = run BY DEF vars, K
<1>2. QED BY <1>1 DEF InodeInv

\* What the program keeps true of the inode table, its locks and sleepers, the free list and the
\* mounted file system: the inductive invariant of the actions of InodeCache, for any number of
\* processes, slots, files and steps.
THEOREM InodeInvariant == ASSUME Separate PROVE Spec => []InodeInv
<1>1. Init => InodeInv BY InitGood, InitOps DEF InodeInv, Init
<1>2. InodeInv /\ [Next]_vars => InodeInv' BY InodeStepInv, InodeStays DEF Next
<1>3. QED BY <1>1, <1>2, PTL DEF Spec

\* The sets the properties count are those of the invariant: who updates,
LEMMA UpIs ==
  ASSUME NEW p \in Proc, NEW s \in Slot
  PROVE  Up(u[p]) = s <=> Updating(p) /\ u[p].up = s
<1>1. s # 0 BY SlotFacts
<1>2. Top(u[p].pc) = "upput" <=> Updating(p) BY DEF Top, Updating
<1>3. QED BY <1>1, <1>2 DEF Up

\* who walks,
LEMMA WalkIs ==
  ASSUME NEW p \in Proc, u[p].pc \in Seq(Label), StackOK(u[p].pc)
  PROVE  Walk(u[p]) <=> Walking(p)
<1> DEFINE pc == u[p].pc
<1>1. DOMAIN pc = 1..Len(pc) /\ Len(pc) \in Nat BY DEF StackOK
<1>2. {"got", "more"} \subseteq LastL /\ "" \notin {"got", "more"} BY DEF LastL, WithDip
<1>3. ASSUME Walk(u[p]) PROVE Walking(p)
  <2>1. pc # <<>> BY <1>2, <1>3 DEF Walk, Bot
  <2>2. Len(pc) \in DOMAIN pc /\ pc[Len(pc)] \in {"got", "more"} BY <1>1, <1>3, <2>1 DEF Walk, Bot
  <2>3. QED BY <2>2 DEF Walking
<1>4. ASSUME Walking(p) PROVE Walk(u[p])
  <2>1. PICK i \in 1..Len(pc) : pc[i] \in {"got", "more"} BY <1>1, <1>4 DEF Walking
  <2>2. i = Len(pc) BY <1>2, <2>1 DEF StackOK
  <2>3. pc # <<>> BY <2>1, <1>1
  <2>4. QED BY <2>1, <2>2, <2>3 DEF Walk, Bot
<1>5. QED BY <1>3, <1>4

\* who has locked a slot.
LEMMA HoldersAre ==
  ASSUME InodeInv, NEW s \in Slot PROVE Holders(s) = {p \in Proc : HoldP(u[p], s)}
<1>1. ASSUME NEW p \in Proc PROVE Walk(u[p]) <=> Walking(p)
  <2>1. Types(K) /\ ProcOK(K.u[p]) /\ K.u = u BY DEF InodeInv, Good, Core, K
  <2>2. u[p].pc \in Seq(Label) /\ StackOK(u[p].pc) BY <2>1 DEF Types, UsersOK, UserOK, ProcOK, HandOK
  <2>3. QED BY <2>2, WalkIs
<1>2. \A p \in Proc : Up(u[p]) = s <=> Updating(p) /\ u[p].up = s BY UpIs
<1>3. QED BY <1>1, <1>2 DEF Holders, HoldP

\* An inode number is in the table once, and the free list holds the slots not in use, each
\* once: iget searches before it takes a slot, idec takes the inode out before it frees one.
THEOREM InodeOneSlot == ASSUME Separate PROVE Spec => []OneSlotPerInode
<1>1. ASSUME InodeInv PROVE OneSlotPerInode
  <2>0. TableInv(K) /\ Types(K) /\ K.node = node /\ K.freel = freel BY <1>1 DEF InodeInv, Good, Core, K
  <2> DEFINE n == node
             l == freel
             S == {l[i] : i \in DOMAIN l}
  <2>1. l \in Seq(Slot) /\ DOMAIN l = 1..Len(l) /\ Len(l) \in Nat BY <2>0 DEF Types
  <2>2. /\ \A s, t \in Slot : s # t /\ n[s].ino # "none" => n[s].ino # n[t].ino
        /\ \A i \in 1..Len(l) : n[l[i]].ino = "none"
        /\ \A s \in Slot : n[s].ino = "none" => \E i \in 1..Len(l) : l[i] = s
        /\ \A i, j \in 1..Len(l) : l[i] = l[j] => i = j
        /\ \A s \in Slot : n[s].ino = "none" => n[s].count = 0
    BY <2>0 DEF TableInv
  <2> HIDE DEF n, l
  <2>3. \A i \in 1..Len(l) : l[i] \in Slot BY <2>1
  <2>4. {s \in Slot : n[s].ino = "none"} = S BY <2>1, <2>2, <2>3
  <2>5. Len(l) = Cardinality(S)
    <3>1. l \in [1..Len(l) -> S] BY <2>1
    <3>2. l \in Injection(1..Len(l), S) BY <3>1, <2>2 DEF Injection, IsInjective
    <3>3. l \in Surjection(1..Len(l), S) BY <3>1, <2>1 DEF Surjection
    <3>4. ExistsBijection(1..Len(l), S) BY <3>2, <3>3 DEF Bijection, ExistsBijection
    <3>5. QED BY <3>4, <2>1, FS_CountingElements
  <2>6. QED BY <2>2, <2>4, <2>5 DEF OneSlotPerInode, n, l
<1>2. Spec => []InodeInv BY InodeInvariant
<1>3. QED BY <1>1, <1>2, PTL

\* Nobody sleeps for the lock of an inode that is free or will be dropped without a wakeup, or
\* for a list of free inodes nobody is filling: prele and the end of the scan call everyone.
THEOREM InodeSleepers == ASSUME Separate PROVE Spec => []NoInodeSleeperForgotten
<1>1. ASSUME InodeInv PROVE NoInodeSleeperForgotten
  <2>1. SleepInv(K) /\ K.node = node /\ K.u = u /\ K.fs = fs BY <1>1 DEF InodeInv, Good, Core, K
  <2>2. QED BY <2>1 DEF SleepInv, NoInodeSleeperForgotten
<1>2. Spec => []InodeInv BY InodeInvariant
<1>3. QED BY <1>1, <1>2, PTL

\* A file system that is not mounted has no inode with a reference in core: unmount refuses
\* while anyone has one, and who walks in holds one.
THEOREM InodeUnmounted == ASSUME Separate PROVE Spec => []UnmountedIsGone
<1>1. ASSUME InodeInv PROVE UnmountedIsGone
  <2> DEFINE n == node
  <2>1. MountInv(K) /\ OwnerInv(K) /\ TableInv(K) /\ (\A q \in Proc : PathOK(K, K.u[q])) /\ Types(K)
    BY <1>1 DEF InodeInv, Good, Core, Mounts
  <2>2. K.node = n /\ K.u = u /\ K.fs = fs BY DEF K
  <2>3. SUFFICES ASSUME ~fs.mdev, NEW s \in Slot, n[s].ino \notin {"mp", "none"} PROVE FALSE
    BY DEF UnmountedIsGone
  <2>4. n[s].ino \in Inos BY <2>1, <2>2 DEF Types, NodesOK, NodeOK
  <2>5. \A m \in Slot : n[m].mroot = 0 BY <2>1, <2>2, <2>3 DEF MountInv
  <2>6. n[s].ino \notin InFs BY <2>1, <2>2, <2>5 DEF MountInv
  <2>7. n[s].ino = "root" BY <2>3, <2>4, <2>6 DEF Inos, InFs
  <2>8. s # 0 BY SlotFacts
  <2>9. PICK p \in Proc : OwnsRoot(u[p], s) BY <2>1, <2>2, <2>5, <2>7, <2>8 DEF OwnerInv
  <2>10. Bot(u[p].pc) \in Owner BY <2>9 DEF OwnsRoot
  <2>11. QED BY <2>1, <2>2, <2>3, <2>10 DEF PathOK
<1>2. Spec => []InodeInv BY InodeInvariant
<1>3. QED BY <1>1, <1>2, PTL

=============================================================================
