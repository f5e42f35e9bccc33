-------------------------- MODULE InodePathProofs --------------------------
(***************************************************************************)
(* The steps of InodeCache, continued: walking a path name, making a file, *)
(* and mounting.                                                           *)
(***************************************************************************)
EXTENDS InodeStepProofs

\* A lock on an inode of which p, that has not locked it, has the only reference.
LEMMA NotLocked ==
  ASSUME NEW k, NEW X, Good(k, X), NEW p \in Proc, NEW s \in Slot, RefP(k.u[p], s) # 0, ~HoldP(k.u[p], s),
         k.node[s].count = 1
  PROVE  ~k.node[s].lock
<1> SUFFICES ASSUME k.node[s].lock PROVE FALSE OBVIOUS
<1>1. Core(k, X) /\ Mounts(k) BY DEF Good
<1>2. PICK q \in Proc : HoldP(k.u[q], s) BY <1>1 DEF Core, LockInv
<1>3. q # p BY <1>2
<1> DEFINE c == k.u[q]
           a == RefP(k.u[p], s)
           d == RefP(c, s)
           m == MountRefs(k.node, s)
           x == X[s]
<1>4. 1 >= a + d + m + x /\ a \in Nat /\ d \in Nat /\ m \in Nat /\ x \in Nat
  <2>1. k.node[s].count >= a + d + m + x BY <1>1, <1>3, CountTwo
  <2>2. QED BY <1>1, <2>1, RefNat, MountNat DEF Core, Texts
<1>5. a # 0 OBVIOUS
<1> HIDE DEF a, d, m, x
<1>6. d = 0 /\ m = 0 BY <1>4, <1>5
<1>7. c.ip # s /\ c.dip # s /\ c.put # s /\ Up(c) # s /\ Rip(c) # s BY <1>6, HandRef DEF d
<1>8. c.rip = s /\ c.mip # 0 BY <1>2, <1>7 DEF HoldP, Rip
<1>9. s # 0 BY SlotFacts
<1>10. Bot(c.pc) \in WithRip /\ Bot(c.pc) \in WithMip /\ c.mip \in Slot
  <2>1. HandOK(c, c.pc) BY <1>1 DEF Core, ProcOK
  <2>2. c.mip \in Opt BY <1>1, HandTypes DEF Core
  <2>3. QED BY <2>1, <2>2, <1>8, <1>9 DEF HandOK, Opt
<1>11. Bot(c.pc) \in {"fsoff", "unhang"} BY <1>10 DEF WithRip, WithMip
<1>12. k.node[c.mip].mroot = s BY <1>1, <1>8, <1>11 DEF Mounts, PathOK
<1>13. m # 0 BY <1>10, <1>12, MountPos DEF m
<1>14. QED BY <1>6, <1>13

\* A reference less, of an inode that stays.
LEMMA LessGood ==
  ASSUME NEW k, NEW k0, NEW k1, NEW p \in Proc, NEW s \in Slot, NEW rest \in Seq(Label), NEW X, Good(k, X),
         Only(k, k0, p), k0.u[p].chan = Awake, HandOK(k0.u[p], rest), Top(rest) \notin LeafL,
         k0.u[p].dip = 0, Rip(k0.u[p]) = 0,
         \A t \in Slot : RefP(k.u[p], t) = RefQ(k0.u[p], t) + B(s = t),
         \A t \in Slot : HoldP(k.u[p], t) <=> HoldQ(k0.u[p], t, Bot(rest)),
         PathAt(k, k0.u[p], Bot(rest)), Bot(rest) \notin Owner \cup {"unhang"}, Bot(k.u[p].pc) \notin Owner,
         k.node[s].count # 1, Less(k0, k1, p, s, rest)
  PROVE  Good(k1, X)
<1> DEFINE c == k.u[p]
           c0 == k0.u[p]
           c1 == k1.u[p]
<1>0. Core(k, X) /\ Mounts(k) /\ Types(k) /\ Texts(X) /\ PathOK(k, c) BY DEF Good, Core, Mounts
<1>1. /\ k0.node = k.node /\ k0.freel = k.freel /\ k0.fs = k.fs /\ \A q \in Proc \ {p} : k0.u[q] = k.u[q]
  BY DEF Only
<1>2. /\ Types(k1) /\ SameRest(k0, k1) /\ NodeBut(k, k1, s)
      /\ KeepN(k.node[s], k1.node[s], {"count"}) /\ k1.node[s].count = k.node[s].count - 1
      /\ \A q \in Proc \ {p} : k1.u[q] = k0.u[q]
      /\ GoneTo(c0, c1, rest)
  BY <1>1 DEF Less, NodeBut
<1>2a. /\ HandOK(c0, rest) /\ Top(rest) \notin LeafL /\ c0.dip = 0 /\ c0.chan = Awake
       /\ \A t \in Slot : RefP(c, t) = RefQ(c0, t) + B(s = t)
       /\ \A t \in Slot : HoldP(c, t) <=> HoldQ(c0, t, Bot(rest))
       /\ PathAt(k, c0, Bot(rest)) /\ Bot(c.pc) \notin Owner
  OBVIOUS
<1> HIDE DEF c, c0, c1
<1>3. /\ Carries(c0, c1, rest) /\ c1.put = 0 /\ c1.pc = rest
      /\ HandOK(c1, c1.pc) /\ Bot(c1.pc) = Bot(rest) /\ Up(c1) = 0
      /\ \A t \in Slot : RefP(c1, t) = RefQ(c0, t) /\ (HoldP(c1, t) <=> HoldQ(c0, t, Bot(rest)))
  BY <1>2, <1>2a, GoneHands
<1>4. /\ k1.node[s].ino = k.node[s].ino /\ k1.node[s].lock = k.node[s].lock /\ k1.node[s].want = k.node[s].want
      /\ k1.node[s].mroot = k.node[s].mroot /\ k1.node[s].mpoint = k.node[s].mpoint
  <2>1. KeepN(k.node[s], k1.node[s], {"count"}) BY <1>2
  <2>2. QED BY ONLY <2>1 DEF KeepN, NodeF
<1>5. \A t \in Slot : /\ k1.node[t].ino = k.node[t].ino /\ k1.node[t].lock = k.node[t].lock
                      /\ k1.node[t].want = k.node[t].want /\ k1.node[t].mroot = k.node[t].mroot
                      /\ k1.node[t].mpoint = k.node[t].mpoint
                      /\ t # s => k1.node[t].count = k.node[t].count
  BY <1>2, <1>4 DEF NodeBut
<1>6. Others(k, k1, p) BY <1>1, <1>2 DEF Others, KeepU
<1>7. \A t \in Slot : MountRefs(k1.node, t) = MountRefs(k.node, t)
  <2>1. \A t \in Slot : k1.node[t].mroot = k.node[t].mroot BY <1>5
  <2>2. QED BY ONLY <2>1, SameMountRefs
<1>8. k.node[s].count \in Nat /\ k.node[s].count > 1 /\ k1.node[s].count # 0
  <2>1. RefQ(c0, s) \in Nat BY DEF RefQ, B
  <2>2. RefP(c, s) = RefQ(c0, s) + B(s = s) BY <1>2a
  <2>2a. B(s = s) = 1 BY DEF B
  <2>3. RefP(c, s) # 0 BY <2>1, <2>2, <2>2a
  <2>4. k.node[s].count \in Nat \ {0} BY <1>0, <2>3, RefIno DEF c
  <2>5. k.node[s].count # 1 OBVIOUS
  <2> DEFINE n == k.node[s].count
  <2>6. n \in Nat /\ n # 0 /\ n # 1 BY <2>4, <2>5
  <2> HIDE DEF n
  <2>7. n \in Nat /\ n > 1 /\ n - 1 # 0 BY <2>6
  <2>8. QED BY <2>7, <1>2 DEF n
<1>9. Ledger(k, k1, p, X, X)
  <2> SUFFICES ASSUME NEW t \in Slot
               PROVE  k1.node[t].count - RefP(k1.u[p], t) - MountRefs(k1.node, t) - X[t]
                    = k.node[t].count - RefP(k.u[p], t) - MountRefs(k.node, t) - X[t]
    BY DEF Ledger
  <2> DEFINE y == B(s = t)
             r == RefP(c, t)
             r1 == RefP(c1, t)
             m == MountRefs(k.node, t)
             m1 == MountRefs(k1.node, t)
             n == k.node[t].count
             n1 == k1.node[t].count
             x == X[t]
  <2>1. r = r1 + y /\ m1 = m /\ r1 \in Int /\ m \in Int /\ x \in Int /\ y \in Int
    <3>1. y \in Int BY DEF B
    <3>2. QED BY <1>0, <1>2a, <1>3, <1>7, <3>1, HandRef, MountNat DEF Texts
  <2>2. n1 = n - y /\ n \in Int
    <3>1. n \in Int BY <1>0 DEF Types, NodesOK, NodeOK
    <3>2. CASE t = s BY <3>2, <1>2, <3>1 DEF B
    <3>3. CASE t # s BY <3>3, <3>1, <1>5 DEF B
    <3>4. QED BY <3>1, <3>2, <3>3
  <2> HIDE DEF y, r, r1, m, m1, n, n1, x
  <2>3. n1 - r1 - m1 - x = n - r - m - x BY ONLY <2>1, <2>2
  <2>4. QED BY <2>3 DEF r, r1, m, m1, n, n1, x, c, c1
<1>10. Locking(k, k1, p)
  <2>1. \A t \in Slot : HoldP(c1, t) <=> HoldP(c, t) BY <1>2a, <1>3
  <2>2. \A t \in Slot : HoldP(c, t) => k.node[t].lock BY <1>0 DEF Core, LockInv, c
  <2>3. QED BY <2>1, <2>2, <1>5 DEF Locking, c, c1
<1>11. c1.chan = Awake
  <2>1. CASE rest = <<>> BY <1>2, <2>1 DEF GoneTo
  <2>2. CASE rest # <<>> BY <1>2, <1>2a, <2>2 DEF GoneTo, UserF
  <2>3. QED BY <2>1, <2>2
<1>12. k1.fs = k.fs /\ k1.freel = k.freel BY <1>1, <1>2 DEF SameRest
<1>13. Waking(k, k1, p)
  <2>1. \A t \in Slot : c1.chan # On(t) BY <1>11, AwakeOn
  <2>2. c1.chan # <<"ilock", 0>> BY <1>11 DEF Awake
  <2>3. QED BY <2>1, <2>2, <1>5, <1>11, <1>12 DEF Waking, c1
<1>14. Stays(k, k1)
  <2>1. SameSlot(k.node[s], k1.node[s]) BY <1>4, <1>8 DEF SameSlot
  <2>2. \A t \in Slot : SameSlot(k.node[t], k1.node[t]) BY <1>5, <2>1 DEF SameSlot
  <2>3. QED BY <1>12, <2>2 DEF Stays
<1>15. c1.ip = c0.ip /\ c1.dip = 0 /\ c1.rip = c0.rip BY <1>2a, <1>3 DEF Carries
<1>16. ProcOK(c1)
  <2>1. c1.rip # 0 => c1.rip # Up(c1) BY <1>3
  <2>2. c1.ip # 0 => c1.ip # c1.put /\ (c1.ip # c1.dip \/ Walk(c1)) BY <1>3, <1>15
  <2>3. QED BY <1>3, <2>1, <2>2 DEF ProcOK, Apart
<1>17. Plain(k, k1, p, X, X)
  <2>1. \A t \in Slot : /\ k1.node[t].mroot = k.node[t].mroot /\ k1.node[t].mpoint = k.node[t].mpoint
                        /\ k1.node[t].ino = k.node[t].ino \/ k1.node[t].ino = "none"
                        /\ X[t] > X[t] => HoldP(k1.u[p], t)
    BY <1>0, <1>5 DEF Texts
  <2>2. Gains(k.u[p], k1.u[p])
    <3> SUFFICES ASSUME NEW t \in Slot, RefP(c1, t) # 0 PROVE RefP(c, t) # 0 BY DEF Gains, c, c1
    <3>1. RefQ(c0, t) \in Nat /\ B(s = t) \in Nat BY DEF RefQ, B
    <3>2. QED BY <3>1, <1>2a, <1>3
  <2>3. k.fs.mdev => k1.fs.mdev BY <1>12
  <2>4. Bot(c1.pc) \notin Owner BY <1>3
  <2>5. \A t \in Slot : ~OwnsRoot(c, t) BY <1>2a DEF OwnsRoot
  <2>6. QED BY <2>1, <2>2, <2>3, <2>4, <2>5 DEF Plain, c, c1
<1>18. PathAt(k, c1, Bot(c1.pc)) BY <1>2a, <1>3, CarriesPath
<1>19. RootOwned(k, c1)
  <2> SUFFICES ASSUME NEW t \in Slot, RefP(c1, t) # 0, k.node[t].ino = "root", ~IsMounted(k) PROVE FALSE
    BY DEF RootOwned
  <2>1. RefQ(c0, t) \in Nat /\ B(s = t) \in Nat BY DEF RefQ, B
  <2>2. RefP(c, t) # 0 BY <2>1, <1>2a, <1>3
  <2>3. QED BY <2>2, <1>0, <1>2a DEF PathOK
<1>20. Empty(k1, c1) BY <1>3 DEF Empty
<1>21. PutOK(k1, c1) BY <1>3 DEF PutOK
<1>22. Bot(c1.pc) \notin Owner BY <1>3
<1>23. QED BY <1>2, <1>6, <1>9, <1>10, <1>13, <1>14, <1>16, <1>17, <1>18, <1>19, <1>20, <1>21, <1>22, StepGood DEF c1

\* namei gives up a directory that it has not locked (idec).
LEMMA IdecGood ==
  ASSUME NEW k, NEW p \in Proc, NEW rest \in Seq(Label), NEW X, NEW l \in {"more", "got"}, Good(k, X),
         LastFacts(k, p, l), Top(rest) \notin LeafL, Bot(rest) \notin Owner \cup {"unhang", "got", "more"},
         \A c0 : KeepU(k.u[p], c0, {"dip"}) /\ c0.dip = 0 => HandOK(c0, rest) /\ PathAt(k, c0, Bot(rest))
  PROVE  Good(Idec([k EXCEPT !.u[p].dip = 0], p, k.u[p].dip, rest), X)
<1> DEFINE c == k.u[p]
           s == c.dip
           k0 == [k EXCEPT !.u[p].dip = 0]
           c0 == k0.u[p]
           k1 == Idec(k0, p, s, rest)
<1>1. /\ Types(k) /\ c.put = 0 /\ Up(c) = 0 /\ c.dip # 0 /\ c.rip = 0 /\ c.mip = 0 /\ c.chan = Awake
      /\ Bot(c.pc) = l /\ PathOK(k, c) /\ Apart(c)
  BY DEF LastFacts, WithDip, WithRip, WithMip
<1>2. Types(k0) /\ Only(k, k0, p) /\ KeepU(c, k0.u[p], {"dip"}) /\ k0.u[p].dip = 0
  <2>1. Types(k) BY <1>1
  <2>2. 0 \in Opt BY SlotFacts
  <2> HIDE DEF s, c0, k1
  <2>3. QED BY ONLY <2>1, <2>2, SetDip, p \in Proc DEF c
<1> HIDE DEF k0
<1>3. s \in Slot /\ Core(k, X) BY <1>1, HandTypes DEF Good
<1>4. HandOK(c0, rest) /\ PathAt(k, c0, Bot(rest)) BY <1>2
<1>5. l \notin Owner /\ l \in {"got", "more"} BY DEF Owner
<1> HIDE DEF c, s, k1, c0
<1>6. /\ c0.ip = c.ip /\ c0.fd = c.fd /\ c0.rip = 0 /\ c0.mip = 0 /\ c0.dip = 0 /\ c0.chan = Awake
  BY ONLY <1>1, <1>2 DEF KeepU, UserF, c0
<1>7. Rip(c0) = 0 /\ Rip(c) = 0 BY <1>1, <1>6 DEF Rip
<1>8. \A t \in Slot : RefP(c, t) = RefQ(c0, t) + B(s = t)
  <2> SUFFICES ASSUME NEW t \in Slot PROVE RefP(c, t) = RefQ(c0, t) + B(s = t) OBVIOUS
  <2>1. t # 0 BY SlotFacts
  <2>2. B(0 = t) = 0 BY <2>1 DEF B
  <2>3. RefP(c, t) = B(c.ip = t) + B(s = t) + B(c.fd = t) + 0 + 0 + 0 BY <1>1, <1>7, <2>2 DEF RefP, s
  <2>4. RefQ(c0, t) = B(c.ip = t) + 0 + B(c.fd = t) + 0 BY <1>6, <1>7, <2>2 DEF RefQ
  <2> DEFINE x == B(c.ip = t)  y == B(s = t)  z == B(c.fd = t)
  <2>5. x \in Nat /\ y \in Nat /\ z \in Nat BY DEF B
  <2> HIDE DEF x, y, z
  <2>6. x + y + z + 0 + 0 + 0 = (x + 0 + z + 0) + y BY ONLY <2>5
  <2>7. QED BY <2>3, <2>4, <2>6 DEF x, y, z
<1>9. \A t \in Slot : HoldP(c, t) <=> HoldQ(c0, t, Bot(rest))
  <2> SUFFICES ASSUME NEW t \in Slot PROVE HoldP(c, t) <=> HoldQ(c0, t, Bot(rest)) OBVIOUS
  <2>1. t # 0 BY SlotFacts
  <2>2. HoldP(c, t) <=> c.ip = t BY <2>1, <1>1, <1>5 DEF HoldP, Walk
  <2>3. HoldQ(c0, t, Bot(rest)) <=> c.ip = t BY <2>1, <1>6 DEF HoldQ
  <2>4. QED BY <2>2, <2>3
<1>10. RefP(c, s) # 0 BY <1>3, HandRef DEF s
<1>11. k.node[s].ino # "none" /\ k.node[s].count \in Nat \ {0} BY <1>3, <1>10, RefIno DEF c
<1>12. k0.node = k.node /\ k0.fs = k.fs /\ k0.freel = k.freel BY <1>2 DEF Only
<1>13. \/ k0.node[s].count = 1 /\ (Busy(k0, k1, p, s, rest) \/ Freed(k0, k1, p, s, rest))
       \/ k0.node[s].count # 1 /\ Less(k0, k1, p, s, rest)
  <2>1. k0.node[s].ino # "none" /\ k0.node[s].count # 0 BY <1>11, <1>12
  <2>2. k0.u[p].chan = Awake BY <1>6 DEF c0
  <2>3. QED BY <1>2, <1>3, <2>1, <2>2, IdecEff DEF k1
<1>14. CASE k.node[s].count # 1
  <2>1. Less(k0, k1, p, s, rest) BY <1>12, <1>13, <1>14
  <2>2. Bot(c.pc) \notin Owner BY <1>1, <1>5
  <2>3. Good(k1, X) BY <1>2, <1>3, <1>4, <1>6, <1>7, <1>8, <1>9, <1>14, <2>1, <2>2, LessGood DEF c, c0
  <2>4. QED BY <2>3 DEF k1, k0, s, c
<1>15. CASE k.node[s].count = 1
  <2>1. Prep(k, k0, p, s)
    <3>1. \A t \in Slot \ {s} : KeepN(k.node[t], k0.node[t], Dull) BY <1>12 DEF KeepN
    <3>1a. KeepN(k.node[s], k0.node[s], Dull \cup {"lock", "want"}) BY <1>12 DEF KeepN
    <3>1b. k0.fs.ilock = k.fs.ilock BY <1>12
    <3>2. Others(k, k0, p) BY <1>2, OnlyFacts
    <3>3. k0.u[p].chan = Awake BY <1>6 DEF c0
    <3>4. \A q \in Proc \ {p} : k0.u[q].chan = On(s) /\ k.node[s].lock /\ k.node[s].want => k0.node[s].want
      BY <1>12
    <3>5. QED BY ONLY <1>2, <1>12, <3>1, <3>1a, <3>1b, <3>2, <3>3, <3>4 DEF Prep
  <2>2. Given(k, k0, p, s, rest)
    <3>1. c0.ip # 0 => c0.ip # c0.dip BY <1>6
    <3>2. QED BY <1>4, <1>8, <1>9, <3>1 DEF Given, c, c0
  <2>3. ~HoldQ(c0, s, Bot(rest))
    <3>1. c.ip # s
      <4> SUFFICES ASSUME c.ip = s PROVE FALSE OBVIOUS
      <4> DEFINE a == RefQ(c0, s)
      <4>1. RefP(c, s) = a + B(s = s) /\ B(s = s) = 1 BY <1>3, <1>8 DEF B
      <4>2. a \in Nat BY DEF a, RefQ, B
      <4>3. a # 0 BY <1>3, <1>6, QEmpty DEF a
      <4>4. k.node[s].count >= RefP(c, s) + MountRefs(k.node, s) + X[s] BY <1>3, CountAtLeast DEF c
      <4>5. MountRefs(k.node, s) \in Nat /\ X[s] \in Nat BY <1>3, MountNat DEF Core, Texts
      <4> DEFINE m == MountRefs(k.node, s)  x == X[s]
      <4>6. 1 >= (a + 1) + m + x /\ m \in Nat /\ x \in Nat BY <4>1, <4>4, <4>5, <1>15
      <4> HIDE DEF a, m, x
      <4>7. QED BY ONLY <4>2, <4>3, <4>6
    <3>2. s # 0 BY <1>3, SlotFacts
    <3>3. QED BY <3>1, <3>2, <1>6 DEF HoldQ
  <2>4. ~k.node[s].lock
    <3>1. ~HoldP(c, s) BY <2>3, <1>3, <1>9
    <3>2. QED BY <3>1, <1>3, <1>10, <1>15, NotLocked DEF c
  <2>5. GiveLock(k, k0, p, s, rest) BY <2>3, <2>4 DEF GiveLock, c0
  <2>6. Onward(k, k0, p, s, rest)
    <3>1. Bot(k.u[p].pc) \notin Owner BY <1>1, <1>5 DEF c
    <3>2. PathAt(k, k0.u[p], Bot(rest)) BY <1>4 DEF c0
    <3>3. QED BY <3>1, <3>2, <1>12 DEF Onward
  <2>7. Gave(k0, k1, p, s, rest) BY <1>12, <1>13, <1>15 DEF Gave
  <2>8. Good(k1, X) BY <1>3, <2>1, <2>2, <2>5, <2>6, <2>7, GiveGood
  <2>9. QED BY <2>8 DEF k1, k0, s, c
<1>16. QED BY <1>14, <1>15

\* Only dip is another.
LEMMA DipOff ==
  ASSUME NEW c, NEW c0, KeepU(c, c0, {"dip"})
  PROVE  /\ c0.ip = c.ip /\ c0.put = c.put /\ c0.up = c.up /\ c0.rip = c.rip /\ c0.mip = c.mip /\ c0.fd = c.fd
         /\ c0.fino = c.fino /\ c0.op = c.op /\ c0.name = c.name /\ c0.key = c.key /\ c0.pc = c.pc /\ c0.chan = c.chan
BY DEF KeepU, UserF

\* The next part of the path name.
LEMMA MoreGood ==
  ASSUME NEW k, k = K, NEW X, Good(k, X), NEW p \in Proc, More(p)
  PROVE  \E k1 : Become(k1) /\ Good(k1, X)
<1> DEFINE c == k.u[p]
           rest == <<"dir">>
<1>0. u = k.u /\ node = k.node /\ K = k BY KFacts
<1>1. At(p, "more") /\ Become(Idec([k EXCEPT !.u[p].dip = 0], p, c.dip, rest)) BY <1>0 DEF More
<1>2. "more" \in LastL /\ "dir" \in LastL BY DEF LastL, WithDip, PerhapsIp
<1>3. LastFacts(k, p, "more") BY <1>1, <1>2, LastAt
<1>4. /\ rest \in Seq(Label) /\ rest # <<>> /\ StackOK(rest) /\ Top(rest) = "dir" /\ Bot(rest) = "dir"
      /\ Top(rest) \notin LeafL
  BY <1>2, LastStack
<1>5. "dir" \notin WithDip \cup WithIp \cup WithRip \cup WithMip \cup Owner \cup Opens /\ "dir" \in PerhapsIp
      /\ "more" \notin WithRip \cup WithMip \cup Owner
  BY DEF WithDip, WithIp, WithRip, WithMip, Owner, PerhapsIp, Opens
<1>6. /\ Bot(c.pc) = "more" /\ HandOK(c, c.pc) /\ PathAt(k, c, "more") /\ c.put = 0 BY <1>3 DEF LastFacts
<1>7. /\ c.rip = 0 /\ c.mip = 0
      /\ c.op \in {"open", "creat", "exec", "unlink"} /\ c.name \in Name
      /\ c.op \in {"open", "creat"} => c.fd = 0
  BY <1>5, <1>6 DEF HandOK
<1>8. ASSUME NEW c0, KeepU(c, c0, {"dip"}), c0.dip = 0
      PROVE  HandOK(c0, rest) /\ PathAt(k, c0, Bot(rest))
  <2>1. /\ c0.ip = c.ip /\ c0.put = c.put /\ c0.rip = c.rip /\ c0.mip = c.mip /\ c0.fd = c.fd
        /\ c0.fino = c.fino /\ c0.op = c.op /\ c0.name = c.name
    BY <1>8, DipOff
  <2> HIDE DEF c, rest
  <2>2. HandOK(c0, rest)
    <3>1. Top(rest) \notin {"iget", "fsiread", "upput", "fstrunc", "fsiupdat"} BY <1>4
    <3>2. c0.ip # 0 => Bot(rest) \in WithIp \cup PerhapsIp BY <1>4, <1>5
    <3>3. QED BY ONLY <1>4, <1>5, <1>6, <1>7, <1>8, <2>1, <3>1, <3>2 DEF HandOK
  <2>3. PathAt(k, c0, "dir")
    <3>1. c0.ip # 0 => k.node[c0.ip].ino = "sub" /\ c0.op # "mount" BY <1>6, <1>7, <2>1 DEF PathAt
    <3>2. c0.fd # 0 => k.node[c0.fd].ino = c0.fino /\ c0.fino \in InFs BY <1>6, <2>1 DEF PathAt
    <3>3. QED BY ONLY <1>5, <3>1, <3>2 DEF PathAt, Named
  <2>4. QED BY <1>4, <2>2, <2>3
<1> HIDE DEF c, rest
<1>9. "dir" \notin Owner \cup {"unhang", "got", "more"} BY <1>5
<1>9a. Bot(rest) \notin Owner \cup {"unhang", "got", "more"} BY <1>4, <1>9
<1> DEFINE l == "more"
<1>10. l \in {"more", "got"} /\ LastFacts(k, p, l) BY <1>3
<1> HIDE DEF l
<1>11. \A c0 : KeepU(k.u[p], c0, {"dip"}) /\ c0.dip = 0 => HandOK(c0, rest) /\ PathAt(k, c0, Bot(rest))
  BY <1>8 DEF c
<1>12. Good(Idec([k EXCEPT !.u[p].dip = 0], p, k.u[p].dip, rest), X) BY <1>4, <1>9a, <1>10, <1>11, IdecGood
<1>13. QED BY <1>1, <1>12 DEF c

\* Sequences of three.
LEMMA ConsTwo == \A x, y, z : <<x, y, z>> = <<x>> \o <<y, z>>
OBVIOUS

\* Where namei leaves open, creat and exec.
GotTo(c) == CASE c.ip = 0 -> <<>>
              [] c.ip # 0 /\ c.op = "exec" -> <<"getxfile">>
              [] c.ip # 0 /\ c.op = "creat" -> IF NText = 0 THEN <<"trunc", "open1">>
                                               ELSE <<"xaccess", "trunc", "open1">>
              [] OTHER -> <<"open1">>

\* Where open, creat and exec go on.
LEMMA GotStack ==
  ASSUME NEW c
  PROVE  /\ GotTo(c) \in Seq(Label) /\ StackOK(GotTo(c)) /\ Top(GotTo(c)) \notin LeafL
         /\ Bot(GotTo(c)) = IF c.ip = 0 THEN "" ELSE IF c.op = "exec" THEN "getxfile" ELSE "open1"
         /\ GotTo(c) = <<>> <=> c.ip = 0
<1>1. "getxfile" \in LastL /\ "open1" \in LastL BY DEF LastL, WithIp
<1>2. "trunc" \in Label \ LastL /\ "xaccess" \in Label \ LastL /\ "trunc" \notin LeafL /\ "xaccess" \notin LeafL
  BY LeafFacts DEF Label, MidL
<1>3. CASE c.ip = 0 BY <1>3, EmptyStack DEF GotTo
<1>4. CASE c.ip # 0 /\ c.op = "exec" BY <1>1, <1>4, LastStack DEF GotTo
<1>5. CASE c.ip # 0 /\ c.op = "creat"
  <2> DEFINE pc == <<"trunc", "open1">>
  <2>1. Below("trunc", "open1") /\ Below("xaccess", "open1") BY DEF Below
  <2>2. pc \in Seq(Label) /\ pc # <<>> /\ StackOK(pc) /\ Top(pc) = "trunc" /\ Bot(pc) = "open1"
    BY <1>1, <1>2, <2>1, OnLast
  <2>3. CASE NText = 0
    <3>1. GotTo(c) = pc BY <1>5, <2>3 DEF GotTo
    <3>2. QED BY <1>2, <1>5, <2>2, <3>1
  <2>4. CASE NText # 0
    <3> DEFINE pc1 == <<"xaccess">> \o pc
    <3>0. pc1 = <<"xaccess", "trunc", "open1">> BY ConsTwo
    <3>1. GotTo(c) = pc1 BY <1>5, <2>4, <3>0 DEF GotTo
    <3> HIDE DEF pc
    <3>2. pc1 \in Seq(Label) /\ pc1 # <<>> /\ StackOK(pc1) /\ Top(pc1) = "xaccess" /\ Bot(pc1) = "open1"
      BY <1>2, <2>1, <2>2, StackPush
    <3> HIDE DEF pc1
    <3>3. QED BY <1>2, <1>5, <3>1, <3>2
  <2>5. QED BY <2>3, <2>4
<1>6. CASE c.ip # 0 /\ c.op \notin {"exec", "creat"} BY <1>1, <1>6, LastStack DEF GotTo
<1>7. QED BY <1>3, <1>4, <1>5, <1>6

\* namei has the inode of the last part.
LEMMA GotGood ==
  ASSUME NEW k, k = K, NEW X, Good(k, X), NEW p \in Proc, Got(p)
  PROVE  \E k1 : Become(k1) /\ Good(k1, X)
<1> DEFINE c == k.u[p]
           rest == GotTo(c)
<1>0. u = k.u /\ node = k.node /\ K = k BY KFacts
<1>1. At(p, "got") /\ Become(Idec([k EXCEPT !.u[p].dip = 0], p, c.dip, rest)) BY <1>0 DEF Got, GotTo
<1>2. "got" \in LastL BY DEF LastL, WithDip
<1>3. LastFacts(k, p, "got") BY <1>1, <1>2, LastAt
<1>4. /\ rest \in Seq(Label) /\ StackOK(rest) /\ Top(rest) \notin LeafL
      /\ Bot(rest) = IF c.ip = 0 THEN "" ELSE IF c.op = "exec" THEN "getxfile" ELSE "open1"
  BY GotStack
<1>5. /\ \A b \in {"getxfile", "open1"} : /\ b \notin WithDip \cup WithRip \cup WithMip \cup Owner /\ b \in WithIp
                                          /\ b \notin {"closef", "more", "plockdir", "funmount", "fsoff", "unhang",
                                                       "putdir", "got", "fson", "fson2", "dir", "fson3"}
      /\ "getxfile" \notin Opens \cup Named
      /\ "got" \notin WithRip \cup WithMip \cup Owner /\ "got" \in Named
  BY DEF WithDip, WithIp, WithRip, WithMip, Owner, Opens, Named
<1>6. /\ Bot(c.pc) = "got" /\ HandOK(c, c.pc) /\ PathAt(k, c, "got") /\ c.put = 0 BY <1>3 DEF LastFacts
<1>7. /\ c.rip = 0 /\ c.mip = 0 /\ c.op \in {"open", "creat", "exec"} /\ c.name \in Name
      /\ c.op \in {"open", "creat"} => c.fd = 0
  BY <1>5, <1>6 DEF HandOK
<1>8. ASSUME NEW c0, KeepU(c, c0, {"dip"}), c0.dip = 0
      PROVE  HandOK(c0, rest) /\ PathAt(k, c0, Bot(rest))
  <2>1. /\ c0.ip = c.ip /\ c0.put = c.put /\ c0.rip = c.rip /\ c0.mip = c.mip /\ c0.fd = c.fd
        /\ c0.fino = c.fino /\ c0.op = c.op /\ c0.name = c.name /\ c0.key = c.key
    BY <1>8, DipOff
  <2> HIDE DEF c, rest
  <2>2. HandOK(c0, rest)
    <3>1. Top(rest) \notin {"iget", "fsiread", "upput", "fstrunc", "fsiupdat"} BY <1>4 DEF LeafL
    <3>2. CASE c.ip = 0
      <4>1. Bot(rest) = "" BY <3>2, <1>4
      <4>2. "" \notin Opens BY OpensIn
      <4>3. "" \notin {"closef", "more", "plockdir", "funmount", "fsoff", "unhang", "putdir", "got"} OBVIOUS
      <4>4. QED BY ONLY <1>4, <1>6, <1>7, <1>8, <2>1, <3>1, <3>2, <4>1, <4>2, <4>3, EmptyStack DEF HandOK
    <3>3. CASE c.ip # 0
      <4> DEFINE b == Bot(rest)
      <4>1. b \in {"getxfile", "open1"} /\ (b = "open1" => c.op # "exec") BY <3>3, <1>4
      <4>2. /\ b \notin WithDip \cup WithRip \cup WithMip /\ b \in WithIp
            /\ b \notin {"closef", "more", "plockdir", "funmount", "fsoff", "unhang", "putdir", "got"}
        BY <4>1, <1>5
      <4>3. b \in Opens => c.fd = 0 BY <4>1, <1>5, <1>7
      <4>4. QED BY ONLY <1>4, <1>6, <1>7, <1>8, <2>1, <3>1, <3>3, <4>2, <4>3 DEF HandOK
    <3>4. QED BY <3>2, <3>3
  <2>3. PathAt(k, c0, Bot(rest))
    <3> DEFINE b == Bot(rest)
    <3>1. c0.fd # 0 => k.node[c0.fd].ino = c0.fino /\ c0.fino \in InFs BY <1>6, <2>1 DEF PathAt
    <3>2. c0.ip # 0 => k.node[c0.ip].ino = c0.key /\ c0.key \in InFs BY <1>5, <1>6, <2>1 DEF PathAt
    <3>3. b \in {"", "getxfile", "open1"} BY <1>4
    <3>4. b \notin WithDip /\ b \notin {"fson", "fson2", "dir", "more", "fson3", "fsoff", "unhang", "plockdir"}
      BY <3>3, <1>5, EmptyStack
    <3>5. QED BY <3>1, <3>2, <3>4 DEF PathAt
  <2>4. QED BY <2>2, <2>3
<1> HIDE DEF c, rest
<1>9. Bot(rest) \notin Owner \cup {"unhang", "got", "more"} BY <1>4, <1>5, EmptyStack
<1> DEFINE l == "got"
<1>10. l \in {"more", "got"} /\ LastFacts(k, p, l) BY <1>3
<1> HIDE DEF l
<1>11. \A c0 : KeepU(k.u[p], c0, {"dip"}) /\ c0.dip = 0 => HandOK(c0, rest) /\ PathAt(k, c0, Bot(rest))
  BY <1>8 DEF c
<1>12. Good(Idec([k EXCEPT !.u[p].dip = 0], p, k.u[p].dip, rest), X) BY <1>4, <1>9, <1>10, <1>11, IdecGood
<1>13. QED BY <1>1, <1>12 DEF c

\* namei keeps the directory it has found, in dip, and looks for the next inode.
SetHold(k, p, d) == [k EXCEPT !.u[p].ip = 0, !.u[p].dip = d]

\* namei has the directory in dip and nothing in ip.
LEMMA SetHoldEff ==
  ASSUME NEW k, Types(k), NEW p \in Proc, NEW d \in Slot
  PROVE  LET k1 == SetHold(k, p, d) IN
         /\ Types(k1) /\ Only(k, k1, p) /\ KeepU(k.u[p], k1.u[p], {"ip", "dip"})
         /\ k1.u[p].ip = 0 /\ k1.u[p].dip = d
<1> DEFINE c1 == [k.u[p] EXCEPT !.ip = 0, !.dip = d]
           j == [k EXCEPT !.u[p] = c1]
<1>0. UserOK(k.u[p]) BY DEF Types, UsersOK
<1>1. SetHold(k, p, d) = j BY DEF SetHold
<1>2. c1 = [f \in UserF |-> c1[f]] /\ c1.ip = 0 /\ c1.dip = d /\ KeepU(k.u[p], c1, {"ip", "dip"})
  BY <1>0 DEF UserOK, UserF, KeepU
<1> HIDE DEF c1
<1>3. UserOK(c1) BY <1>0, <1>2, SlotFacts DEF UserOK, KeepU, UserF
<1>4. Types(j) /\ Only(k, j, p) /\ j.u[p] = c1 BY <1>3, SetUser
<1> HIDE DEF j
<1>5. QED BY <1>1, <1>2, <1>4

\* c has a directory in ip and nothing else but an open file; c0 has it in dip.
Hands(c, c0) ==
  /\ c.dip = 0 /\ c.put = 0 /\ c.rip = 0 /\ c.mip = 0 /\ Up(c) = 0
  /\ c0.ip = 0 /\ c0.dip = c.ip /\ c0.put = 0 /\ c0.rip = 0 /\ c0.mip = 0 /\ Up(c0) = 0 /\ c0.fd = c.fd

\* It has the same in hand.
LEMMA HoldHands ==
  ASSUME NEW c, NEW c0, Hands(c, c0), NEW t \in Slot
  PROVE  /\ RefP(c0, t) = RefP(c, t) /\ RefP(c, t) = RefQ(c0, t)
         /\ HoldP(c, t) <=> c.ip = t
         /\ HoldP(c0, t) <=> c.ip = t /\ ~Walk(c0)
         /\ \A b : HoldQ(c0, t, b) <=> c.ip = t /\ b \notin {"got", "more"}
<1>1. t # 0 BY SlotFacts
<1>2. Rip(c) = 0 /\ Rip(c0) = 0 BY DEF Rip, Hands
<1>3. B(0 = t) = 0 BY <1>1 DEF B
<1> DEFINE x == B(c.ip = t)  y == B(c.fd = t)
<1>4. RefP(c, t) = x + 0 + y + 0 + 0 + 0 BY <1>2, <1>3 DEF RefP, Hands
<1>5. RefP(c0, t) = 0 + x + y + 0 + 0 + 0 BY <1>2, <1>3 DEF RefP, Hands
<1>6. RefQ(c0, t) = 0 + x + y + 0 BY <1>2, <1>3 DEF RefQ, Hands
<1>7. x \in Nat /\ y \in Nat BY DEF B
<1> HIDE DEF x, y
<1>8. RefP(c0, t) = RefP(c, t) /\ RefP(c, t) = RefQ(c0, t) BY ONLY <1>4, <1>5, <1>6, <1>7
<1>9. HoldP(c, t) <=> c.ip = t BY <1>1 DEF HoldP, Hands
<1>10. HoldP(c0, t) <=> c.ip = t /\ ~Walk(c0) BY <1>1 DEF HoldP, Hands
<1>11. \A b : HoldQ(c0, t, b) <=> c.ip = t /\ b \notin {"got", "more"} BY <1>1 DEF HoldQ, Hands
<1>12. QED BY <1>8, <1>9, <1>10, <1>11

\* The routines that go on from a directory.
HoldL == {"more", "got", "dormfile", "ialloc", "fson3"}

\* These routines, among the others.
LEMMA HoldLabels ==
  \A l \in HoldL : /\ l \in WithDip /\ l \in LastL /\ l \notin WithIp \cup WithRip \cup WithMip
                   /\ l \notin {"closef", "plockdir", "funmount", "fsoff", "unhang", "putdir", "fson", "fson2", "dir"}
                   /\ l \in Opens <=> l = "ialloc"
                   /\ l \notin {"iget", "fsiread", "upput", "fstrunc", "fsiupdat"}
                   /\ l \in GetL <=> l # "ialloc"
                   /\ l \in Owner <=> l = "fson3"
BY DEF HoldL, WithDip, LastL, WithIp, WithRip, WithMip, Opens, GetL, Owner

\* Its place suits what it has in hand,
LEMMA HoldStack ==
  ASSUME NEW c, NEW c0, NEW l \in HoldL, Hands(c, c0), c.ip # 0, c0.op = c.op, c0.name = c.name,
         c.op \in {"open", "creat", "exec", "unlink"} => c.name \in Name,
         c.op \in {"open", "creat"} => c.fd = 0,
         l = "more" => c.op \in {"open", "creat", "exec", "unlink"},
         l = "got" => c.op \in {"open", "creat", "exec"},
         l = "ialloc" => c.fd = 0
  PROVE  /\ HandOK(c0, <<l>>)
         /\ <<l>> \in Seq(Label) /\ <<l>> # <<>> /\ Top(<<l>>) \notin LeafL /\ Bot(<<l>>) = l /\ Top(<<l>>) = l
<1> DEFINE pc == <<l>>
<1>1. /\ pc \in Seq(Label) /\ pc # <<>> /\ StackOK(pc) /\ Top(pc) = l /\ Bot(pc) = l /\ Top(pc) \notin LeafL
  BY HoldLabels, LastStack
<1> HIDE DEF pc
<1>2. /\ l \in WithDip /\ l \notin WithIp \cup WithRip \cup WithMip
      /\ l \notin {"closef", "plockdir", "funmount", "fsoff", "unhang", "putdir"}
      /\ l \in Opens <=> l = "ialloc"
      /\ l \notin {"iget", "fsiread", "upput", "fstrunc", "fsiupdat"}
  BY HoldLabels
<1>3. /\ c0.ip = 0 /\ c0.dip # 0 /\ c0.put = 0 /\ c0.rip = 0 /\ c0.mip = 0 /\ c0.fd = c.fd BY DEF Hands
<1>4. HandOK(c0, pc)
  <2>1. StackOK(pc) BY <1>1
  <2>2. c0.put # 0 <=> Top(pc) \in {"fstrunc", "fsiupdat"} BY <1>1, <1>2, <1>3
  <2>3. /\ c0.dip # 0 <=> Bot(pc) \in WithDip
        /\ c0.rip # 0 <=> Bot(pc) \in WithRip
        /\ c0.mip # 0 <=> Bot(pc) \in WithMip
        /\ c0.ip # 0 => Bot(pc) \in WithIp \cup PerhapsIp
        /\ Bot(pc) \in WithIp => c0.ip # 0
    BY <1>1, <1>2, <1>3
  <2>4. Top(pc) \notin {"iget", "fsiread", "upput"} /\ Bot(pc) \notin {"closef", "plockdir", "funmount", "fsoff", "unhang", "putdir"}
    BY <1>1, <1>2
  <2>5. /\ Bot(pc) = "more" => c0.op \in {"open", "creat", "exec", "unlink"}
        /\ c0.op \in {"open", "creat", "exec", "unlink"} => c0.name \in Name
        /\ c0.op \in {"open", "creat"} \/ Bot(pc) \in Opens => c0.fd = 0
        /\ Bot(pc) = "got" => c0.op \in {"open", "creat", "exec"}
    BY <1>1, <1>2, <1>3
  <2>6. QED BY ONLY <2>1, <2>2, <2>3, <2>4, <2>5 DEF HandOK
<1>5. QED BY <1>1, <1>4 DEF pc

\* A process that has come to a directory, and knows it.
DirAt(k, p) ==
  /\ Types(k) /\ LastFacts(k, p, "dir") /\ k.u[p].ip \in Slot
  /\ k.u[p].op \in {"open", "creat", "exec", "unlink"} => k.u[p].name \in Name
  /\ k.u[p].op \in {"open", "creat"} => k.u[p].fd = 0

\* and where that is.
LEMMA HoldPath ==
  ASSUME NEW k, NEW c, NEW c0, NEW l0, PathAt(k, c, l0), NEW l \in HoldL, Hands(c, c0), c0.fino = c.fino,
         l = "fson3" => k.node[c.ip].ino = "mp",
         l # "fson3" => k.node[c.ip].ino \in {"root", "sub"}
  PROVE  PathAt(k, c0, l)
<1>1. c0.ip = 0 /\ c0.dip = c.ip /\ c0.fd = c.fd BY DEF Hands
<1>2. c0.fd # 0 => k.node[c0.fd].ino = c0.fino /\ c0.fino \in InFs BY <1>1 DEF PathAt
<1>3. l \notin {"fson", "fson2", "dir", "fsoff", "unhang", "plockdir"} BY HoldLabels
<1>4. l = "fson3" => k.node[c0.dip].ino = "mp" BY <1>1
<1>5. l # "fson3" => k.node[c0.dip].ino \in {"root", "sub"} BY <1>1
<1>6. QED BY ONLY <1>1, <1>2, <1>3, <1>4, <1>5 DEF PathAt

\* open, creat, exec: the directory is unlocked before the inode is looked for.
LEMMA EnterGood ==
  ASSUME NEW k, NEW X, Good(k, X), NEW p \in Proc, NEW l \in {"more", "got"}, NEW key, DirAt(k, p),
         k.u[p].op \in {"open", "creat", "exec", "unlink"},
         l = "got" => k.u[p].op # "unlink", KeyOK(key, l),
         k.node[k.u[p].ip].ino \in {"root", "sub"}
  PROVE  Good(Iget(SetHold(Prele(k, k.u[p].ip), p, k.u[p].ip), p, key, <<l>>), X)
<1> DEFINE c == k.u[p]
           d == c.ip
           kp == Prele(k, d)
           k0 == SetHold(kp, p, d)
           c0 == k0.u[p]
           D == {d}
           rest == <<l>>
<1>1. /\ Types(k) /\ d \in Slot /\ c.chan = Awake /\ Bot(c.pc) = "dir" /\ Top(c.pc) = "dir"
      /\ c.put = 0 /\ Up(c) = 0 /\ PathAt(k, c, "dir") /\ PathOK(k, c)
      /\ c.dip = 0 /\ c.rip = 0 /\ c.mip = 0
      /\ c.op \in {"open", "creat", "exec", "unlink"} => c.name \in Name
      /\ c.op \in {"open", "creat"} => c.fd = 0
  BY DEF DirAt, LastFacts, WithDip, WithRip, WithMip
<1>2. /\ Types(kp) /\ SameRest(k, kp) /\ NodeBut(k, kp, d)
      /\ KeepN(k.node[d], kp.node[d], {"lock", "want"}) /\ ~kp.node[d].lock
      /\ \A q \in Proc : /\ KeepU(k.u[q], kp.u[q], {"chan"})
                         /\ kp.u[q].chan = IF k.node[d].want /\ k.u[q].chan = On(d) THEN Awake ELSE k.u[q].chan
  BY <1>1, PreleEff
<1> HIDE DEF kp
<1>3. /\ Types(k0) /\ Only(kp, k0, p) /\ KeepU(kp.u[p], k0.u[p], {"ip", "dip"})
      /\ k0.u[p].ip = 0 /\ k0.u[p].dip = d
  <2>1. Types(kp) /\ d \in Slot BY <1>1, <1>2
  <2> HIDE DEF d
  <2>2. QED BY ONLY <2>1, SetHoldEff, p \in Proc DEF k0
<1> HIDE DEF k0, c, c0, D, rest, d
<1>4. /\ kp.u[p].chan = Awake /\ KeepU(c, kp.u[p], {"chan"}) BY <1>1, <1>2 DEF c
<1>5. /\ c0.op = c.op /\ c0.name = c.name /\ c0.fd = c.fd /\ c0.fino = c.fino /\ c0.put = c.put /\ c0.rip = c.rip
      /\ c0.mip = c.mip /\ c0.chan = Awake /\ c0.pc = c.pc /\ c0.ip = 0 /\ c0.dip = d
  BY ONLY <1>3, <1>4 DEF KeepU, UserF, c0
<1>6. Hands(c, c0)
  <2>1. Up(c0) = 0 BY <1>1, <1>5 DEF Up
  <2>2. QED BY <1>1, <1>5, <2>1 DEF Hands, d
<1>7. l \in HoldL /\ l \in GetL /\ l \notin Owner
  <2>1. l \in HoldL BY DEF HoldL
  <2>2. QED BY <2>1, HoldLabels
<1>8. /\ HandOK(c0, rest)
      /\ rest \in Seq(Label) /\ rest # <<>> /\ Top(rest) \notin LeafL /\ Bot(rest) = l
  <2>1. c.ip # 0 BY <1>1, SlotFacts DEF d
  <2>2. l = "more" => c.op \in {"open", "creat", "exec", "unlink"} BY DEF c
  <2>3. l = "got" => c.op \in {"open", "creat", "exec"} BY DEF c
  <2>4. l # "ialloc" OBVIOUS
  <2>5. QED BY ONLY <1>1, <1>5, <1>6, <1>7, <2>1, <2>2, <2>3, <2>4, HoldStack DEF rest
<1>9. \A t \in Slot : /\ kp.node[t].ino = k.node[t].ino /\ kp.node[t].mroot = k.node[t].mroot
                      /\ kp.node[t].count = k.node[t].count /\ kp.node[t].mpoint = k.node[t].mpoint
                      /\ kp.node[t].lock <=> (k.node[t].lock /\ t \notin D)
                      /\ k.node[t].want /\ t \notin D => kp.node[t].want
  <2> SUFFICES ASSUME NEW t \in Slot
               PROVE  /\ kp.node[t].ino = k.node[t].ino /\ kp.node[t].mroot = k.node[t].mroot
                      /\ kp.node[t].count = k.node[t].count /\ kp.node[t].mpoint = k.node[t].mpoint
                      /\ kp.node[t].lock <=> (k.node[t].lock /\ t \notin D)
                      /\ k.node[t].want /\ t \notin D => kp.node[t].want
    OBVIOUS
  <2>1. CASE t = d
    <3>1. KeepN(k.node[t], kp.node[t], {"lock", "want"}) /\ ~kp.node[t].lock BY <2>1, <1>2
    <3>2. /\ kp.node[t].ino = k.node[t].ino /\ kp.node[t].mroot = k.node[t].mroot
          /\ kp.node[t].count = k.node[t].count /\ kp.node[t].mpoint = k.node[t].mpoint
      BY ONLY <3>1 DEF KeepN, NodeF
    <3>3. t \in D BY <2>1 DEF D
    <3>4. QED BY <3>1, <3>2, <3>3
  <2>2. CASE t # d
    <3>1. t \notin D BY <2>2 DEF D
    <3>2. QED BY <2>2, <3>1, <1>2 DEF NodeBut
  <2>3. QED BY <2>1, <2>2
<1>10. Asks(k, k0, p, D)
  <2>1. k0.node = kp.node /\ k0.freel = kp.freel /\ k0.fs = kp.fs /\ \A q \in Proc \ {p} : k0.u[q] = kp.u[q]
    BY <1>3 DEF Only
  <2>2. kp.freel = k.freel /\ kp.fs = k.fs BY <1>2 DEF SameRest
  <2>3. Others(k, k0, p)
    <3> SUFFICES ASSUME NEW q \in Proc \ {p}
                 PROVE  KeepU(k.u[q], k0.u[q], {"chan"}) /\ k0.u[q].chan \in {k.u[q].chan, Awake}
      BY DEF Others
    <3>1. QED BY <1>2, <2>1
  <2>4. \A t \in D : HoldP(k.u[p], t)
    <3>1. \A t \in D : t \in Slot /\ c.ip = t BY <1>1 DEF D, d
    <3>2. QED BY <3>1, <1>6, HoldHands DEF c
  <2>5. \A t \in D, q \in Proc \ {p} : k.node[t].want => k0.u[q].chan # On(t)
    <3>1. Awake # On(d) BY <1>1, AwakeOn
    <3>2. \A q \in Proc \ {p} : k.node[d].want => k0.u[q].chan # On(d) BY <1>2, <2>1, <3>1
    <3>3. QED BY <3>2 DEF D
  <2>6. k0.u[p].chan = Awake /\ k0.u[p].ip = 0 BY <1>5 DEF c0
  <2>7. k0.freel = k.freel /\ k0.fs.ilock = k.fs.ilock /\ k0.fs.mdev = k.fs.mdev BY <2>1, <2>2
  <2>8. QED BY <1>3, <1>9, <2>1, <2>3, <2>4, <2>5, <2>6, <2>7 DEF Asks
<1>11. Wants(k, k0, p, D, key, rest)
  <2>1. \A t \in Slot : /\ RefP(c, t) = RefQ(c0, t)
                        /\ HoldQ(c0, t, Bot(rest)) <=> (HoldP(c, t) /\ t \notin D)
                        /\ OwnsRoot(c, t) => k.node[t].ino # "root"
    <3> SUFFICES ASSUME NEW t \in Slot
                 PROVE  /\ RefP(c, t) = RefQ(c0, t)
                        /\ HoldQ(c0, t, Bot(rest)) <=> (HoldP(c, t) /\ t \notin D)
                        /\ OwnsRoot(c, t) => k.node[t].ino # "root"
      OBVIOUS
    <3>1. RefP(c, t) = RefQ(c0, t) /\ (HoldP(c, t) <=> c.ip = t) /\ ~HoldQ(c0, t, l)
      <4>1. l \in {"got", "more"} OBVIOUS
      <4>2. QED BY <1>6, <4>1, HoldHands
    <3>2. ~OwnsRoot(c, t) BY <1>1 DEF OwnsRoot, Owner
    <3>3. QED BY <3>1, <3>2, <1>8 DEF D, d
  <2>2. PathAt(k, c0, l)
    <3>1. k.node[c.ip].ino \in {"root", "sub"} /\ l # "fson3" BY DEF c
    <3>2. QED BY <1>1, <1>5, <1>6, <1>7, <3>1, HoldPath
  <2>3. Bot(c.pc) \notin Owner BY <1>1 DEF Owner
  <2>4. QED BY <1>7, <1>8, <2>1, <2>2, <2>3 DEF Wants, c, c0
<1>12. D \in SUBSET Slot BY <1>1 DEF D
<1>13. Good(Iget(k0, p, key, rest), X) BY <1>8, <1>10, <1>11, <1>12, GetGood
<1>14. QED BY <1>13 DEF k0, rest, d, c, kp

\* unlink: the directory stays locked while the file is looked for.
LEMMA KeepGood ==
  ASSUME NEW k, NEW X, Good(k, X), NEW p \in Proc, NEW key, DirAt(k, p), KeyOK(key, "dormfile"),
         k.node[k.u[p].ip].ino \in {"root", "sub"}
  PROVE  Good(Iget(SetHold(k, p, k.u[p].ip), p, key, <<"dormfile">>), X)
<1> DEFINE c == k.u[p]
           d == c.ip
           k0 == SetHold(k, p, d)
           c0 == k0.u[p]
           D == {}
           l == "dormfile"
           rest == <<l>>
<1>1. /\ Types(k) /\ d \in Slot /\ c.chan = Awake /\ Bot(c.pc) = "dir" /\ Top(c.pc) = "dir"
      /\ c.put = 0 /\ Up(c) = 0 /\ PathAt(k, c, "dir") /\ PathOK(k, c)
      /\ c.dip = 0 /\ c.rip = 0 /\ c.mip = 0
      /\ c.op \in {"open", "creat", "exec", "unlink"} => c.name \in Name
      /\ c.op \in {"open", "creat"} => c.fd = 0
  BY DEF DirAt, LastFacts, WithDip, WithRip, WithMip
<1>2. /\ Types(k0) /\ Only(k, k0, p) /\ KeepU(k.u[p], k0.u[p], {"ip", "dip"})
      /\ k0.u[p].ip = 0 /\ k0.u[p].dip = d
  <2>1. Types(k) /\ d \in Slot BY <1>1
  <2> HIDE DEF d
  <2>2. QED BY ONLY <2>1, SetHoldEff, p \in Proc DEF k0
<1>3. D = {} /\ KeyOK(key, l) OBVIOUS
<1>3a. l \in HoldL /\ l \in GetL /\ l \notin Owner
  <2>1. l \in HoldL BY DEF HoldL
  <2>2. QED BY <2>1, HoldLabels
<1>3b. l \notin {"more", "got", "ialloc", "fson3"} OBVIOUS
<1>4. k.node[d].ino \in {"root", "sub"} OBVIOUS
<1> HIDE DEF k0, c, c0, D, l, rest, d
<1>5. /\ c0.op = c.op /\ c0.name = c.name /\ c0.fd = c.fd /\ c0.fino = c.fino /\ c0.put = c.put /\ c0.rip = c.rip
      /\ c0.mip = c.mip /\ c0.chan = c.chan /\ c0.pc = c.pc /\ c0.ip = 0 /\ c0.dip = d
  BY ONLY <1>2 DEF KeepU, UserF, c0, c
<1>6. Hands(c, c0)
  <2>1. Up(c0) = 0 BY <1>1, <1>5 DEF Up
  <2>2. QED BY <1>1, <1>5, <2>1 DEF Hands, d
<1>8. /\ HandOK(c0, rest)
      /\ rest \in Seq(Label) /\ rest # <<>> /\ Top(rest) \notin LeafL /\ Bot(rest) = l
  <2>1. c.ip # 0 BY <1>1, SlotFacts DEF d
  <2>5. QED BY ONLY <1>1, <1>3b, <1>5, <1>6, <1>3a, <2>1, HoldStack DEF rest
<1>10. Asks(k, k0, p, D)
  <2>1. Others(k, k0, p) /\ k0.freel = k.freel /\ SameNodes(k, k0) /\ k0.fs = k.fs BY <1>2, OnlyFacts
  <2>2. k0.u[p].chan = Awake /\ k0.u[p].ip = 0 BY <1>1, <1>5 DEF c0
  <2>3. k0.fs.ilock = k.fs.ilock /\ k0.fs.mdev = k.fs.mdev BY <2>1
  <2>4. Types(k0) /\ D = {} BY <1>2, <1>3
  <2>5. QED BY ONLY <2>1, <2>2, <2>3, <2>4, AsksSame, p \in Proc
<1>11. Wants(k, k0, p, D, key, rest)
  <2>1. \A t \in Slot : /\ RefP(c, t) = RefQ(c0, t)
                        /\ HoldQ(c0, t, Bot(rest)) <=> (HoldP(c, t) /\ t \notin D)
                        /\ OwnsRoot(c, t) => k.node[t].ino # "root"
    <3> SUFFICES ASSUME NEW t \in Slot
                 PROVE  /\ RefP(c, t) = RefQ(c0, t)
                        /\ HoldQ(c0, t, Bot(rest)) <=> (HoldP(c, t) /\ t \notin D)
                        /\ OwnsRoot(c, t) => k.node[t].ino # "root"
      OBVIOUS
    <3>1. RefP(c, t) = RefQ(c0, t) /\ (HoldP(c, t) <=> c.ip = t) /\ (HoldQ(c0, t, l) <=> c.ip = t)
      BY <1>3b, <1>6, HoldHands
    <3>2. ~OwnsRoot(c, t) BY <1>1 DEF OwnsRoot, Owner
    <3>3. QED BY <3>1, <3>2, <1>3, <1>8
  <2>2. PathAt(k, c0, l)
    <3>1. k.node[c.ip].ino \in {"root", "sub"} /\ l # "fson3" BY <1>3b, <1>4 DEF d
    <3>2. QED BY <1>1, <1>5, <1>6, <1>3a, <3>1, HoldPath
  <2>3. Bot(c.pc) \notin Owner BY <1>1 DEF Owner
  <2>4. QED BY <1>3, <1>3a, <1>8, <2>1, <2>2, <2>3 DEF Wants, c, c0
<1>12. D \in SUBSET Slot BY <1>3
<1>13. Good(Iget(k0, p, key, rest), X) BY <1>8, <1>10, <1>11, <1>12, GetGood
<1>14. QED BY <1>13 DEF k0, rest, d, c, l

\* creat of a name that is not there.
LEMMA MakeGood ==
  ASSUME NEW k, NEW X, Good(k, X), NEW p \in Proc, DirAt(k, p), k.u[p].op = "creat",
         k.node[k.u[p].ip].ino \in {"root", "sub"}
  PROVE  Good(Goto(SetHold(k, p, k.u[p].ip), p, <<"ialloc">>), X)
<1> DEFINE c == k.u[p]
           d == c.ip
           k0 == SetHold(k, p, d)
           c0 == k0.u[p]
           l == "ialloc"
           rest == <<l>>
           k1 == Goto(k0, p, rest)
           c1 == k1.u[p]
<1>1. /\ Types(k) /\ d \in Slot /\ c.chan = Awake /\ Bot(c.pc) = "dir" /\ Top(c.pc) = "dir"
      /\ c.put = 0 /\ Up(c) = 0 /\ PathAt(k, c, "dir") /\ PathOK(k, c)
      /\ c.dip = 0 /\ c.rip = 0 /\ c.mip = 0 /\ c.name \in Name /\ c.fd = 0
  BY DEF DirAt, LastFacts, WithDip, WithRip, WithMip
<1>2. /\ Types(k0) /\ Only(k, k0, p) /\ KeepU(k.u[p], k0.u[p], {"ip", "dip"})
      /\ k0.u[p].ip = 0 /\ k0.u[p].dip = d
  <2>1. Types(k) /\ d \in Slot BY <1>1
  <2> HIDE DEF d
  <2>2. QED BY ONLY <2>1, SetHoldEff, p \in Proc DEF k0
<1>3. l \in HoldL /\ l \notin Owner /\ l \notin {"unhang", "more", "got", "fson3", "dir"}
  BY DEF HoldL, Owner
<1>4. k.node[d].ino \in {"root", "sub"} /\ c.op = "creat" OBVIOUS
<1>4a. rest = <<l>> OBVIOUS
<1> HIDE DEF l, rest
<1>5. rest \in Seq(Label) /\ rest # <<>> BY <1>3, <1>4a, HoldLabels, LastStack
<1>6. Types(k1) /\ Only(k0, k1, p) /\ GoneTo(k0.u[p], c1, rest)
  <2>1. Types(k0) BY <1>2
  <2> HIDE DEF k0
  <2>2. QED BY <2>1, <1>5, GotoEff
<1> HIDE DEF k0, c, c0, d, k1, c1
<1>7. /\ c1.op = c.op /\ c1.name = c.name /\ c1.fd = c.fd /\ c1.fino = c.fino /\ c1.put = c.put /\ c1.rip = c.rip
      /\ c1.mip = c.mip /\ c1.chan = c.chan /\ c1.pc = rest /\ c1.ip = 0 /\ c1.dip = d
  BY ONLY <1>2, <1>5, <1>6 DEF KeepU, UserF, GoneTo, c
<1>7a. Top(rest) = l /\ Bot(rest) = l /\ l # "upput"
  <2>1. l # "upput" BY DEF l
  <2>2. QED BY <2>1, <1>3, <1>4a, HoldLabels, LastStack
<1>8. Hands(c, c1)
  <2>1. Up(c1) = 0 BY <1>7, <1>7a DEF Up
  <2>2. QED BY <1>1, <1>7, <2>1 DEF Hands, d
<1>9. HandOK(c1, rest)
  <2>1. c.ip # 0 BY <1>1, SlotFacts DEF d
  <2>2. QED BY ONLY <1>1, <1>3, <1>4, <1>4a, <1>7, <1>8, <2>1, HoldStack
<1>10. \A t \in Slot : RefP(c1, t) = RefP(c, t) /\ HoldP(c1, t) = HoldP(c, t)
  <2> SUFFICES ASSUME NEW t \in Slot PROVE RefP(c1, t) = RefP(c, t) /\ HoldP(c1, t) = HoldP(c, t) OBVIOUS
  <2>1. ~Walk(c1) BY <1>3, <1>7, <1>7a DEF Walk
  <2>2. RefP(c1, t) = RefP(c, t) /\ (HoldP(c, t) <=> c.ip = t) /\ (HoldP(c1, t) <=> c.ip = t)
    BY <1>8, <2>1, HoldHands
  <2>3. HoldP(c1, t) \in BOOLEAN /\ HoldP(c, t) \in BOOLEAN BY DEF HoldP
  <2>4. QED BY <2>2, <2>3
<1>11. ProcOK(c1)
  <2>1. c1.ip = 0 /\ c1.put = 0 /\ c1.rip = 0 BY <1>1, <1>7
  <2>2. QED BY <1>7, <1>9, <2>1 DEF ProcOK, Apart
<1>12. PathAt(k, c1, l)
  <2>1. k.node[c.ip].ino \in {"root", "sub"} /\ l # "fson3" BY <1>3, <1>4 DEF d
  <2>2. QED BY <1>1, <1>3, <1>7, <1>8, <2>1, HoldPath
<1>13. Bot(c1.pc) = l /\ Bot(c.pc) \notin Owner /\ Bot(c1.pc) \notin Owner BY <1>1, <1>3, <1>7, <1>7a DEF Owner
<1>14. RootOwned(k, c1)
  <2>1. \A t \in Slot : RefP(c, t) # 0 /\ k.node[t].ino = "root" /\ ~IsMounted(k) => Bot(c.pc) \in Owner
    BY <1>1 DEF PathOK
  <2>2. QED BY <2>1, <1>10, <1>13 DEF RootOwned
<1>15. Empty(k, c1) BY <1>3, <1>13 DEF Empty
<1>16. PutOK(k, c1) BY <1>1, <1>7 DEF PutOK
<1>17. k1.node = k.node /\ k1.freel = k.freel /\ k1.fs = k.fs /\ \A q \in Proc \ {p} : k1.u[q] = k.u[q]
  BY <1>2, <1>6 DEF Only
<1>18. Others(k, k1, p) /\ SameNodes(k, k1) BY <1>17 DEF Others, KeepU, SameNodes, KeepN
<1>19. Good(k1, X)
  <2>1. \A t \in Slot : RefP(k1.u[p], t) = RefP(k.u[p], t) /\ HoldP(k1.u[p], t) = HoldP(k.u[p], t)
    BY <1>10 DEF c, c1
  <2>2. k1.u[p].chan = Awake BY <1>1, <1>7 DEF c1
  <2>3. \A q \in Proc \ {p} : k1.u[q].chan = <<"ilock", 0>> /\ k.fs.ilock => k1.fs.ilock BY <1>17
  <2>4. /\ ProcOK(k1.u[p]) /\ PutOK(k, k1.u[p]) /\ PathAt(k, k1.u[p], Bot(k1.u[p].pc)) /\ RootOwned(k, k1.u[p])
        /\ Empty(k, k1.u[p])
    BY <1>11, <1>12, <1>13, <1>14, <1>15, <1>16 DEF c1
  <2>5. Bot(k1.u[p].pc) \notin Owner /\ \A s \in Slot : ~OwnsRoot(k.u[p], s) BY <1>13 DEF c, c1, OwnsRoot
  <2>6. k1.fs.mdev = k.fs.mdev /\ k1.freel = k.freel BY <1>17
  <2>7. QED BY <1>6, <1>18, <2>1, <2>2, <2>3, <2>4, <2>5, <2>6, MoveGood
<1>20. QED BY <1>19 DEF k1, k0, rest, d, c, l

\* A process at a bottom routine, by its record.
LEMMA LastHere ==
  ASSUME NEW k, NEW X, Good(k, X), NEW p \in Proc, NEW l \in LastL, k.u[p].chan = Awake, k.u[p].pc = <<l>>
  PROVE  LastFacts(k, p, l)
<1> DEFINE c == k.u[p]
<1>1. /\ Types(k) /\ HandOK(c, c.pc) /\ Apart(c) /\ PathOK(k, c)
      /\ c.pc \in Seq(Label) /\ UserOK(c)
  BY DEF Good, Core, Mounts, ProcOK, Types, UsersOK, UserOK
<1>2. c.chan = Awake /\ c.pc = <<l>> OBVIOUS
<1>3. Tail(c.pc) = <<>> /\ Bot(c.pc) = l /\ Top(c.pc) = l /\ c.pc # <<>>
  BY <1>2, LastStack
<1> HIDE DEF c
<1>4. l \notin LeafL BY LeafFacts
<1>5. c.put = 0 /\ Up(c) = 0 BY <1>1, <1>3, <1>4 DEF HandOK, Up, LeafL
<1>6. PathAt(k, c, l) BY <1>1, <1>3, PathParts
<1>7. /\ c.dip # 0 <=> l \in WithDip
      /\ c.rip # 0 <=> l \in WithRip
      /\ c.mip # 0 <=> l \in WithMip
      /\ c.ip # 0 => l \in WithIp \cup PerhapsIp
      /\ l \in WithIp => c.ip # 0
  BY <1>1, <1>3 DEF HandOK
<1>8. FdOK(c, l) BY <1>1, <1>3, HandFd
<1>9. QED BY <1>1, <1>2, <1>3, <1>5, <1>6, <1>7, <1>8 DEF c, LastFacts

\* plock finds the inode locked: p sleeps, and comes back to l.
Waits(k, k1, p, s, l) ==
  /\ Types(k1) /\ SameRest(k, k1) /\ NodeBut(k, k1, s) /\ k.node[s].lock
  /\ KeepN(k.node[s], k1.node[s], {"want"}) /\ k1.node[s].want
  /\ \A q \in Proc \ {p} : k1.u[q] = k.u[q]
  /\ k1.u[p].pc = <<l>> /\ k1.u[p].chan = On(s) /\ k1.u[p].mip = s
  /\ KeepU(k.u[p], k1.u[p], {"pc", "chan", "mip"})

\* It sleeps for the directory a root is mounted on.
LEMMA WaitGood ==
  ASSUME NEW k, NEW k1, NEW X, Good(k, X), NEW p \in Proc, NEW s \in Slot, NEW l \in {"plockdir", "unhang"},
         NEW l0 \in {"plockdir", "fsoff", "unhang"}, LastFacts(k, p, l0), l0 = "plockdir" <=> l = "plockdir",
         s = k.u[p].mip, Waits(k, k1, p, s, l),
         l = "unhang" => \A t \in Slot : k.node[t].ino \notin {"mp", "none"} => t = k.u[p].rip /\ k.node[t].count = 1
  PROVE  Good(k1, X)
<1> DEFINE c == k.u[p]
           c1 == k1.u[p]
<1>1. /\ c.chan = Awake /\ Bot(c.pc) = l0 /\ Top(c.pc) = l0 /\ HandOK(c, c.pc) /\ c.put = 0 /\ Up(c) = 0
      /\ PathAt(k, c, l0) /\ PathOK(k, c) /\ Types(k) /\ s = c.mip
  BY DEF LastFacts
<1>2. /\ l \in LastL /\ l \notin WithDip \cup WithIp \cup PerhapsIp \cup Owner \cup Opens \cup Named \cup LeafL
      /\ l0 \notin WithDip \cup WithIp \cup PerhapsIp \cup Owner \cup {"got", "more", "upput"}
      /\ l \notin {"got", "more", "upput"}
      /\ l \in WithRip <=> l0 \in WithRip
      /\ l \in WithMip /\ l0 \in WithMip
  BY DEF WithDip, WithIp, PerhapsIp, WithRip, WithMip, Owner, Opens, Named, LeafL, LastL
<1>3. <<l>> \in Seq(Label) /\ <<l>> # <<>> /\ StackOK(<<l>>) /\ Top(<<l>>) = l /\ Bot(<<l>>) = l BY <1>2, LastStack
<1>4. /\ c1.pc = <<l>> /\ c1.chan = On(s) /\ c1.mip = c.mip /\ c1.ip = c.ip /\ c1.dip = c.dip /\ c1.put = 0
      /\ c1.rip = c.rip /\ c1.fd = c.fd /\ c1.fino = c.fino /\ c1.op = c.op /\ c1.name = c.name /\ c1.key = c.key
  <2>1. c1.pc = <<l>> /\ c1.chan = On(s) /\ c1.mip = s /\ KeepU(c, c1, {"pc", "chan", "mip"}) BY DEF Waits
  <2> HIDE DEF c, c1
  <2>2. QED BY <1>1, <2>1 DEF KeepU, UserF
<1>5. /\ Types(k1) /\ SameRest(k, k1) /\ NodeBut(k, k1, s) /\ k.node[s].lock
      /\ KeepN(k.node[s], k1.node[s], {"want"}) /\ k1.node[s].want
      /\ \A q \in Proc \ {p} : k1.u[q] = k.u[q]
  BY DEF Waits
<1>6. /\ s # 0 /\ c.ip = 0 /\ c.dip = 0
      /\ c.rip # 0 <=> l0 \in WithRip
  BY <1>1, <1>2, SlotFacts DEF HandOK
<1>7. Up(c1) = 0 /\ Rip(c1) = Rip(c) /\ ~Walk(c) /\ ~Walk(c1)
  BY <1>1, <1>2, <1>3, <1>4 DEF Up, Rip, Walk
<1> HIDE DEF c, c1
<1>8. ASSUME NEW t \in Slot PROVE RefP(c1, t) = RefP(c, t) /\ (HoldP(c1, t) <=> HoldP(c, t))
  <2>1. RefP(c1, t) = RefP(c, t) BY <1>1, <1>4, <1>7 DEF RefP
  <2>2. HoldP(c1, t) <=> HoldP(c, t) BY <1>1, <1>4, <1>7 DEF HoldP
  <2>3. QED BY <2>1, <2>2
<1>9. ASSUME NEW t \in Slot
      PROVE  /\ k1.node[t].ino = k.node[t].ino /\ k1.node[t].mroot = k.node[t].mroot
             /\ k1.node[t].count = k.node[t].count /\ k1.node[t].mpoint = k.node[t].mpoint
             /\ k1.node[t].lock = k.node[t].lock
             /\ k.node[t].want => k1.node[t].want
             /\ t = s => k1.node[t].want
  <2>1. CASE t = s
    <3>1. KeepN(k.node[t], k1.node[t], {"want"}) /\ k1.node[t].want BY <2>1, <1>5
    <3>2. /\ k1.node[t].ino = k.node[t].ino /\ k1.node[t].mroot = k.node[t].mroot
          /\ k1.node[t].count = k.node[t].count /\ k1.node[t].mpoint = k.node[t].mpoint
          /\ k1.node[t].lock = k.node[t].lock
      BY ONLY <3>1 DEF KeepN, NodeF
    <3>3. QED BY <2>1, <3>1, <3>2
  <2>2. CASE t # s BY <2>2, <1>5 DEF NodeBut
  <2>3. QED BY <2>1, <2>2
<1>10. Loose(k, k1, p, {})
  <2>1. Others(k, k1, p) BY <1>5 DEF Others, KeepU
  <2>2. \A t \in Slot : RefP(k1.u[p], t) = RefP(k.u[p], t) BY <1>8 DEF c, c1
  <2>3. \A t \in Slot : HoldP(k1.u[p], t) <=> (HoldP(k.u[p], t) /\ t \notin {}) BY <1>8 DEF c, c1
  <2>4. \E t \in Slot : k1.u[p].chan = On(t) /\ k1.node[t].lock /\ k1.node[t].want /\ k1.u[p].pc # <<>>
    <3>1. k1.node[s].lock /\ k1.node[s].want BY <1>5, <1>9
    <3>2. QED BY <3>1, <1>3, <1>4 DEF c1
  <2>5. k1.fs.ilock = k.fs.ilock /\ k1.freel = k.freel BY <1>5 DEF SameRest
  <2>6. \A t \in Slot : k1.node[t].lock <=> (k.node[t].lock /\ t \notin {}) BY <1>9
  <2>7. \A t \in Slot : k.node[t].want /\ t \notin {} => k1.node[t].want BY <1>9
  <2>8. \A t \in Slot : /\ k1.node[t].ino = k.node[t].ino /\ k1.node[t].mroot = k.node[t].mroot
                        /\ k1.node[t].count = k.node[t].count
    BY <1>9
  <2>9. Types(k1) BY <1>5
  <2>10. QED BY ONLY <2>1, <2>2, <2>3, <2>4, <2>5, <2>6, <2>7, <2>8, <2>9 DEF Loose
<1>11. Settled(k, k1, p)
  <2>1. Bot(c1.pc) = l BY <1>3, <1>4
  <2>2. c1.fd # 0 => k.node[c1.fd].ino = c1.fino /\ c1.fino \in InFs BY <1>1, <1>4 DEF PathAt
  <2>3. PathAt(k, c1, Bot(c1.pc))
    <3>1. l = "plockdir" => k.node[c1.mip].mroot # 0 BY <1>1, <1>4 DEF PathAt
    <3>2. l = "unhang" => k.node[c1.mip].mroot = c1.rip BY <1>1, <1>4 DEF PathAt
    <3>3. l \notin {"fson", "fson2", "dir", "more", "fson3", "fsoff"} OBVIOUS
    <3>4. QED BY <1>2, <2>1, <2>2, <3>1, <3>2, <3>3 DEF PathAt
  <2>4. ProcOK(c1)
    <3>1. /\ c.op \in {"open", "creat", "exec", "unlink"} => c.name \in Name
          /\ c.op \in {"open", "creat"} => c.fd = 0
          /\ l0 = "plockdir" => c.op = "dotdot"
          /\ l0 \in {"fsoff", "unhang"} => c.op = "unmount"
      BY <1>1 DEF HandOK
    <3>1a. /\ l \notin {"closef", "more", "putdir", "got", "funmount", "fsoff"}
           /\ l = "plockdir" => c.op = "dotdot"
           /\ l = "unhang" => c.op = "unmount"
      BY <3>1
    <3>1b. l \notin {"fstrunc", "fsiupdat", "iget", "fsiread", "upput"} OBVIOUS
    <3>2. HandOK(c1, c1.pc)
      BY ONLY <1>1, <1>2, <1>3, <1>4, <1>6, <3>1, <3>1a, <3>1b DEF HandOK
    <3>3. Apart(c1)
      <4>1. c1.ip = 0 /\ c1.put = 0 BY <1>4, <1>6
      <4>2. QED BY <4>1, <1>7 DEF Apart
    <3>4. QED BY <3>2, <3>3 DEF ProcOK
  <2>5. RootOwned(k, c1)
    <3>1. RootOwned(k, c) BY <1>1, PathParts
    <3>2. Bot(c.pc) \notin Owner BY <1>1, <1>2
    <3>3. QED BY <1>8, <3>1, <3>2 DEF RootOwned
  <2>6. PutOK(k1, c1) /\ Bot(c1.pc) \notin Owner BY <1>2, <1>4, <2>1 DEF PutOK
  <2>6a. Empty(k1, c1)
    <3>1. l = "unhang" => \A t \in Slot : k.node[t].ino \notin {"mp", "none"} => t = c.rip /\ k.node[t].count = 1
      BY DEF c
    <3>2. QED BY <1>4, <1>9, <2>1, <3>1 DEF Empty
  <2>7. \A t \in Slot : ~OwnsRoot(c, t) BY <1>1, <1>2 DEF OwnsRoot
  <2>8. /\ ProcOK(k1.u[p]) /\ PathAt(k, k1.u[p], Bot(k1.u[p].pc)) /\ RootOwned(k, k1.u[p]) /\ Empty(k1, k1.u[p])
        /\ PutOK(k1, k1.u[p]) /\ Bot(k1.u[p].pc) \notin Owner /\ \A t \in Slot : ~OwnsRoot(k.u[p], t)
    BY <2>3, <2>4, <2>5, <2>6, <2>6a, <2>7 DEF c1, c
  <2>9. \A t \in Slot : k1.node[t].mpoint = k.node[t].mpoint BY <1>9
  <2>10. k1.fs.mdev = k.fs.mdev BY <1>5 DEF SameRest
  <2>11. QED BY ONLY <2>8, <2>9, <2>10 DEF Settled
<1>12. Good(k1, X)
  <2> DEFINE D == {}
  <2>1. D \in SUBSET Slot /\ Loose(k, k1, p, D) BY <1>10
  <2> HIDE DEF D
  <2>2. QED BY <1>11, <2>1, LooseGood
<1>13. QED BY <1>12

\* plock finds it free: p locks it and has a reference to it.
Locks(k, k1, p, s) ==
  /\ Types(k1) /\ SameRest(k, k1) /\ NodeBut(k, k1, s) /\ ~k.node[s].lock
  /\ KeepN(k.node[s], k1.node[s], {"lock", "count"}) /\ k1.node[s].lock
  /\ k1.node[s].count = k.node[s].count + 1
  /\ \A q \in Proc \ {p} : k1.u[q] = k.u[q]
  /\ k1.u[p].pc = <<"iput">> /\ k1.u[p].ip = s /\ k1.u[p].mip = 0
  /\ KeepU(k.u[p], k1.u[p], {"pc", "ip", "mip"})

\* plock with the lock free.
LEMMA LocksGood ==
  ASSUME NEW k, NEW k1, NEW X, Good(k, X), NEW p \in Proc, NEW s \in Slot, LastFacts(k, p, "plockdir"),
         s = k.u[p].mip, Locks(k, k1, p, s)
  PROVE  Good(k1, X)
<1> DEFINE c == k.u[p]
           c1 == k1.u[p]
           l == "iput"
           D == {}
<1>1. /\ c.chan = Awake /\ Bot(c.pc) = "plockdir" /\ Top(c.pc) = "plockdir" /\ HandOK(c, c.pc) /\ c.put = 0 /\ Up(c) = 0
      /\ PathAt(k, c, "plockdir") /\ PathOK(k, c) /\ Types(k) /\ s = c.mip
      /\ c.rip = 0 /\ c.dip = 0 /\ c.ip = 0
  BY DEF LastFacts, WithRip, WithDip, WithIp, PerhapsIp
<1>2. /\ l \in LastL /\ l \in WithIp
      /\ l \notin WithDip \cup WithRip \cup WithMip \cup PerhapsIp \cup Owner \cup Opens \cup Named \cup LeafL
      /\ "plockdir" \notin Owner \cup {"got", "more", "upput"}
  BY DEF WithDip, WithIp, PerhapsIp, WithRip, WithMip, Owner, Opens, Named, LeafL, LastL
<1>3. <<l>> \in Seq(Label) /\ <<l>> # <<>> /\ StackOK(<<l>>) /\ Top(<<l>>) = l /\ Bot(<<l>>) = l BY <1>2, LastStack
<1>3a. l \notin {"got", "more", "upput", "fson", "fson2", "dir", "fson3", "fsoff", "unhang", "plockdir", "closef", "putdir",
                 "funmount", "fstrunc", "fsiupdat", "iget", "fsiread"}
       /\ D \in SUBSET Slot /\ \A t : t \notin D
  OBVIOUS
<1>4. /\ c1.pc = <<l>> /\ c1.chan = Awake /\ c1.mip = 0 /\ c1.ip = s /\ c1.dip = 0 /\ c1.put = 0
      /\ c1.rip = 0 /\ c1.fd = c.fd /\ c1.fino = c.fino /\ c1.op = c.op /\ c1.name = c.name /\ c1.key = c.key
  <2>1. c1.pc = <<l>> /\ c1.ip = s /\ c1.mip = 0 /\ KeepU(c, c1, {"pc", "ip", "mip"}) BY DEF Locks
  <2> HIDE DEF c, c1
  <2>2. QED BY <1>1, <2>1 DEF KeepU, UserF
<1>5. /\ Types(k1) /\ SameRest(k, k1) /\ NodeBut(k, k1, s) /\ ~k.node[s].lock
      /\ KeepN(k.node[s], k1.node[s], {"lock", "count"}) /\ k1.node[s].lock
      /\ k1.node[s].count = k.node[s].count + 1
      /\ \A q \in Proc \ {p} : k1.u[q] = k.u[q]
  BY DEF Locks
<1> HIDE DEF l, D
<1>7. Up(c1) = 0 /\ Rip(c1) = 0 /\ Rip(c) = 0 /\ ~Walk(c) /\ ~Walk(c1)
  BY <1>1, <1>3a, <1>2, <1>3, <1>4 DEF Up, Rip, Walk
<1> HIDE DEF c, c1
<1>8. ASSUME NEW t \in Slot PROVE RefP(c1, t) = RefP(c, t) + B(s = t) /\ (HoldP(c1, t) <=> t = s) /\ ~HoldP(c, t)
  <2>1. t # 0 BY SlotFacts
  <2>2. B(0 = t) = 0 BY <2>1 DEF B
  <2>3. RefP(c1, t) = B(s = t) + 0 + B(c.fd = t) + 0 + 0 + 0 BY <1>4, <1>7, <2>2 DEF RefP
  <2>4. RefP(c, t) = 0 + 0 + B(c.fd = t) + 0 + 0 + 0 BY <1>1, <1>7, <2>2 DEF RefP
  <2> DEFINE a == B(s = t)
             b == B(c.fd = t)
  <2>5. a \in Nat /\ b \in Nat BY DEF B
  <2> HIDE DEF a, b
  <2>6. (a + 0 + b + 0 + 0 + 0) = (0 + 0 + b + 0 + 0 + 0) + a BY <2>5
  <2>7. RefP(c1, t) = RefP(c, t) + B(s = t) BY <2>3, <2>4, <2>6 DEF a, b
  <2>8. HoldP(c1, t) <=> t = s BY <1>4, <1>7, <2>1 DEF HoldP
  <2>9. ~HoldP(c, t) BY <1>1, <1>7, <2>1 DEF HoldP
  <2>10. QED BY <2>7, <2>8, <2>9
<1>9. ASSUME NEW t \in Slot
      PROVE  /\ k1.node[t].ino = k.node[t].ino /\ k1.node[t].mroot = k.node[t].mroot
             /\ k1.node[t].mpoint = k.node[t].mpoint
             /\ k1.node[t].want = k.node[t].want
             /\ t # s => k1.node[t].count = k.node[t].count
             /\ t # s => k1.node[t].lock = k.node[t].lock
  <2>1. CASE t = s
    <3>1. KeepN(k.node[t], k1.node[t], {"lock", "count"}) BY <2>1, <1>5
    <3>2. /\ k1.node[t].ino = k.node[t].ino /\ k1.node[t].mroot = k.node[t].mroot
          /\ k1.node[t].mpoint = k.node[t].mpoint
          /\ k1.node[t].want = k.node[t].want
      BY ONLY <3>1 DEF KeepN, NodeF
    <3>3. QED BY <2>1, <3>1, <3>2
  <2>2. CASE t # s BY <2>2, <1>5 DEF NodeBut
  <2>3. QED BY <2>1, <2>2
<1>6. k.node[s].mroot # 0 /\ k.node[s].ino = "mp" /\ IsMounted(k)
  <2>1. k.node[s].mroot # 0 BY <1>1 DEF PathAt
  <2>2. MountInv(k) BY DEF Good, Mounts
  <2>3. QED BY <2>1, <2>2 DEF MountInv, IsMounted
<1>10. Took(k, k1, p, s, D)
  <2>1. Others(k, k1, p) BY <1>5 DEF Others, KeepU
  <2>2. \A t \in Slot : RefP(k1.u[p], t) = RefP(k.u[p], t) + B(s = t) BY <1>8 DEF c, c1
  <2>3. \A t \in Slot : HoldP(k1.u[p], t) <=> ((HoldP(k.u[p], t) /\ t \notin D) \/ t = s) BY <1>8 DEF c, c1
  <2>4. k1.u[p].chan = Awake BY <1>4 DEF c1
  <2>5. k1.fs.ilock = k.fs.ilock /\ k1.freel = k.freel BY <1>5 DEF SameRest
  <2>6. \A t \in Slot : t # s => /\ k1.node[t].count = k.node[t].count
                                 /\ k1.node[t].lock <=> (k.node[t].lock /\ t \notin D)
    BY <1>3a, <1>9
  <2>7. \A t \in Slot : k.node[t].want /\ t \notin D => k1.node[t].want BY <1>9
  <2>8. \A t \in Slot : k1.node[t].ino = k.node[t].ino /\ k1.node[t].mroot = k.node[t].mroot
    BY <1>9
  <2>9. k.node[s].ino # "none" BY <1>6
  <2>11. \A q \in Proc \ {p} : k1.u[q].chan = <<"ilock", 0>> /\ k.fs.ilock => k1.fs.ilock BY <2>5
  <2>12. /\ \A t \in D : HoldP(k.u[p], t)
         /\ \A t \in D, q \in Proc \ {p} : k.node[t].want => k1.u[q].chan # On(t)
    BY <1>3a
  <2>10. QED BY ONLY <1>5, <2>1, <2>2, <2>3, <2>4, <2>5, <2>6, <2>7, <2>8, <2>9, <2>11, <2>12 DEF Took
<1>11. Settled(k, k1, p)
  <2>1. Bot(c1.pc) = l BY <1>3, <1>4
  <2>2. c1.fd # 0 => k.node[c1.fd].ino = c1.fino /\ c1.fino \in InFs BY <1>1, <1>4 DEF PathAt
  <2>3. PathAt(k, c1, Bot(c1.pc))
    BY <1>2, <1>3a, <2>1, <2>2 DEF PathAt
  <2>4. ProcOK(c1)
    <3>1. /\ c.op \in {"open", "creat", "exec", "unlink"} => c.name \in Name
          /\ c.op \in {"open", "creat"} => c.fd = 0
      BY <1>1 DEF HandOK
    <3>1a. c1.ip # 0 BY <1>4, SlotFacts
    <3>2. HandOK(c1, c1.pc)
      BY ONLY <1>2, <1>3, <1>3a, <1>4, <3>1, <3>1a DEF HandOK
    <3>3. Apart(c1)
      <4>1. c1.ip # c1.put /\ c1.ip # c1.dip /\ c1.put = 0 /\ c1.rip = 0 BY <1>4, <3>1a
      <4>2. QED BY <4>1 DEF Apart
    <3>4. QED BY <3>2, <3>3 DEF ProcOK
  <2>5. RootOwned(k, c1) BY <1>6 DEF RootOwned
  <2>6. PutOK(k1, c1) /\ Bot(c1.pc) \notin Owner /\ Empty(k1, c1) BY <1>2, <1>3a, <1>4, <2>1 DEF PutOK, Empty
  <2>7. \A t \in Slot : ~OwnsRoot(c, t) BY <1>1, <1>2 DEF OwnsRoot
  <2>8. /\ ProcOK(k1.u[p]) /\ PathAt(k, k1.u[p], Bot(k1.u[p].pc)) /\ RootOwned(k, k1.u[p]) /\ Empty(k1, k1.u[p])
        /\ PutOK(k1, k1.u[p]) /\ Bot(k1.u[p].pc) \notin Owner /\ \A t \in Slot : ~OwnsRoot(k.u[p], t)
    BY <2>3, <2>4, <2>5, <2>6, <2>7 DEF c1, c
  <2>9. \A t \in Slot : k1.node[t].mpoint = k.node[t].mpoint BY <1>9
  <2>10. k1.fs.mdev = k.fs.mdev BY <1>5 DEF SameRest
  <2>11. QED BY ONLY <2>8, <2>9, <2>10 DEF Settled
<1>12. QED BY <1>3a, <1>10, <1>11, TookGood

\* Goto, after one field of the process was set.
LEMMA GotoSet ==
  ASSUME NEW k, Types(k), NEW p \in Proc, NEW l \in LastL, NEW s \in Slot
  PROVE  LET k1 == SetMip(Goto(k, p, <<l>>), p, s) IN
         /\ Types(k1) /\ k1.node = k.node /\ SameRest(k, k1) /\ \A q \in Proc \ {p} : k1.u[q] = k.u[q]
         /\ KeepU(k.u[p], k1.u[p], {"pc", "mip"}) /\ k1.u[p].pc = <<l>> /\ k1.u[p].mip = s
<1> DEFINE rest == <<l>>
           a == Goto(k, p, rest)
           k1 == SetMip(a, p, s)
<1>1. rest \in Seq(Label) /\ rest # <<>> BY LastStack
<1> HIDE DEF rest
<1>2. Types(a) /\ Only(k, a, p) /\ GoneTo(k.u[p], a.u[p], rest) BY <1>1, GotoEff
<1> HIDE DEF a
<1>3. s \in Opt BY SlotFacts
<1>4. Types(k1) /\ Only(a, k1, p) /\ KeepU(a.u[p], k1.u[p], {"mip"}) /\ k1.u[p].mip = s
  BY <1>2, <1>3, SetMipEff
<1> HIDE DEF k1
<1>5. KeepU(k.u[p], a.u[p], {"pc"}) /\ a.u[p].pc = rest BY <1>1, <1>2 DEF GoneTo, KeepU
<1>6. k1.u[p].pc = rest /\ KeepU(k.u[p], k1.u[p], {"pc", "mip"}) BY <1>4, <1>5 DEF KeepU, UserF
<1>7. k1.node = k.node /\ SameRest(k, k1) /\ \A q \in Proc \ {p} : k1.u[q] = k.u[q]
  BY <1>2, <1>4 DEF Only, SameRest
<1>8. QED BY <1>4, <1>6, <1>7 DEF k1, a, rest

\* plock of that directory.
LEMMA PlockEff ==
  ASSUME NEW k, Types(k), NEW p \in Proc, NEW s \in Slot
  PROVE  LET k1 == PlockDir(k, p, s) IN Waits(k, k1, p, s, "plockdir") \/ Locks(k, k1, p, s)
<1> DEFINE l == "plockdir"
           z == 0
           k1 == PlockDir(k, p, s)
<1>1. CASE k.node[s].lock
  <2> DEFINE b == SleepOn(k, p, s)
             kc == SetMip(Goto(b, p, <<l>>), p, s)
  <2>1. k1 = kc BY <1>1 DEF PlockDir, SetMip
  <2>2. /\ Types(b) /\ SameRest(k, b) /\ NodeBut(k, b, s)
        /\ KeepN(k.node[s], b.node[s], {"want"}) /\ b.node[s].want
        /\ \A q \in Proc \ {p} : b.u[q] = k.u[q]
        /\ KeepU(k.u[p], b.u[p], {"chan"}) /\ b.u[p].chan = On(s)
    BY SleepOnEff
  <2> HIDE DEF b
  <2>3. l \in LastL BY DEF LastL, WithMip
  <2> HIDE DEF l
  <2>4. Types(b) BY <2>2
  <2>5. /\ Types(kc) /\ kc.node = b.node /\ SameRest(b, kc) /\ \A q \in Proc \ {p} : kc.u[q] = b.u[q]
        /\ KeepU(b.u[p], kc.u[p], {"pc", "mip"}) /\ kc.u[p].pc = <<l>> /\ kc.u[p].mip = s
    BY ONLY <2>3, <2>4, GotoSet, p \in Proc, s \in Slot
  <2> HIDE DEF kc
  <2>6. kc.u[p].chan = On(s) /\ KeepU(k.u[p], kc.u[p], {"pc", "chan", "mip"}) BY <2>2, <2>5 DEF KeepU, UserF
  <2>7. /\ SameRest(k, kc) /\ NodeBut(k, kc, s)
        /\ KeepN(k.node[s], kc.node[s], {"want"}) /\ kc.node[s].want
        /\ \A q \in Proc \ {p} : kc.u[q] = k.u[q]
    BY <2>2, <2>5 DEF SameRest, NodeBut
  <2>8. Waits(k, kc, p, s, l) BY <1>1, <2>5, <2>6, <2>7 DEF Waits
  <2>9. QED BY <2>1, <2>8 DEF l
<1>2. CASE ~k.node[s].lock
  <2> DEFINE b == Lock(k, s)
             d == [b EXCEPT !.node[s].count = @ + 1]
             e == [d EXCEPT !.u[p].ip = s]
             f == SetMip(e, p, z)
             rest == <<"iput">>
             kc == Goto(f, p, rest)
  <2>0. [Lock(k, s) EXCEPT !.node[s].count = @ + 1, !.u[p].ip = s, !.u[p].mip = 0] = f BY DEF SetMip
  <2>1. k1 = kc BY <1>2, <2>0 DEF PlockDir
  <2>2. /\ Types(b) /\ SameRest(k, b) /\ b.u = k.u /\ NodeBut(k, b, s)
        /\ KeepN(k.node[s], b.node[s], {"lock"}) /\ b.node[s].lock
    BY LockEff
  <2> HIDE DEF b
  <2>3. /\ Types(d) /\ SameRest(b, d) /\ d.u = b.u /\ NodeBut(b, d, s)
        /\ KeepN(b.node[s], d.node[s], {"count"}) /\ d.node[s].count = b.node[s].count + 1
    BY <2>2, MoreCount
  <2> HIDE DEF d
  <2>4. s \in Opt /\ z \in Opt BY SlotFacts
  <2>4a. z = 0 OBVIOUS
  <2> HIDE DEF z
  <2>5. Types(d) BY <2>3
  <2>6. Types(e) /\ Only(d, e, p) /\ KeepU(d.u[p], e.u[p], {"ip"}) /\ e.u[p].ip = s
    BY <2>4, <2>5, SetIp
  <2> HIDE DEF e
  <2>7. Types(f) /\ Only(e, f, p) /\ KeepU(e.u[p], f.u[p], {"mip"}) /\ f.u[p].mip = z
    BY <2>4, <2>6, SetMipEff
  <2> HIDE DEF f
  <2>8. rest \in Seq(Label) /\ rest # <<>> BY LastStack DEF LastL, WithIp
  <2> HIDE DEF rest
  <2>9. Types(kc) /\ Only(f, kc, p) /\ GoneTo(f.u[p], kc.u[p], rest) BY <2>7, <2>8, GotoEff
  <2> HIDE DEF kc
  <2>10. kc.u[p].pc = rest /\ KeepU(f.u[p], kc.u[p], {"pc"}) BY <2>8, <2>9 DEF GoneTo, KeepU
  <2>11. d.u = k.u BY <2>2, <2>3
  <2>12. kc.u[p].ip = s /\ kc.u[p].mip = 0 /\ KeepU(k.u[p], kc.u[p], {"pc", "ip", "mip"})
    BY <2>4a, <2>6, <2>7, <2>10, <2>11 DEF KeepU, UserF
  <2>13. kc.node = d.node /\ SameRest(k, kc) /\ \A q \in Proc \ {p} : kc.u[q] = k.u[q]
    BY <2>2, <2>3, <2>6, <2>7, <2>9 DEF Only, SameRest
  <2>14. NodeBut(k, kc, s) BY <2>2, <2>3, <2>13 DEF NodeBut
  <2>15. KeepN(k.node[s], kc.node[s], {"lock", "count"}) BY <2>2, <2>3, <2>13, KeepNTrans
  <2>16. kc.node[s].lock /\ kc.node[s].count = k.node[s].count + 1
    BY <2>2, <2>3, <2>13 DEF KeepN, NodeF
  <2>17. Locks(k, kc, p, s) BY <1>2, <2>9, <2>10, <2>12, <2>13, <2>14, <2>15, <2>16 DEF Locks, rest
  <2>18. QED BY <2>1, <2>17
<1>3. QED BY <1>1, <1>2

\* It keeps the invariant.
LEMMA PlockGood ==
  ASSUME NEW k, NEW k1, NEW X, Good(k, X), NEW p \in Proc, NEW s \in Slot, LastFacts(k, p, "plockdir"),
         s = k.u[p].mip, Waits(k, k1, p, s, "plockdir") \/ Locks(k, k1, p, s)
  PROVE  Good(k1, X)
<1>1. CASE Waits(k, k1, p, s, "plockdir")
  <2> DEFINE l == "plockdir"
  <2>1. l \in {"plockdir", "unhang"} /\ l \in {"plockdir", "fsoff", "unhang"} /\ (l = "plockdir" <=> l = "plockdir")
        /\ l # "unhang" /\ LastFacts(k, p, l) /\ Waits(k, k1, p, s, l)
    BY <1>1
  <2> HIDE DEF l
  <2>2. QED BY <2>1, WaitGood
<1>2. CASE Locks(k, k1, p, s) BY <1>2, LocksGood
<1>3. QED BY <1>1, <1>2

\* plock, after it has slept.
LEMMA PlockDirAgainGood ==
  ASSUME NEW k, k = K, NEW X, Good(k, X), NEW p \in Proc, PlockDirAgain(p)
  PROVE  \E k1 : Become(k1) /\ Good(k1, X)
<1> DEFINE s == k.u[p].mip
           k1 == PlockDir(k, p, s)
<1>1. At(p, "plockdir") /\ Become(k1) BY KFacts DEF PlockDirAgain
<1>2. "plockdir" \in LastL /\ "plockdir" \in WithMip BY DEF LastL, WithMip
<1>3. LastFacts(k, p, "plockdir") BY <1>1, <1>2, LastAt
<1>4. s \in Slot /\ Types(k)
  <2>1. Types(k) /\ s # 0 BY <1>2, <1>3 DEF LastFacts
  <2>2. QED BY <2>1, HandTypes
<1>5. s = k.u[p].mip OBVIOUS
<1> HIDE DEF s
<1>6. Waits(k, k1, p, s, "plockdir") \/ Locks(k, k1, p, s) BY <1>4, PlockEff
<1> HIDE DEF k1
<1>7. Good(k1, X) BY <1>3, <1>4, <1>5, <1>6, PlockGood
<1>8. QED BY <1>1, <1>7

\* The root a process has in hand that mounts and unmounts nothing: what it is mounted on.
LEMMA RootMounted ==
  ASSUME NEW k, NEW X, Good(k, X), NEW p \in Proc, Bot(k.u[p].pc) \notin Owner, NEW r \in Slot,
         RefP(k.u[p], r) # 0, k.node[r].ino = "root", NEW m, m = k.node[r].mpoint
  PROVE  /\ m \in Slot /\ k.node[m].mroot = r /\ k.node[m].ino = "mp" /\ m # r
         /\ k.node[r].count \in Nat /\ k.node[r].count # 1
<1>1. Core(k, X) /\ MountInv(k) /\ PathOK(k, k.u[p]) BY DEF Good, Mounts
<1>2. IsMounted(k) BY <1>1 DEF PathOK
<1>3. PICK n \in Slot : k.node[n].mroot # 0 BY <1>2 DEF IsMounted
<1>4. /\ k.node[n].ino = "mp" /\ k.node[k.node[n].mroot].ino = "root" /\ k.node[k.node[n].mroot].mpoint = n
  BY <1>1, <1>3 DEF MountInv
<1>5. k.node[n].mroot \in Slot
  <2>1. NodeOK(k.node[n]) BY <1>1 DEF Core, Types, NodesOK
  <2>2. QED BY <1>3, <2>1 DEF NodeOK, Opt
<1>6. k.node[n].mroot = r
  <2>1. TableInv(k) BY <1>1 DEF Core
  <2>2. QED BY <1>4, <1>5, <2>1 DEF TableInv
<1>7. n = m BY <1>4, <1>6
<1>8. n # r BY <1>4
<1>9. MountRefs(k.node, r) # 0 BY <1>6, MountPos
<1>10. /\ k.node[r].count \in Nat /\ RefP(k.u[p], r) \in Nat /\ MountRefs(k.node, r) \in Nat /\ X[r] \in Nat
       /\ k.node[r].count >= RefP(k.u[p], r) + MountRefs(k.node, r) + X[r]
  BY <1>1, CountAtLeast
<1> DEFINE a == RefP(k.u[p], r)
           b == MountRefs(k.node, r)
           d == k.node[r].count
           x == X[r]
<1>11. d \in Nat /\ a \in Nat /\ b \in Nat /\ x \in Nat /\ d >= a + b + x /\ a # 0 /\ b # 0 BY <1>9, <1>10
<1> HIDE DEF a, b, d, x
<1>12. d # 1 BY ONLY <1>11
<1>13. QED BY <1>4, <1>6, <1>7, <1>8, <1>10, <1>12 DEF d

\* ".." of a root: the root is given up before the directory is locked.
LEMMA CrossGood ==
  ASSUME NEW k, NEW X, Good(k, X), NEW p \in Proc, DirAt(k, p), k.u[p].op = "dotdot",
         k.node[k.u[p].ip].ino = "root"
  PROVE  Good(PlockDir(PutIp(k, p, <<"plockdir">>), p, k.node[k.u[p].ip].mpoint), X)
<1> DEFINE c == k.u[p]
           r == c.ip
           m == k.node[r].mpoint
           l == "plockdir"
           rest == <<l>>
           z == 0
           k0 == [k EXCEPT !.u[p].ip = z]
           ka == Iput(k0, p, r, rest)
           k3 == SetMip(k0, p, m)
           c3 == k3.u[p]
           k4 == SetMip(ka, p, m)
           k2 == PlockDir(ka, p, m)
<1>0. PutIp(k, p, rest) = ka BY DEF PutIp
<1>1. /\ Types(k) /\ r \in Slot /\ c.chan = Awake /\ Bot(c.pc) = "dir" /\ Top(c.pc) = "dir"
      /\ c.put = 0 /\ Up(c) = 0 /\ PathAt(k, c, "dir") /\ PathOK(k, c)
      /\ c.dip = 0 /\ c.rip = 0 /\ c.mip = 0 /\ c.op = "dotdot" /\ k.node[r].ino = "root"
  BY DEF DirAt, LastFacts, WithDip, WithRip, WithMip
<1>2. /\ l \in LastL /\ l \in WithMip
      /\ l \notin WithDip \cup WithIp \cup PerhapsIp \cup WithRip \cup Owner \cup Opens \cup Named \cup LeafL
      /\ "dir" \notin Owner
  BY DEF WithDip, WithIp, PerhapsIp, WithRip, WithMip, Owner, Opens, Named, LeafL, LastL
<1>3. rest \in Seq(Label) /\ rest # <<>> /\ StackOK(rest) /\ Top(rest) = l /\ Bot(rest) = l BY <1>2, LastStack
<1>3a. l \notin {"got", "more", "upput", "fson", "fson2", "dir", "fson3", "fsoff", "unhang", "closef", "putdir",
                 "funmount", "fstrunc", "fsiupdat", "iget", "fsiread"} /\ z = 0 /\ m = k.node[r].mpoint
  OBVIOUS
<1> HIDE DEF c, l, rest, m, z
<1>4. r \in Slot /\ r # 0 /\ z \in Opt BY <1>1, <1>3a, SlotFacts
<1>5. RefP(c, r) # 0 BY <1>4, HandRef
<1>6. /\ m \in Slot /\ k.node[m].mroot = r /\ k.node[m].ino = "mp" /\ m # r
      /\ k.node[r].count \in Nat /\ k.node[r].count # 1
  <2>1. Bot(k.u[p].pc) \notin Owner BY <1>1, <1>2 DEF c
  <2>2. RefP(k.u[p], r) # 0 /\ r \in Slot /\ k.node[r].ino = "root" BY <1>1, <1>5 DEF c
  <2> HIDE DEF r
  <2>3. m = k.node[r].mpoint BY <1>3a
  <2>4. Good(k, X) OBVIOUS
  <2>5. QED BY ONLY <2>1, <2>2, <2>3, <2>4, RootMounted, p \in Proc
<1> HIDE DEF r
<1>7. Types(k0) /\ Only(k, k0, p) /\ KeepU(c, k0.u[p], {"ip"}) /\ k0.u[p].ip = 0
  <2>1. Types(k) BY <1>1
  <2>2. Types(k0) /\ Only(k, k0, p) /\ KeepU(k.u[p], k0.u[p], {"ip"}) /\ k0.u[p].ip = z
    BY ONLY <2>1, <1>4, SetIp, p \in Proc
  <2>3. QED BY <2>2, <1>3a DEF c
<1> HIDE DEF k0
<1>8. k0.node = k.node /\ k0.freel = k.freel /\ k0.fs = k.fs /\ \A q \in Proc \ {p} : k0.u[q] = k.u[q]
  BY <1>7 DEF Only
<1>9. Dropped(k0, ka, p, r, rest)
  <2>1. k.node[r].ino # "none" /\ k.node[r].count # 0
    <3>1. RefP(k.u[p], r) # 0 /\ Core(k, X) BY <1>5 DEF c, Good
    <3>2. k.node[r].count \in Nat \ {0} BY <3>1, <1>4, RefIno
    <3>3. QED BY <3>2, <1>1
  <2>2. k0.node[r].ino # "none" /\ k0.node[r].count # 0 /\ k0.node[r].count # 1 BY <1>6, <1>8, <2>1
  <2>3. k0.u[p].chan = Awake BY <1>1, <1>7 DEF KeepU, UserF
  <2>4. QED BY <1>3, <1>4, <1>7, <2>2, <2>3, IputEff
<1> HIDE DEF ka
<1>10. /\ Types(ka) /\ SameRest(k0, ka) /\ NodeBut(k0, ka, r)
       /\ KeepN(k0.node[r], ka.node[r], {"lock", "want", "count"})
       /\ ~ka.node[r].lock /\ ka.node[r].count = k0.node[r].count - 1
       /\ CalledBut(k0, ka, p, r) /\ GoneTo(k0.u[p], ka.u[p], rest)
  BY <1>9 DEF Dropped
<1>11. m \in Opt BY <1>6, SlotFacts
<1>12. Types(k3) /\ Only(k0, k3, p) /\ KeepU(k0.u[p], c3, {"mip"}) /\ c3.mip = m
  BY <1>7, <1>11, SetMipEff
<1>13. Types(k4) /\ Only(ka, k4, p) /\ KeepU(ka.u[p], k4.u[p], {"mip"}) /\ k4.u[p].mip = m
  BY <1>10, <1>11, SetMipEff
<1> HIDE DEF k3, k4
<1>14. /\ c3.ip = 0 /\ c3.dip = 0 /\ c3.put = 0 /\ c3.rip = 0 /\ c3.mip = m /\ c3.fd = c.fd /\ c3.fino = c.fino
       /\ c3.op = c.op /\ c3.name = c.name /\ c3.chan = Awake
       /\ KeepU(c, c3, {"ip", "mip"})
  <2> HIDE DEF c3
  <2>1. KeepU(c, c3, {"ip", "mip"}) /\ c3.ip = 0 BY <1>7, <1>12 DEF KeepU, UserF
  <2>2. QED BY <1>1, <1>12, <2>1 DEF KeepU, UserF
<1>15. Dropped(k3, k4, p, r, rest)
  <2>1. k3.node = k0.node /\ k4.node = ka.node /\ SameRest(k3, k4)
    BY <1>10, <1>12, <1>13 DEF Only, SameRest
  <2>2. \A q \in Proc \ {p} : k3.u[q] = k0.u[q] /\ k4.u[q] = ka.u[q] BY <1>12, <1>13 DEF Only
  <2>3. CalledBut(k3, k4, p, r) BY <1>10, <2>1, <2>2 DEF CalledBut
  <2>4. GoneTo(c3, k4.u[p], rest)
    <3> DEFINE c0 == k0.u[p]
               ca == ka.u[p]
               c4 == k4.u[p]
    <3>1. /\ KeepU(c0, ca, {"pc"}) /\ ca.pc = rest /\ KeepU(c0, c3, {"mip"}) /\ KeepU(ca, c4, {"mip"})
          /\ c4.mip = c3.mip
      BY <1>3, <1>10, <1>12, <1>13 DEF GoneTo, KeepU
    <3> HIDE DEF c0, ca, c4, c3
    <3>2. KeepU(c3, c4, {"pc"}) /\ c4.pc = rest BY <3>1 DEF KeepU, UserF
    <3>3. GoneTo(c3, c4, rest) BY <1>3, <3>2 DEF GoneTo, KeepU, UserF
    <3>4. QED BY <3>3 DEF c4
  <2>5. NodeBut(k3, k4, r) BY <1>10, <2>1 DEF NodeBut
  <2>6. QED BY <1>10, <1>13, <2>1, <2>3, <2>4, <2>5 DEF Dropped
<1>16. Prep(k, k3, p, r)
  <2>1. SameNodes(k, k) BY DEF SameNodes, KeepN
  <2>2. Apt(k, k, p) BY <1>1, <2>1 DEF Apt, c
  <2>3. Only(k, k3, p) BY <1>7, <1>12 DEF Only
  <2> DEFINE S == {"ip", "mip"}
  <2>4. KeepU(k.u[p], k3.u[p], S) /\ "chan" \notin S BY <1>14 DEF c
  <2> HIDE DEF S
  <2>5. QED BY <1>4, <1>12, <2>2, <2>3, <2>4, AptPrep
<1>17. HandOK(c3, rest)
  <2>1. c.op \in {"open", "creat", "exec", "unlink"} => c.name \in Name
    BY <1>1
  <2>2. m # 0 BY <1>6, SlotFacts
  <2> HIDE DEF c3
  <2>3. c3.op = "dotdot" /\ "dotdot" \notin {"open", "creat", "exec", "unlink"} BY <1>1, <1>14
  <2>4. QED BY ONLY <1>2, <1>3, <1>3a, <1>14, <2>2, <2>3 DEF HandOK
<1>18. Given(k, k3, p, r, rest)
  <2>1. Rip(c) = 0 /\ Rip(c3) = 0 /\ ~Walk(c) BY <1>1, <1>14 DEF Rip, Walk
  <2> HIDE DEF c3
  <2>2. ASSUME NEW t \in Slot PROVE RefP(c, t) = RefQ(c3, t) + B(r = t)
    <3>1. t # 0 BY SlotFacts
    <3>2. B(0 = t) = 0 /\ B(r = t) \in Nat /\ B(c.fd = t) \in Nat BY <3>1 DEF B
    <3>3. RefP(c, t) = B(r = t) + 0 + B(c.fd = t) + 0 + 0 + 0 BY <1>1, <2>1, <3>2 DEF RefP, r
    <3>4. RefQ(c3, t) = 0 + 0 + B(c.fd = t) + 0 BY <1>14, <2>1, <3>2 DEF RefQ
    <3> DEFINE a == B(r = t)
               b == B(c.fd = t)
    <3>5. a \in Nat /\ b \in Nat BY <3>2
    <3> HIDE DEF a, b
    <3>6. (a + 0 + b + 0 + 0 + 0) = (0 + 0 + b + 0) + a BY <3>5
    <3>7. QED BY <3>3, <3>4, <3>6 DEF a, b
  <2>3. ASSUME NEW t \in Slot \ {r} PROVE HoldP(c, t) <=> HoldQ(c3, t, Bot(rest))
    <3>1. t # 0 /\ t # r BY SlotFacts
    <3>2. ~HoldP(c, t) BY <1>1, <3>1 DEF HoldP, r
    <3>3. ~HoldQ(c3, t, Bot(rest)) BY <1>14, <3>1 DEF HoldQ
    <3>4. QED BY <3>2, <3>3
  <2>4. c3.ip = 0 BY <1>14
  <2>5. QED BY <1>17, <1>2, <1>3, <2>2, <2>3, <2>4 DEF Given, c, c3
<1>19. GiveLock(k, k3, p, r, rest)
  <2>1. HoldP(c, r) BY DEF HoldP, r
  <2>2. ~HoldQ(c3, r, Bot(rest)) BY <1>4, <1>14 DEF HoldQ
  <2>3. QED BY <2>1, <2>2 DEF GiveLock, c, c3
<1>20. Onward(k, k3, p, r, rest)
  <2>1. k3.fs = k.fs BY <1>8, <1>12 DEF Only
  <2>2. PathAt(k, c3, l)
    <3>1. c3.fd # 0 => k.node[c3.fd].ino = c3.fino /\ c3.fino \in InFs BY <1>1, <1>14 DEF PathAt
    <3>2. k.node[c3.mip].mroot # 0 BY <1>4, <1>6, <1>14
    <3>3. QED BY <1>2, <1>3a, <3>1, <3>2 DEF PathAt
  <2>3. Bot(c.pc) \notin Owner /\ Bot(rest) \notin Owner /\ Bot(rest) # "unhang" BY <1>1, <1>2, <1>3, <1>3a
  <2>4. QED BY <1>3, <2>1, <2>2, <2>3 DEF Onward, c, c3
<1>21. Gave(k3, k4, p, r, rest)
  <2>1. k3.node = k.node BY <1>8, <1>12 DEF Only
  <2>2. QED BY <1>6, <1>15, <2>1 DEF Gave
<1>22. Good(k4, X) BY <1>3, <1>4, <1>16, <1>18, <1>19, <1>20, <1>21, GiveGood
<1>23. LastFacts(k4, p, l)
  <2>1. k4.u[p].chan = Awake /\ k4.u[p].pc = rest
    <3>1. GoneTo(c3, k4.u[p], rest) BY <1>15 DEF Dropped
    <3>2. k4.u[p].chan = c3.chan /\ k4.u[p].pc = rest BY <1>3, <3>1 DEF GoneTo, UserF
    <3>3. QED BY <3>2, <1>14
  <2>2. QED BY <1>2, <1>22, <2>1, LastHere DEF rest
<1>24. Waits(ka, k2, p, m, l) \/ Locks(ka, k2, p, m) BY <1>6, <1>10, PlockEff DEF l
<1> HIDE DEF k2
<1>25. Waits(k4, k2, p, m, l) \/ Locks(k4, k2, p, m)
  <2>1. k4.node = ka.node /\ k4.freel = ka.freel /\ k4.fs = ka.fs /\ k4.panic = ka.panic
        /\ \A q \in Proc \ {p} : k4.u[q] = ka.u[q]
    BY <1>13 DEF Only
  <2> DEFINE ca == ka.u[p]
             c4 == k4.u[p]
             c2 == k2.u[p]
  <2>2. KeepU(ca, c4, {"mip"}) BY <1>13
  <2>3. CASE Waits(ka, k2, p, m, l)
    <3>1. KeepU(ca, c2, {"pc", "chan", "mip"}) BY <2>3 DEF Waits
    <3> HIDE DEF ca, c4, c2
    <3>2. KeepU(c4, c2, {"pc", "chan", "mip"}) BY <2>2, <3>1 DEF KeepU
    <3>3. QED BY <2>1, <2>3, <3>2 DEF Waits, SameRest, NodeBut, c4, c2
  <2>4. CASE Locks(ka, k2, p, m)
    <3>1. KeepU(ca, c2, {"pc", "ip", "mip"}) BY <2>4 DEF Locks
    <3> HIDE DEF ca, c4, c2
    <3>2. KeepU(c4, c2, {"pc", "ip", "mip"}) BY <2>2, <3>1 DEF KeepU
    <3>3. QED BY <2>1, <2>4, <3>2 DEF Locks, SameRest, NodeBut, c4, c2
  <2>5. QED BY <1>24, <2>3, <2>4
<1>26. m = k4.u[p].mip BY <1>13
<1>27. Good(k2, X) BY <1>6, <1>22, <1>23, <1>25, <1>26, PlockGood DEF l
<1>28. QED BY <1>0, <1>27 DEF k2, rest, l, m, c, r

\* The system calls that walk a path name.
DirOps == {"open", "creat", "exec", "unlink", "dotdot", "mount", "unmount"}

\* A directory is searched.
LEMMA DirGood ==
  ASSUME NEW k, k = K, NEW X, Good(k, X), NEW p \in Proc, Dir(p), k.u[p].op \in DirOps
  PROVE  \E k1 : Become(k1) /\ Good(k1, X)
<1> DEFINE c == k.u[p]
           d == c.ip
           l == "dir"
           name == c.name
           key == k.fs.dir[name]
           insub == name \in run.insub
           place == k.node[d].ino = IF insub THEN "sub" ELSE "root"
           there == key # "none"
           calls == {"open", "creat", "exec", "unlink"}
           ka == Goto(k, p, <<>>)
           kb == Goto(k, p, <<"fson">>)
           kc == Goto(k, p, <<"funmount">>)
           kd == PlockDir(PutIp(k, p, <<"plockdir">>), p, k.node[d].mpoint)
           ke == PutIp(k, p, <<>>)
           kf == Iget(SetHold(Prele(k, d), p, d), p, "sub", <<"more">>)
           kg == Iget(SetHold(Prele(k, d), p, d), p, key, <<"got">>)
           kh == Iget(SetHold(k, p, d), p, key, <<"dormfile">>)
           ki == Goto(SetHold(k, p, d), p, <<"ialloc">>)
<1>1. /\ At(p, l)
      /\ CASE d = 0 -> Become(ka)
           [] d # 0 /\ c.op = "mount" -> Become(kb)
           [] d # 0 /\ c.op = "unmount" -> Become(kc)
           [] d # 0 /\ c.op = "dotdot" -> Become(IF k.node[d].ino = "root" THEN kd ELSE ke)
           [] d # 0 /\ c.op \in calls ->
                CASE k.node[d].ino = "mp" -> Become(ke)
                  [] k.node[d].ino = "root" /\ insub -> Become(kf)
                  [] place /\ there /\ c.op # "unlink" -> Become(kg)
                  [] place /\ there /\ c.op = "unlink" -> Become(kh)
                  [] place /\ ~there /\ c.op = "creat" -> Become(ki)
                  [] OTHER -> Become(ke)
  BY KFacts DEF Dir, Enter, Cross, InPlace, SetHold
<1>2. l \in LastL /\ l \in PerhapsIp /\ l \notin WithDip \cup WithIp \cup WithRip \cup WithMip \cup Owner \cup Opens
  BY DEF LastL, PerhapsIp, WithDip, WithIp, WithRip, WithMip, Owner, Opens
<1>3. LastFacts(k, p, l) BY <1>1, <1>2, LastAt
<1>4. /\ Types(k) /\ HandOK(c, c.pc) /\ c.dip = 0 /\ c.rip = 0 /\ c.mip = 0 /\ PathAt(k, c, l)
      /\ c.op \in {"open", "creat"} => c.fd = 0
  BY <1>2, <1>3 DEF LastFacts, FdOK
<1>5. c.op \in {"open", "creat", "exec", "unlink"} => c.name \in Name BY <1>4 DEF HandOK
<1>6. d # 0 => DirAt(k, p)
  <2>1. d # 0 => d \in Slot BY <1>4, HandTypes
  <2>2. QED BY <1>3, <1>4, <1>5, <2>1 DEF DirAt
<1>7. SameNodes(k, k) /\ Others(k, k, p) /\ KeepU(k.u[p], k.u[p], {"op", "key"})
  BY DEF SameNodes, KeepN, Others, KeepU
<1>8. d = 0 => Good(ka, X)
  <2>1. l \notin WithDip \cup WithRip \cup WithMip BY <1>2
  <2>2. k.fs.mdev => k.fs.mdev \/ l \in Owner OBVIOUS
  <2> HIDE DEF l
  <2>3. QED BY <1>3, <1>4, <1>7, <2>1, <2>2, LeaveGood
<1>9. d # 0 /\ c.op = "mount" => Good(kb, X)
  <2> SUFFICES ASSUME d # 0, c.op = "mount" PROVE Good(kb, X) OBVIOUS
  <2> DEFINE l1 == "fson"
             pc == <<l1>>
  <2>1. /\ l1 \in LastL /\ l1 \in WithIp
        /\ l1 \notin WithDip \cup WithRip \cup WithMip \cup Owner \cup Opens \cup Named
    BY DEF LastL, WithIp, WithDip, WithRip, WithMip, Owner, Opens, Named
  <2>2. pc \in Seq(Label) /\ pc # <<>> /\ StackOK(pc) /\ Top(pc) \notin LeafL /\ Bot(pc) = l1 BY <2>1, LastStack
  <2>3. PathAt(k, c, l1)
    <3>1. k.node[c.ip].ino \in {"mp", "root"} BY <1>4 DEF PathAt
    <3>2. c.fd # 0 => k.node[c.fd].ino = c.fino /\ c.fino \in InFs BY <1>4 DEF PathAt
    <3>3. QED BY <2>1, <3>1, <3>2 DEF PathAt
  <2>4. l1 \notin {"closef", "more", "got", "plockdir", "fsoff", "unhang"} /\ l1 # "funmount" /\ l1 # "putdir"
        /\ l \notin {"got", "more"}
    OBVIOUS
  <2>5. Good(Goto(k, p, pc), X)
    <3> HIDE DEF pc, l, l1, c
    <3>1. k.u[p].op \in {k.u[p].op, "failed"} OBVIOUS
    <3>2. PathAt(k, k.u[p], l1) BY <2>3 DEF c
    <3>3. /\ (l1 \in WithDip <=> l \in WithDip) /\ (l1 \in WithRip <=> l \in WithRip)
          /\ (l1 \in WithMip <=> l \in WithMip) /\ (l1 \in Owner <=> l \in Owner)
      BY <1>2, <2>1
    <3>4. k.u[p].ip # 0 BY DEF c
    <3>5. Types(k) BY <1>4
    <3>6. (k.u[p].ip # 0 => l1 \in WithIp \cup PerhapsIp) /\ (l1 \in WithIp => k.u[p].ip # 0)
          /\ (l1 = "funmount" => k.u[p].op = "unmount" /\ k.u[p].op = k.u[p].op)
          /\ (l1 \in Opens \/ (l1 = "putdir" /\ k.u[p].ip # 0) => k.u[p].fd = 0)
      BY <2>1, <2>4, <3>4
    <3>7. QED BY ONLY Good(k, X), <1>3, <1>7, <2>2, <2>4, <3>1, <3>2, <3>3, <3>5, <3>6, TurnStep, p \in Proc
  <2>6. QED BY <2>5
<1>10. d # 0 /\ c.op = "unmount" => Good(kc, X)
  <2> SUFFICES ASSUME d # 0, c.op = "unmount" PROVE Good(kc, X) OBVIOUS
  <2> DEFINE l1 == "funmount"
             pc == <<l1>>
  <2>1. /\ l1 \in LastL /\ l1 \in WithIp
        /\ l1 \notin WithDip \cup WithRip \cup WithMip \cup Owner \cup Opens \cup Named
    BY DEF LastL, WithIp, WithDip, WithRip, WithMip, Owner, Opens, Named
  <2>2. pc \in Seq(Label) /\ pc # <<>> /\ StackOK(pc) /\ Top(pc) \notin LeafL /\ Bot(pc) = l1 BY <2>1, LastStack
  <2>4. l1 \notin {"closef", "more", "got", "plockdir", "fsoff", "unhang"} /\ l1 # "putdir"
        /\ l \notin {"got", "more"} /\ l1 \notin {"fson", "fson2", "dir", "fson3"}
    OBVIOUS
  <2>3. PathAt(k, c, l1)
    <3>2. c.fd # 0 => k.node[c.fd].ino = c.fino /\ c.fino \in InFs BY <1>4 DEF PathAt
    <3>3. QED BY <2>1, <2>4, <3>2 DEF PathAt
  <2>5. Good(Goto(k, p, pc), X)
    <3> HIDE DEF pc, l, l1, c
    <3>1. k.u[p].op \in {k.u[p].op, "failed"} /\ k.u[p].op = "unmount" BY DEF c
    <3>2. PathAt(k, k.u[p], l1) BY <2>3 DEF c
    <3>3. /\ (l1 \in WithDip <=> l \in WithDip) /\ (l1 \in WithRip <=> l \in WithRip)
          /\ (l1 \in WithMip <=> l \in WithMip) /\ (l1 \in Owner <=> l \in Owner)
      BY <1>2, <2>1
    <3>4. k.u[p].ip # 0 BY DEF c
    <3>5. Types(k) BY <1>4
    <3>6. (k.u[p].ip # 0 => l1 \in WithIp \cup PerhapsIp) /\ (l1 \in WithIp => k.u[p].ip # 0)
          /\ (l1 = "funmount" => k.u[p].op = "unmount" /\ k.u[p].op = k.u[p].op)
          /\ (l1 \in Opens \/ (l1 = "putdir" /\ k.u[p].ip # 0) => k.u[p].fd = 0)
      BY <2>1, <2>4, <3>1, <3>4
    <3>7. QED BY ONLY Good(k, X), <1>3, <1>7, <2>2, <2>4, <3>1, <3>2, <3>3, <3>5, <3>6, TurnStep, p \in Proc
  <2>6. QED BY <2>5
<1>11. d # 0 /\ c.op = "dotdot" /\ k.node[d].ino = "root" => Good(kd, X) BY <1>6, CrossGood
<1>12. d # 0 => Good(ke, X)
  <2> SUFFICES ASSUME d # 0 PROVE Good(ke, X) OBVIOUS
  <2> DEFINE l1 == ""
             rest == <<>>
  <2>1. /\ l1 \notin WithIp /\ l1 \notin Owner /\ l1 \notin WithDip /\ l1 \notin WithRip /\ l1 \notin WithMip
        /\ l1 \notin Opens /\ rest \in Seq(Label) /\ StackOK(rest) /\ Top(rest) \notin LeafL /\ Bot(rest) = l1
    BY EmptyStack, OpensIn
  <2>2. l \notin {"got", "more"} /\ l1 \notin {"closef", "more", "got", "plockdir", "fsoff", "unhang"} OBVIOUS
  <2>3. d = k.u[p].ip OBVIOUS
  <2> HIDE DEF l, l1, c, d, rest
  <2>4. /\ (l1 \in WithDip <=> l \in WithDip) /\ (l1 \in WithRip <=> l \in WithRip)
        /\ (l1 \in WithMip <=> l \in WithMip) /\ l \notin Owner
    BY <1>2, <2>1
  <2>5. k.u[p].ip # 0 BY <2>3
  <2>6. /\ k.fs.mdev => k.fs.mdev \/ l \in Owner
        /\ l \in Owner => \A t \in Slot : RefP(k.u[p], t) # 0 => k.node[t].ino # "root"
        /\ l1 \in WithDip => l # "fson3"
        /\ l1 \in Opens => k.u[p].fd = 0
    BY <2>1, <2>4
  <2>7. Types(k) BY <1>4
  <2>8. Good(PutIp(k, p, rest), X)
    BY ONLY Good(k, X), <1>3, <1>7, <2>1, <2>2, <2>4, <2>5, <2>6, <2>7, GiveIp, p \in Proc
  <2>9. QED BY <2>8 DEF rest
<1>13. d # 0 /\ c.op \in calls /\ k.node[d].ino = "root" => Good(kf, X)
  <2> SUFFICES ASSUME d # 0, c.op \in calls, k.node[d].ino = "root" PROVE Good(kf, X) OBVIOUS
  <2> DEFINE l1 == "more"
             i == "sub"
  <2>1. l1 \in {"more", "got"} /\ (l1 = "got" => k.u[p].op # "unlink") /\ KeyOK(i, l1) BY DEF KeyOK
  <2>2. k.u[p].op \in {"open", "creat", "exec", "unlink"} /\ k.node[k.u[p].ip].ino \in {"root", "sub"} OBVIOUS
  <2>3. DirAt(k, p) BY <1>6
  <2> HIDE DEF l1, i
  <2>4. Good(Iget(SetHold(Prele(k, k.u[p].ip), p, k.u[p].ip), p, i, <<l1>>), X)
    BY ONLY Good(k, X), <2>1, <2>2, <2>3, EnterGood, p \in Proc
  <2>5. QED BY <2>4 DEF l1, i
<1>14. there /\ c.op \in calls => key \in InFs
  <2>1. FsOK(k.fs) BY <1>4 DEF Types
  <2>2. QED BY <1>5, <2>1 DEF FsOK
<1>15. place => k.node[d].ino \in {"root", "sub"} OBVIOUS
<1>16. d # 0 /\ c.op \in calls /\ place /\ there /\ c.op # "unlink" => Good(kg, X)
  <2> SUFFICES ASSUME d # 0, c.op \in calls, place, there, c.op # "unlink" PROVE Good(kg, X) OBVIOUS
  <2> DEFINE l1 == "got"
  <2>1. l1 \in {"more", "got"} /\ (l1 = "got" => k.u[p].op # "unlink") /\ KeyOK(key, l1) BY <1>14 DEF KeyOK
  <2>2. k.u[p].op \in {"open", "creat", "exec", "unlink"} /\ k.node[k.u[p].ip].ino \in {"root", "sub"} BY <1>15
  <2>3. DirAt(k, p) BY <1>6
  <2> HIDE DEF l1, key
  <2>4. Good(Iget(SetHold(Prele(k, k.u[p].ip), p, k.u[p].ip), p, key, <<l1>>), X)
    BY ONLY Good(k, X), <2>1, <2>2, <2>3, EnterGood, p \in Proc
  <2>5. QED BY <2>4 DEF l1
<1>17. d # 0 /\ c.op \in calls /\ place /\ there => Good(kh, X)
  <2> SUFFICES ASSUME d # 0, c.op \in calls, place, there PROVE Good(kh, X) OBVIOUS
  <2>1. KeyOK(key, "dormfile") BY <1>14 DEF KeyOK
  <2>2. k.node[k.u[p].ip].ino \in {"root", "sub"} BY <1>15
  <2>3. DirAt(k, p) BY <1>6
  <2> HIDE DEF key
  <2>4. Good(Iget(SetHold(k, p, k.u[p].ip), p, key, <<"dormfile">>), X)
    BY ONLY Good(k, X), <2>1, <2>2, <2>3, KeepGood, p \in Proc
  <2>5. QED BY <2>4
<1>18. d # 0 /\ place /\ c.op = "creat" => Good(ki, X)
  <2> SUFFICES ASSUME d # 0, place, c.op = "creat" PROVE Good(ki, X) OBVIOUS
  <2>2. k.node[k.u[p].ip].ino \in {"root", "sub"} /\ k.u[p].op = "creat" BY <1>15
  <2>3. DirAt(k, p) BY <1>6
  <2>4. Good(Goto(SetHold(k, p, k.u[p].ip), p, <<"ialloc">>), X)
    BY ONLY Good(k, X), <2>2, <2>3, MakeGood, p \in Proc
  <2>5. QED BY <2>4
<1> HIDE DEF ka, kb, kc, kd, ke, kf, kg, kh, ki, key, insub, d, name
<1>19. c.op \in {"mount", "unmount", "dotdot"} \cup calls \/ d = 0
  BY DEF DirOps
<1> HIDE DEF c
<1>20. CASE d # 0 /\ c.op \in calls
  <2> DEFINE done == \E k1 : Become(k1) /\ Good(k1, X)
  <2>1. c.op \notin {"mount", "unmount", "dotdot"} BY <1>20
  <2>2. CASE k.node[d].ino = "mp"
    <3>1. Become(ke) BY <1>1, <1>20, <2>1, <2>2
    <3>2. QED BY <1>12, <1>20, <3>1
  <2>3. CASE k.node[d].ino = "root" /\ insub
    <3>1. Become(kf) BY <1>1, <1>20, <2>1, <2>3
    <3>2. QED BY <1>13, <1>20, <2>3, <3>1
  <2>4. CASE k.node[d].ino # "mp" /\ ~(k.node[d].ino = "root" /\ insub)
    <3>1. CASE place /\ there /\ c.op # "unlink"
      <4>1. Become(kg) BY <1>1, <1>20, <2>1, <2>4, <3>1
      <4>2. QED BY <1>16, <1>20, <3>1, <4>1
    <3>2. CASE place /\ there /\ c.op = "unlink"
      <4>1. Become(kh) BY <1>1, <1>20, <2>1, <2>4, <3>2
      <4>2. QED BY <1>17, <1>20, <3>2, <4>1
    <3>3. CASE place /\ ~there /\ c.op = "creat"
      <4>1. Become(ki) BY <1>1, <1>20, <2>1, <2>4, <3>3
      <4>2. QED BY <1>18, <1>20, <3>3, <4>1
    <3>4. CASE ~(place /\ there) /\ ~(place /\ ~there /\ c.op = "creat")
      <4>1. Become(ke) BY <1>1, <1>20, <2>1, <2>4, <3>4
      <4>2. QED BY <1>12, <1>20, <4>1
    <3>5. QED BY <3>1, <3>2, <3>3, <3>4
  <2>5. QED BY <2>2, <2>3, <2>4
<1>21. CASE d = 0
  <2>1. Become(ka) BY <1>1, <1>21
  <2>2. QED BY <2>1, <1>8, <1>21
<1>22. CASE d # 0 /\ c.op = "mount"
  <2>1. Become(kb) BY <1>1, <1>22
  <2>2. QED BY <2>1, <1>9, <1>22
<1>23. CASE d # 0 /\ c.op = "unmount"
  <2>1. Become(kc) BY <1>1, <1>23
  <2>2. QED BY <2>1, <1>10, <1>23
<1>24. CASE d # 0 /\ c.op = "dotdot"
  <2>1. Become(IF k.node[d].ino = "root" THEN kd ELSE ke) BY <1>1, <1>24
  <2>2. QED BY <2>1, <1>11, <1>12, <1>24
<1>25. QED BY <1>19, <1>20, <1>21, <1>22, <1>23, <1>24

\* Making a file, with the directory locked and no inode yet: nothing but the stack moves.
LEMMA IallocMove ==
  ASSUME NEW k, NEW k1, NEW p \in Proc, NEW X, Good(k, X), NEW l \in {"ialloc", "restock"},
         NEW l1 \in {"ialloc", "restock", "domkfile"}, LastFacts(k, p, l), Types(k1), Others(k, k1, p),
         k1.freel = k.freel, SameNodes(k, k1), KeepU(k.u[p], k1.u[p], {"pc", "chan", "key"}), k1.u[p].pc = <<l1>>,
         k1.u[p].chan = Awake \/ (k1.u[p].chan = <<"ilock", 0>> /\ k1.fs.ilock /\ l1 = "ialloc"),
         \A q \in Proc \ {p} : k1.u[q].chan = <<"ilock", 0>> /\ k.fs.ilock => k1.fs.ilock,
         k1.fs.mdev = k.fs.mdev
  PROVE  Good(k1, X)
<1> DEFINE c == k.u[p]
           c1 == k1.u[p]
<1>1. \A b \in {"ialloc", "restock", "domkfile"} :
        /\ b \in WithDip /\ b \in LastL /\ b \in Opens
        /\ b \notin WithIp \cup WithRip \cup WithMip \cup Owner \cup LeafL
        /\ b \notin {"closef", "more", "got", "plockdir", "fsoff", "unhang", "funmount", "putdir", "fson3", "fson",
                     "fson2", "dir", "upput", "iget", "fsiread", "fstrunc", "fsiupdat"}
  BY DEF WithDip, LastL, Opens, WithIp, WithRip, WithMip, Owner, LeafL
<1>2. l \notin PerhapsIp BY DEF PerhapsIp
<1>3. /\ c.ip = 0 /\ c.put = 0 /\ c.rip = 0 /\ c.mip = 0 /\ c.dip # 0 /\ c.fd = 0 /\ Up(c) = 0
      /\ HandOK(c, c.pc) /\ PathAt(k, c, l) /\ PathOK(k, c) /\ Bot(c.pc) = l
  BY <1>1, <1>2 DEF LastFacts, FdOK
<1>4. /\ <<l1>> \in Seq(Label) /\ <<l1>> # <<>> /\ StackOK(<<l1>>) /\ Top(<<l1>>) = l1 /\ Bot(<<l1>>) = l1
  BY <1>1, LastStack
<1>5. /\ c1.ip = c.ip /\ c1.dip = c.dip /\ c1.put = c.put /\ c1.rip = c.rip /\ c1.mip = c.mip /\ c1.fd = c.fd
      /\ c1.op = c.op /\ c1.name = c.name
  BY DEF KeepU, UserF
<1> HIDE DEF c, c1
<1>6. c1.pc = <<l1>> BY DEF c1
<1>7. HandOK(c1, c1.pc)
  <2>1. c.op \in {"open", "creat", "exec", "unlink"} => c.name \in Name BY <1>3 DEF HandOK
  <2>2. QED BY <1>1, <1>3, <1>4, <1>5, <1>6, <2>1 DEF HandOK
<1>8. Up(c1) = 0 /\ ~Walk(c1) /\ ~Walk(c) BY <1>1, <1>3, <1>4, <1>6 DEF Up, Walk
<1>9. \A t \in Slot : RefP(c1, t) = RefP(c, t) /\ HoldP(c1, t) = HoldP(c, t)
  <2>1. Rip(c1) = Rip(c) BY <1>5 DEF Rip
  <2>2. \A t \in Slot : RefP(c1, t) = RefP(c, t) BY <1>3, <1>5, <1>8, <2>1 DEF RefP
  <2>3. \A t \in Slot : HoldP(c1, t) = HoldP(c, t) BY <1>3, <1>5, <1>8 DEF HoldP
  <2>4. QED BY <2>2, <2>3
<1>10. ProcOK(c1) BY <1>3, <1>5, <1>7 DEF ProcOK, Apart
<1>11. Bot(c1.pc) = l1 /\ Top(c1.pc) = l1 BY <1>4, <1>6
<1>12. PathAt(k, c1, l1)
  <2>1. k.node[c1.dip].ino \in {"root", "sub"} BY <1>1, <1>3, <1>5 DEF PathAt
  <2>2. QED BY <1>1, <1>3, <1>5, <2>1 DEF PathAt
<1>13. RootOwned(k, c1)
  <2>1. \A t \in Slot : RefP(c, t) # 0 /\ k.node[t].ino = "root" /\ ~IsMounted(k) => Bot(c.pc) \in Owner
    BY <1>3 DEF PathOK
  <2>2. Bot(c.pc) \notin Owner BY <1>1, <1>3
  <2>3. QED BY <2>1, <2>2, <1>9 DEF RootOwned
<1>14. Empty(k, c1) BY <1>1, <1>11 DEF Empty
<1>15. PutOK(k, c1) BY <1>3, <1>5 DEF PutOK
<1>19. Good(k1, X)
  <2>1. \A t \in Slot : RefP(k1.u[p], t) = RefP(k.u[p], t) /\ HoldP(k1.u[p], t) = HoldP(k.u[p], t)
    BY <1>9 DEF c, c1
  <2>2. \/ k1.u[p].chan = Awake
        \/ k1.u[p].chan = <<"ilock", 0>> /\ k1.fs.ilock /\ Top(k1.u[p].pc) = "ialloc"
    BY <1>11 DEF c1
  <2>4. /\ ProcOK(k1.u[p]) /\ PutOK(k, k1.u[p]) /\ PathAt(k, k1.u[p], Bot(k1.u[p].pc)) /\ RootOwned(k, k1.u[p])
        /\ Empty(k, k1.u[p])
    BY <1>10, <1>11, <1>12, <1>13, <1>14, <1>15 DEF c1
  <2>5. Bot(k1.u[p].pc) \notin Owner /\ \A s \in Slot : ~OwnsRoot(k.u[p], s)
    BY <1>1, <1>3, <1>11 DEF c, c1, OwnsRoot
  <2>7. QED BY <2>1, <2>2, <2>4, <2>5, MoveGood
<1>20. QED BY <1>19

\* The lock of the list of free numbers.
SetIlock(k, x) == [k EXCEPT !.fs.ilock = x]

\* Fields of the super block, and of a process that sleeps.
LEMMA SetIlockEff ==
  ASSUME NEW k, Types(k), NEW x \in BOOLEAN
  PROVE  LET k1 == SetIlock(k, x) IN
         /\ Types(k1) /\ k1.u = k.u /\ k1.node = k.node /\ k1.freel = k.freel /\ k1.panic = k.panic
         /\ k1.fs.ilock = x /\ k1.fs.mdev = k.fs.mdev /\ k1.fs.sinode = k.fs.sinode /\ SameNodes(k, k1)
<1> DEFINE f == [k.fs EXCEPT !.ilock = x]
           k1 == SetIlock(k, x)
           j == [k EXCEPT !.fs = f]
<1>1. FsOK(k.fs) /\ Shape(k) BY DEF Types
<1>2. FsOK(f) /\ f.ilock = x /\ f.mdev = k.fs.mdev /\ f.sinode = k.fs.sinode
  BY <1>1 DEF FsOK, FsF
<1>3. k1 = j BY <1>1 DEF Shape, Five, SetIlock
<1> HIDE DEF f
<1>4. Types(j) /\ j.node = k.node /\ j.u = k.u /\ j.freel = k.freel /\ j.panic = k.panic /\ j.fs = f BY <1>2, SetFs
<1> HIDE DEF k1, j
<1>5. SameNodes(k, k1) BY <1>3, <1>4 DEF SameNodes, KeepN
<1>6. QED BY <1>2, <1>3, <1>4, <1>5 DEF k1

\* The list of free numbers and its lock are all that changed,
Stocked(k, k1) ==
  /\ Types(k1) /\ k1.u = k.u /\ k1.node = k.node /\ k1.freel = k.freel /\ k1.panic = k.panic
  /\ k1.fs.mdev = k.fs.mdev /\ SameNodes(k, k1)

\* both set.
SetStock(k, l, x) == [k EXCEPT !.fs.sinode = l, !.fs.ilock = x]

LEMMA SetStockEff ==
  ASSUME NEW k, Types(k), NEW l \in Seq(Inos \ {"none"}), NEW x \in BOOLEAN
  PROVE  Stocked(k, SetStock(k, l, x))
<1> DEFINE f == [k.fs EXCEPT !.sinode = l, !.ilock = x]
           k1 == SetStock(k, l, x)
           j == [k EXCEPT !.fs = f]
<1>1. FsOK(k.fs) /\ Shape(k) BY DEF Types
<1>2. FsOK(f) /\ f.ilock = x /\ f.mdev = k.fs.mdev /\ f.sinode = l
  BY <1>1 DEF FsOK, FsF
<1>3. k1 = j BY <1>1 DEF Shape, Five, SetStock
<1> HIDE DEF f
<1>4. Types(j) /\ j.node = k.node /\ j.u = k.u /\ j.freel = k.freel /\ j.panic = k.panic /\ j.fs = f BY <1>2, SetFs
<1> HIDE DEF k1, j
<1>5. SameNodes(k, k1) BY <1>3, <1>4 DEF SameNodes, KeepN
<1>6. Stocked(k, k1) BY <1>2, <1>3, <1>4, <1>5 DEF Stocked
<1>7. QED BY <1>6 DEF k1

\* p has taken the number i off the list.
NextOf(k, k1, p, i) ==
  /\ Types(k1) /\ k1.node = k.node /\ k1.freel = k.freel /\ k1.panic = k.panic
  /\ \A q \in Proc \ {p} : k1.u[q] = k.u[q]
  /\ KeepU(k.u[p], k1.u[p], {"key"}) /\ k1.u[p].key = i
  /\ k1.fs.ilock = k.fs.ilock /\ k1.fs.mdev = k.fs.mdev /\ SameNodes(k, k1)

\* Both set.
SetNext(k, p, l, i) == [k EXCEPT !.fs.sinode = l, !.u[p].key = i]

LEMMA SetNextEff ==
  ASSUME NEW k, Types(k), NEW p \in Proc, NEW l \in Seq(Inos \ {"none"}), NEW i \in Inos
  PROVE  NextOf(k, SetNext(k, p, l, i), p, i)
<1> DEFINE f == [k.fs EXCEPT !.sinode = l]
           k2 == [k EXCEPT !.fs = f]
           k3 == [k2 EXCEPT !.u[p].key = i]
           k1 == SetNext(k, p, l, i)
<1>1. FsOK(k.fs) /\ Shape(k) BY DEF Types
<1>2. FsOK(f) /\ f.ilock = k.fs.ilock /\ f.mdev = k.fs.mdev
  BY <1>1 DEF FsOK, FsF
<1>3. k1 = k3 BY <1>1 DEF Shape, Five, SetNext
<1>4. Types(k2) /\ k2.node = k.node /\ k2.u = k.u /\ k2.freel = k.freel /\ k2.panic = k.panic /\ k2.fs = f
  <2> HIDE DEF f
  <2>1. QED BY <1>2, SetFs
<1>5. Types(k3) /\ Only(k2, k3, p) /\ KeepU(k2.u[p], k3.u[p], {"key"}) /\ k3.u[p].key = i
  <2>1. Types(k2) BY <1>4
  <2> HIDE DEF k2
  <2>2. QED BY ONLY <2>1, SetKey, p \in Proc, i \in Inos
<1> HIDE DEF k1, k2, k3, f
<1>6. k1.node = k.node /\ k1.fs = f /\ k1.freel = k.freel /\ k1.panic = k.panic BY <1>3, <1>4, <1>5 DEF Only
<1>7. SameNodes(k, k1) BY <1>6 DEF SameNodes, KeepN
<1>8. NextOf(k, k1, p, i) BY <1>2, <1>3, <1>4, <1>5, <1>6, <1>7 DEF NextOf, Only
<1>9. QED BY <1>8 DEF k1

\* A process sleeps on x.
SetChan(k, p, x) == [k EXCEPT !.u[p].chan = x]

LEMMA SetChanEff ==
  ASSUME NEW k, Types(k), NEW p \in Proc, NEW x
  PROVE  Types(SetChan(k, p, x)) /\ Only(k, SetChan(k, p, x), p)
         /\ KeepU(k.u[p], SetChan(k, p, x).u[p], {"chan"}) /\ SetChan(k, p, x).u[p].chan = x
<1> DEFINE c == [k.u[p] EXCEPT !.chan = x]
           k1 == SetChan(k, p, x)
           j == [k EXCEPT !.u[p] = c]
<1>0. UserOK(k.u[p]) /\ k.u[p] = [f \in UserF |-> k.u[p][f]] BY DEF Types, UsersOK, UserOK
<1>1. k1 = j BY DEF SetChan
<1>2. c = [f \in UserF |-> c[f]] /\ c.chan = x /\ KeepU(k.u[p], c, {"chan"}) BY <1>0 DEF UserF, KeepU
<1> HIDE DEF c
<1>3. UserOK(c) BY <1>0, <1>2 DEF UserOK, KeepU, UserF
<1>4. Types(j) /\ Only(k, j, p) /\ j.u[p] = c BY <1>3, SetUser
<1> HIDE DEF k1, j
<1>5. QED BY <1>1, <1>2, <1>4 DEF k1

\* A number of the list that is not in core is a file's.
LEMMA NextNumber ==
  ASSUME NEW k, NEW X, Good(k, X), NEW p \in Proc, LastFacts(k, p, "ialloc"), NEW i \in Inos \ {"none"},
         \A s \in Slot : k.node[s].ino # i
  PROVE  i \in InFs
<1> DEFINE c == k.u[p]
           d == c.dip
<1>1. /\ c.dip # 0 /\ PathAt(k, c, "ialloc") /\ Types(k) /\ Bot(c.pc) = "ialloc" BY DEF LastFacts, WithDip
<1>2. d \in Slot BY <1>1, HandTypes
<1>3. k.node[d].ino \in {"root", "sub"} BY <1>1 DEF PathAt, WithDip
<1>4. RefP(c, d) # 0 BY <1>2, HandRef
<1>5. Bot(c.pc) \notin Owner BY <1>1 DEF Owner
<1> HIDE DEF d
<1>6. \E m \in Slot : k.node[m].mroot # 0 /\ k.node[d].mpoint = m BY <1>2, <1>3, <1>4, <1>5, MountedAt
<1>7. PICK m \in Slot : k.node[m].mroot # 0 BY <1>6
<1>8. k.node[m].ino = "mp" /\ k.node[k.node[m].mroot].ino = "root" BY <1>7 DEF Good, Mounts, MountInv
<1>9. k.node[m].mroot \in Slot BY <1>1, <1>7 DEF Types, NodesOK, NodeOK, Opt
<1>10. i # "mp" /\ i # "root" BY <1>7, <1>8, <1>9
<1>11. QED BY <1>10 DEF Inos, InFs

\* ialloc takes a number from the list, fills the list first, or waits for who does.
LEMMA IallocGood ==
  ASSUME NEW k, k = K, NEW X, Good(k, X), NEW p \in Proc, Ialloc(p)
  PROVE  \E k1 : Become(k1) /\ Good(k1, X)
<1> DEFINE c == k.u[p]
           l == k.fs.sinode
           i == l[Len(l)]
           l1 == SubSeq(l, 1, Len(l) - 1)
           ka == SetNext(k, p, l1, i)
           kb == SetChan(k, p, <<"ilock", 0>>)
           kc == SetIlock(k, TRUE)
           la == "ialloc"
           pa == <<"ialloc2">>
           pb == <<"domkfile">>
           pc == <<"restock">>
<1>1. /\ At(p, "ialloc")
      /\ \/ l # <<>> /\ Become(ka)
         \/ l # <<>> /\ (\A s \in Slot : k.node[s].ino # i) /\ Become(Goto(ka, p, pb))
         \/ l # <<>> /\ (\A s \in Slot : k.node[s].ino # i) /\ Become(Iget(ka, p, i, pa))
         \/ l = <<>> /\ k.fs.ilock /\ Become(kb)
         \/ l = <<>> /\ ~k.fs.ilock /\ Become(Goto(kc, p, pc))
  <2>1. At(p, "ialloc") BY DEF Ialloc
  <2>2. k.fs = fs /\ k.freel = freel /\ k.node = node BY KFacts
  <2>3. CASE l # <<>>
    <3>1. \/ InCore(K, i) /\ Become(ka)
          \/ ~InCore(K, i) /\ Become(Goto(ka, p, pb))
          \/ ~InCore(K, i) /\ Become(Iget(ka, p, i, pa))
      BY <2>2, <2>3 DEF Ialloc, SetNext
    <3>2. ~InCore(K, i) => \A s \in Slot : k.node[s].ino # i BY <2>2 DEF InCore
    <3>3. QED BY <2>1, <2>3, <3>1, <3>2
  <2>4. CASE l = <<>>
    <3>1. \/ k.fs.ilock /\ Become(kb)
          \/ ~k.fs.ilock /\ Become(Goto(kc, p, pc))
      BY <2>2, <2>4 DEF Ialloc, SetChan, SetIlock
    <3>3. QED BY <2>1, <2>4, <3>1
  <2>5. QED BY <2>3, <2>4
<1>2. LastFacts(k, p, "ialloc") /\ Rest(p) = <<>> BY <1>1, LastAt DEF LastL, WithDip
<1>3. Types(k) /\ PathAt(k, c, "ialloc") /\ c.chan = Awake /\ c.fd = 0 BY <1>2 DEF LastFacts, FdOK, Opens
<1>3a. c.ip = 0 /\ c.pc = <<"ialloc">>
  <2>1. c.ip = 0 BY <1>2 DEF LastFacts, WithIp, PerhapsIp
  <2>2. QED BY <1>2, <2>1, OneSeq DEF LastFacts, Top
<1>4. /\ {"ialloc", "ialloc2", "restock", "domkfile"} \subseteq LastL \cap WithDip
      /\ \A b \in {"ialloc", "ialloc2", "restock", "domkfile"} : b \notin WithIp \cup WithRip \cup WithMip \cup Owner
      /\ "ialloc2" \in GetL /\ "domkfile" \in PerhapsIp
  BY DEF LastL, WithDip, WithIp, WithRip, WithMip, Owner, PerhapsIp, GetL
<1>5. /\ pa \in Seq(Label) /\ pa # <<>> /\ StackOK(pa) /\ Top(pa) \notin LeafL /\ Bot(pa) = "ialloc2"
      /\ pb \in Seq(Label) /\ pb # <<>> /\ StackOK(pb) /\ Top(pb) \notin LeafL /\ Bot(pb) = "domkfile"
      /\ pc \in Seq(Label) /\ pc # <<>>
  BY <1>4, LastStack
<1>6. l \in Seq(Inos \ {"none"}) /\ k.fs.ilock \in BOOLEAN BY <1>3 DEF Types, FsOK
<1>7. ASSUME l # <<>>
      PROVE  /\ i \in Inos \ {"none"} /\ Types(ka) /\ ka.node = k.node /\ ka.freel = k.freel
             /\ \A q \in Proc \ {p} : ka.u[q] = k.u[q]
             /\ KeepU(k.u[p], ka.u[p], {"key"}) /\ ka.u[p].key = i
             /\ ka.fs.ilock = k.fs.ilock /\ ka.fs.mdev = k.fs.mdev /\ SameNodes(k, ka)
  <2>1. Len(l) \in Nat /\ Len(l) > 0 /\ i \in Inos \ {"none"} BY <1>6, <1>7
  <2>2. l1 \in Seq(Inos \ {"none"}) BY <1>6, <2>1, SubSeqProperties
  <2>3. Types(k) /\ i \in Inos BY <1>3, <2>1
  <2> HIDE DEF l1, i
  <2>4. /\ Types(ka) /\ ka.node = k.node /\ ka.freel = k.freel
        /\ \A q \in Proc \ {p} : ka.u[q] = k.u[q]
        /\ KeepU(k.u[p], ka.u[p], {"key"}) /\ ka.u[p].key = i
        /\ ka.fs.ilock = k.fs.ilock /\ ka.fs.mdev = k.fs.mdev /\ SameNodes(k, ka)
    <3>1. NextOf(k, ka, p, i) BY ONLY <2>2, <2>3, SetNextEff, p \in Proc DEF ka
    <3> HIDE DEF ka
    <3>2. QED BY ONLY <3>1 DEF NextOf
  <2>5. QED BY <2>1, <2>4
<1>8. ka = SetNext(k, p, l1, i) OBVIOUS
<1> HIDE DEF l1, i, ka, kb, kc, pa, pb, pc, l
<1>9. ASSUME l # <<>>
      PROVE  /\ Others(k, ka, p) /\ KeepU(k.u[p], ka.u[p], {"pc", "chan", "key"}) /\ KeepU(k.u[p], ka.u[p], {"op", "key"})
             /\ ka.u[p].pc = c.pc /\ ka.u[p].chan = Awake /\ ka.u[p].op = c.op /\ ka.u[p].ip = 0
             /\ ka.u[p].dip = c.dip /\ ka.u[p].fd = 0 /\ ka.u[p].fino = c.fino /\ ka.u[p].put = c.put
             /\ ka.u[p].rip = c.rip /\ ka.u[p].mip = c.mip /\ ka.u[p].name = c.name
  <2>1. KeepU(k.u[p], ka.u[p], {"key"}) /\ \A q \in Proc \ {p} : ka.u[q] = k.u[q] BY <1>7, <1>9
  <2>2. Others(k, ka, p) BY <2>1 DEF Others, KeepU
  <2>3. KeepU(k.u[p], ka.u[p], {"pc", "chan", "key"}) /\ KeepU(k.u[p], ka.u[p], {"op", "key"}) BY <2>1 DEF KeepU
  <2> DEFINE c2 == ka.u[p]
  <2>4. KeepU(c, c2, {"key"}) BY <2>1
  <2> HIDE DEF c, c2
  <2>5. /\ c2.pc = c.pc /\ c2.chan = c.chan /\ c2.op = c.op /\ c2.ip = c.ip /\ c2.dip = c.dip /\ c2.fd = c.fd
        /\ c2.fino = c.fino /\ c2.put = c.put /\ c2.rip = c.rip /\ c2.mip = c.mip /\ c2.name = c.name
    BY ONLY <2>4 DEF KeepU, UserF
  <2>6. QED BY <2>2, <2>3, <2>5, <1>3, <1>3a DEF c, c2
<1>10. l # <<>> => Good(ka, X)
  <2> SUFFICES ASSUME l # <<>> PROVE Good(ka, X) OBVIOUS
  <2>1. /\ Types(ka) /\ ka.freel = k.freel /\ SameNodes(k, ka) /\ ka.fs.ilock = k.fs.ilock /\ ka.fs.mdev = k.fs.mdev
    BY <1>7
  <2>2. Others(k, ka, p) /\ KeepU(k.u[p], ka.u[p], {"pc", "chan", "key"}) BY <1>9
  <2>3. ka.u[p].pc = <<la>> /\ ka.u[p].chan = Awake BY <1>9, <1>3a
  <2>4. la \in {"ialloc", "restock"} /\ la \in {"ialloc", "restock", "domkfile"} /\ LastFacts(k, p, la) BY <1>2
  <2> HIDE DEF la
  <2>5. QED BY <2>1, <2>2, <2>3, <2>4, IallocMove
<1>11. l # <<>> => Good(Goto(ka, p, pb), X)
  <2> SUFFICES ASSUME l # <<>> PROVE Good(Goto(ka, p, pb), X) OBVIOUS
  <2>1. /\ Types(ka) /\ ka.freel = k.freel /\ SameNodes(k, ka) /\ ka.fs.ilock = k.fs.ilock /\ ka.fs.mdev = k.fs.mdev
    BY <1>7
  <2>2. Others(k, ka, p) /\ KeepU(k.u[p], ka.u[p], {"op", "key"}) /\ ka.u[p].op \in {k.u[p].op, "failed"} BY <1>9
  <2>3. PathAt(k, ka.u[p], "domkfile")
    <3>1. k.node[c.dip].ino \in {"root", "sub"} BY <1>3, <1>4 DEF PathAt
    <3>2. QED BY <3>1, <1>4, <1>9 DEF PathAt, WithDip
  <2>4. LastFacts(k, p, "ialloc") BY <1>2
  <2>5. "domkfile" \notin {"closef", "more", "got", "plockdir", "fsoff", "unhang"} OBVIOUS
  <2>6. k.u[p].ip = 0 /\ k.u[p].fd = 0 BY <1>3, <1>3a
  <2>7. QED BY <2>1, <2>2, <2>3, <2>4, <2>6, <1>4, <1>5, TurnStep
<1>12. l # <<>> /\ (\A s \in Slot : k.node[s].ino # i) => Good(Iget(ka, p, i, pa), X)
  <2> SUFFICES ASSUME l # <<>>, \A s \in Slot : k.node[s].ino # i PROVE Good(Iget(ka, p, i, pa), X) OBVIOUS
  <2> DEFINE D == {}
             c2 == ka.u[p]
  <2>1. D = {} /\ D \in SUBSET Slot OBVIOUS
  <2> HIDE DEF D
  <2>2. Asks(k, ka, p, D)
    <3>1. /\ Types(ka) /\ ka.freel = k.freel /\ SameNodes(k, ka) /\ ka.fs.ilock = k.fs.ilock /\ ka.fs.mdev = k.fs.mdev
      BY <1>7
    <3>2. Others(k, ka, p) /\ ka.u[p].chan = Awake /\ ka.u[p].ip = 0 BY <1>9
    <3>3. QED BY <2>1, <3>1, <3>2, AsksSame
  <2>3. i \in InFs BY <1>7, <1>2, NextNumber
  <2>4. KeyOK(i, "ialloc2") BY <2>3 DEF KeyOK
  <2>5. Up(c) = 0 /\ c.put = 0 /\ c.rip = 0 /\ c.mip = 0 /\ Bot(c.pc) = "ialloc" /\ HandOK(c, c.pc)
    BY <1>2 DEF LastFacts, WithRip, WithMip
  <2>6. HandOK(c2, pa)
    <3>1. /\ Top(pa) = "ialloc2" BY LastStack, <1>4 DEF pa
    <3>2. c.op \in {"open", "creat", "exec", "unlink"} => c.name \in Name BY <2>5 DEF HandOK
    <3>3. c.dip # 0 BY <1>2 DEF LastFacts, WithDip
    <3>4. "ialloc2" \in WithDip /\ "ialloc2" \notin WithIp \cup WithRip \cup WithMip BY <1>4
    <3> HIDE DEF c
    <3>5. c2.ip = 0 /\ c2.dip = c.dip /\ c2.fd = 0 /\ c2.op = c.op /\ c2.name = c.name /\ c2.put = 0 /\ c2.rip = 0 /\ c2.mip = 0
      BY <1>9, <2>5
    <3> HIDE DEF c2
    <3>6. QED BY <1>5, <3>1, <3>2, <3>3, <3>4, <3>5 DEF HandOK
  <2>7. PathAt(k, c2, "ialloc2")
    <3>1. k.node[c.dip].ino \in {"root", "sub"} BY <1>3, <1>4 DEF PathAt
    <3>2. QED BY <3>1, <1>4, <1>9 DEF PathAt, WithDip
  <2>8. \A t \in Slot : /\ RefP(c, t) = RefQ(c2, t)
                        /\ HoldQ(c2, t, "ialloc2") <=> (HoldP(c, t) /\ t \notin D)
    <3>1. Rip(c2) = Rip(c) /\ ~Walk(c) BY <1>9, <2>5 DEF Rip, Walk
    <3>2. c2.ip = c.ip /\ c2.dip = c.dip /\ c2.fd = c.fd /\ c2.rip = c.rip BY <1>3, <1>3a, <1>9
    <3> HIDE DEF c, c2
    <3>3. ASSUME NEW t \in Slot PROVE RefP(c, t) = RefQ(c2, t)
      <4> DEFINE x == B(c.ip = t)
                 y == B(c.dip = t)
                 z == B(c.fd = t)
                 w == B(0 = t)
                 v == B(Rip(c) = t)
      <4>1. RefP(c, t) = x + y + z + w + w + v BY <2>5 DEF RefP
      <4>2. RefQ(c2, t) = x + y + z + v BY <3>1, <3>2 DEF RefQ
      <4>3. w = 0 BY SlotFacts DEF B
      <4>4. x \in Nat /\ y \in Nat /\ z \in Nat /\ v \in Nat BY DEF B
      <4> HIDE DEF x, y, z, w, v
      <4>5. QED BY ONLY <4>1, <4>2, <4>3, <4>4
    <3>4. \A t \in Slot : HoldQ(c2, t, "ialloc2") <=> HoldP(c, t)
      BY <3>1, <3>2, <2>5, SlotFacts DEF HoldQ, HoldP
    <3>5. QED BY <2>1, <3>3, <3>4
  <2>9. Bot(c.pc) \notin Owner /\ "ialloc2" \notin Owner BY <2>5, <1>4
  <2>10. \A t \in Slot : ~OwnsRoot(c, t) BY <2>9 DEF OwnsRoot
  <2>11. Wants(k, ka, p, D, i, pa) BY <2>4, <2>6, <2>7, <2>8, <2>9, <2>10, <1>4, <1>5 DEF Wants
  <2>12. QED BY <2>1, <2>2, <2>11, <1>5, GetGood
<1>13. l = <<>> /\ k.fs.ilock => Good(kb, X)
  <2> SUFFICES ASSUME k.fs.ilock PROVE Good(kb, X) OBVIOUS
  <2>1. Types(kb) /\ Only(k, kb, p) /\ KeepU(k.u[p], kb.u[p], {"chan"}) /\ kb.u[p].chan = <<"ilock", 0>>
    <3> DEFINE x == <<"ilock", 0>>
    <3>1. kb = SetChan(k, p, x) BY DEF kb
    <3> HIDE DEF x
    <3>2. Types(kb) /\ Only(k, kb, p) /\ KeepU(k.u[p], kb.u[p], {"chan"}) /\ kb.u[p].chan = x
      BY <1>3, <3>1, SetChanEff
    <3>3. QED BY <3>2 DEF x
  <2>2. Others(k, kb, p) /\ kb.freel = k.freel /\ SameNodes(k, kb) /\ kb.fs = k.fs BY <2>1, OnlyFacts
  <2>3. KeepU(k.u[p], kb.u[p], {"pc", "chan", "key"}) BY <2>1 DEF KeepU
  <2>3a. kb.u[p].pc = <<la>> BY <2>1, <1>3a DEF KeepU, UserF
  <2>4. la \in {"ialloc", "restock"} /\ la \in {"ialloc", "restock", "domkfile"} /\ LastFacts(k, p, la) /\ la = "ialloc" BY <1>2
  <2> HIDE DEF la
  <2>5. kb.fs.ilock /\ kb.fs.mdev = k.fs.mdev BY <2>2
  <2>6. QED BY <2>1, <2>2, <2>3, <2>3a, <2>4, <2>5, IallocMove
<1>14. l = <<>> /\ ~k.fs.ilock => Good(Goto(kc, p, pc), X)
  <2> SUFFICES ASSUME ~k.fs.ilock PROVE Good(Goto(kc, p, pc), X) OBVIOUS
  <2> DEFINE k1 == Goto(kc, p, pc)
             lr == "restock"
  <2>1. /\ Types(kc) /\ kc.u = k.u /\ kc.node = k.node /\ kc.freel = k.freel
        /\ kc.fs.ilock /\ kc.fs.mdev = k.fs.mdev /\ SameNodes(k, kc)
    <3> DEFINE x == TRUE
    <3>1. kc = SetIlock(k, x) /\ x \in BOOLEAN /\ x BY DEF kc
    <3> HIDE DEF x
    <3>2. QED BY <1>3, <3>1, SetIlockEff
  <2>2. Types(k1) /\ Only(kc, k1, p) /\ GoneTo(kc.u[p], k1.u[p], pc) BY <2>1, <1>5, GotoEff
  <2> HIDE DEF k1
  <2>3. KeepU(k.u[p], k1.u[p], {"pc", "chan", "key"}) /\ k1.u[p].pc = pc /\ k1.u[p].chan = Awake
    BY <2>1, <2>2, <1>3, <1>5 DEF GoneTo, KeepU, UserF
  <2>4. Others(k, k1, p) /\ k1.freel = k.freel /\ SameNodes(k, k1) /\ k1.fs.mdev = k.fs.mdev
    BY <2>1, <2>2 DEF Only, Others, KeepU, SameNodes, KeepN
  <2>5. \A q \in Proc \ {p} : k1.u[q].chan = <<"ilock", 0>> /\ k.fs.ilock => k1.fs.ilock OBVIOUS
  <2>6. k1.u[p].pc = <<lr>> BY <2>3 DEF pc
  <2>7. la \in {"ialloc", "restock"} /\ lr \in {"ialloc", "restock", "domkfile"} /\ LastFacts(k, p, la) BY <1>2
  <2> HIDE DEF la, lr
  <2>8. Good(k1, X) BY <2>2, <2>3, <2>4, <2>5, <2>6, <2>7, IallocMove
  <2>9. QED BY <2>8 DEF k1
<1>15. QED BY <1>1, <1>10, <1>11, <1>12, <1>13, <1>14

\* The list is filled from the disk.
LEMMA RestockGood ==
  ASSUME NEW k, k = K, NEW X, Good(k, X), NEW p \in Proc, IsFiniteSet(File), Restock(p)
  PROVE  \E k1 : Become(k1) /\ Good(k1, X)
<1> DEFINE l == k.fs.sinode
           free == {i \in File : ~fs.disk[i].mode /\ ~InCore(K, i)}
           room == NICINOD - Len(fs.sinode)
           List(take) == CHOOSE r \in [1..Cardinality(take) -> take] : \A i \in take : \E j \in DOMAIN r : r[j] = i
           ch == <<"ilock", 0>>
           k0(r) == SetStock(k, l \o r, FALSE)
           ka(r) == Wakeup(k0(r), ch)
           pa == <<"domkfile">>
           pb == <<"ialloc">>
           lr == "restock"
<1>1. /\ At(p, "restock")
      /\ \E take \in SUBSET free : LET r == List(take) IN
            Become(Goto(ka(r), p, IF ka(r).fs.sinode = <<>> THEN pa ELSE pb))
  BY KFacts DEF Restock, SetStock
<1>2. PICK take \in SUBSET free : LET r == List(take) IN
            Become(Goto(ka(r), p, IF ka(r).fs.sinode = <<>> THEN pa ELSE pb))
  BY <1>1
<1> DEFINE r == List(take)
<1>3. r \in [1..Cardinality(take) -> take] /\ Cardinality(take) \in Nat
  <2>1. IsFiniteSet(take) BY FS_Subset
  <2>2. Cardinality(take) \in Nat BY <2>1, FS_CardinalityType
  <2>3. ExistsBijection(1..Cardinality(take), take) BY <2>1, FS_CountingElements, FS_CardinalityType
  <2>4. PICK f \in Bijection(1..Cardinality(take), take) : TRUE BY <2>3 DEF ExistsBijection
  <2>5. f \in [1..Cardinality(take) -> take] /\ \A i \in take : \E j \in DOMAIN f : f[j] = i
    BY <2>4 DEF Bijection, Injection, Surjection
  <2>6. QED BY <2>2, <2>5
<1>4. LastFacts(k, p, "restock") /\ Types(k) BY <1>1, LastAt DEF LastL, WithDip, LastFacts
<1>5. l \in Seq(Inos \ {"none"}) BY <1>4 DEF Types, FsOK
<1>6. l \o r \in Seq(Inos \ {"none"})
  <2>1. take \subseteq Inos \ {"none"} BY InodeAssumption DEF Inos
  <2>2. r \in Seq(Inos \ {"none"}) BY <1>3, <2>1
  <2>3. QED BY <1>5, <2>2, ConcatProperties
<1> DEFINE kx == ka(r)
           px == IF kx.fs.sinode = <<>> THEN pa ELSE pb
           lx == IF kx.fs.sinode = <<>> THEN "domkfile" ELSE "ialloc"
           k1 == Goto(kx, p, px)
           lz == l \o r
           ky == SetStock(k, lz, FALSE)
<1>7. Become(k1) BY <1>2
<1>8. kx = Wakeup(ky, ch) OBVIOUS
<1>8a. px = <<lx>> /\ lx \in {"ialloc", "restock", "domkfile"} OBVIOUS
<1>9. /\ Types(ky) /\ ky.u = k.u /\ ky.node = k.node /\ ky.freel = k.freel
      /\ ky.fs.mdev = k.fs.mdev /\ SameNodes(k, ky)
  <2> DEFINE x == FALSE
  <2>1. ky = SetStock(k, lz, x) /\ x \in BOOLEAN /\ lz \in Seq(Inos \ {"none"}) BY <1>6
  <2> HIDE DEF x, ky, lz
  <2>2. Stocked(k, ky) BY ONLY <1>4, <2>1, SetStockEff
  <2>3. QED BY ONLY <2>2 DEF Stocked
<1>9a. ch # Awake BY DEF Awake
<1> HIDE DEF kx, px, lx, k1, lz, ky, r, ch
<1>10. Types(kx) /\ SameRest(ky, kx) /\ kx.node = ky.node /\ Woken(ky, kx, ch)
  BY <1>8, <1>9, WakeupEff
<1>11. lx \in LastL
  BY <1>8a DEF LastL, WithDip
<1>12. px \in Seq(Label) /\ px # <<>> BY <1>8a, <1>11, LastStack
<1>13. Types(k1) /\ Only(kx, k1, p) /\ GoneTo(kx.u[p], k1.u[p], px) BY <1>10, <1>12, GotoEff DEF k1
<1>14. \A q \in Proc : /\ KeepU(k.u[q], kx.u[q], {"chan"}) /\ kx.u[q].chan \in {k.u[q].chan, Awake}
                       /\ kx.u[q].chan # ch
  BY <1>9, <1>9a, <1>10 DEF Woken
<1>15. k1.node = k.node /\ k1.freel = k.freel /\ k1.fs.mdev = k.fs.mdev BY <1>9, <1>10, <1>13 DEF Only, SameRest
<1>16. Others(k, k1, p) /\ \A q \in Proc \ {p} : k1.u[q].chan # ch BY <1>13, <1>14 DEF Only, Others
<1>17. SameNodes(k, k1) BY <1>15 DEF SameNodes, KeepN
<1>18. KeepU(k.u[p], k1.u[p], {"pc", "chan", "key"}) /\ k1.u[p].pc = px /\ k1.u[p].chan = Awake
  <2>1. KeepU(kx.u[p], k1.u[p], {"pc"}) /\ k1.u[p].pc = px BY <1>12, <1>13 DEF GoneTo, KeepU
  <2>2. KeepU(k.u[p], kx.u[p], {"chan"}) /\ kx.u[p].chan = Awake BY <1>4, <1>14 DEF LastFacts
  <2>3. k1.u[p].chan = kx.u[p].chan BY <2>1 DEF KeepU, UserF
  <2>4. KeepU(k.u[p], k1.u[p], {"pc", "chan", "key"}) BY <2>1, <2>2 DEF KeepU
  <2>5. QED BY <2>1, <2>2, <2>3, <2>4
<1>19. lr \in {"ialloc", "restock"} /\ LastFacts(k, p, lr) BY <1>4
<1>20. \A q \in Proc \ {p} : k1.u[q].chan = <<"ilock", 0>> /\ k.fs.ilock => k1.fs.ilock BY <1>16 DEF ch
<1> HIDE DEF lr
<1>21. k1.u[p].pc = <<lx>> BY <1>18, <1>8a
<1>22. Good(k1, X) BY <1>8a, <1>13, <1>15, <1>16, <1>17, <1>18, <1>19, <1>20, <1>21, IallocMove
<1>23. QED BY <1>7, <1>22

\* Who sleeps for the list of free numbers has a directory of a mounted file system.
LEMMA NoIlockSleeper ==
  ASSUME NEW k, NEW X, Good(k, X), ~IsMounted(k), NEW q \in Proc
  PROVE  k.u[q].chan # <<"ilock", 0>>
<1> DEFINE c == k.u[q]
           d == c.dip
<1> SUFFICES ASSUME c.chan = <<"ilock", 0>> PROVE FALSE OBVIOUS
<1>1. Top(c.pc) = "ialloc" BY DEF Good, Core, SleepInv
<1>2. HandOK(c, c.pc) /\ PathOK(k, c) /\ Types(k) BY DEF Good, Core, ProcOK, Mounts
<1>3. c.pc \in Seq(Label) /\ StackOK(c.pc) /\ c.pc # <<>> BY <1>1, <1>2, HandTypes DEF HandOK, Top
<1>4. Bot(c.pc) = "ialloc"
  <2>1. "ialloc" \in LastL BY DEF LastL, WithDip
  <2>2. QED BY <1>1, <1>3, <2>1, StackPop
<1>5. d # 0 /\ d \in Slot BY <1>2, <1>4, HandTypes DEF HandOK, WithDip
<1>6. k.node[d].ino \in {"root", "sub"} BY <1>2, <1>4 DEF PathOK, WithDip
<1>7. RefP(c, d) # 0 BY <1>5, HandRef
<1>8. Bot(c.pc) \notin Owner BY <1>4 DEF Owner
<1> HIDE DEF d
<1>9. \E m \in Slot : k.node[m].mroot # 0 /\ k.node[d].mpoint = m BY <1>5, <1>6, <1>7, <1>8, MountedAt
<1>10. QED BY <1>9 DEF IsMounted

\* The super block of a file system that is being mounted is new.
LEMMA FreshSuper ==
  ASSUME NEW k, NEW X, Good(k, X), NEW p \in Proc, Bot(k.u[p].pc) \in Owner, k.u[p].chan = Awake
  PROVE  Good(SetIlock(k, FALSE), X)
<1> DEFINE x == FALSE
           k1 == SetIlock(k, x)
           c == k.u[p]
<1>1. Types(k) /\ x \in BOOLEAN BY DEF Good, Core
<1> HIDE DEF x
<1>2. /\ Types(k1) /\ k1.u = k.u /\ k1.node = k.node /\ k1.freel = k.freel
      /\ k1.fs.mdev = k.fs.mdev /\ SameNodes(k, k1)
  BY <1>1, SetIlockEff
<1> HIDE DEF k1
<1>3. ProcOK(c) /\ PathOK(k, c) /\ PutOK(k, c) BY DEF Good, Core, Mounts
<1>4. /\ k.fs.mdev /\ ~IsMounted(k) /\ PathAt(k, c, Bot(c.pc)) /\ RootOwned(k, c) /\ Empty(k, c)
  BY <1>3, PathParts
<1>5. \A q \in Proc : k.u[q].chan # <<"ilock", 0>> BY <1>4, NoIlockSleeper
<1>6. Others(k, k1, p) BY <1>2 DEF Others, KeepU
<1>7. \A t \in Slot : RefP(k1.u[p], t) = RefP(k.u[p], t) /\ HoldP(k1.u[p], t) = HoldP(k.u[p], t) BY <1>2
<1>8. k1.u[p].chan = Awake /\ k1.u[p] = c BY <1>2
<1>9. \A q \in Proc \ {p} : k1.u[q].chan = <<"ilock", 0>> /\ k.fs.ilock => k1.fs.ilock BY <1>2, <1>5
<1>10. Good(k1, X) BY <1>2, <1>3, <1>4, <1>6, <1>7, <1>8, <1>9, MoveGood
<1>11. QED BY <1>10 DEF k1, x

\* The super block is read; the directory goes from ip to dip.
SetFson2(k, p, d) == [k EXCEPT !.fs.ilock = FALSE, !.u[p].dip = d, !.u[p].ip = 0]

\* The super block is read.
LEMMA SetFson2Eff ==
  ASSUME NEW k, Types(k), NEW p \in Proc, NEW d \in Slot
  PROVE  SetFson2(k, p, d) = SetHold(SetIlock(k, FALSE), p, d)
<1> DEFINE c1 == [k.u[p] EXCEPT !.ip = 0, !.dip = d]
           c2 == [k.u[p] EXCEPT !.dip = d, !.ip = 0]
           f == [k.fs EXCEPT !.ilock = FALSE]
           kf == [k EXCEPT !.fs = f]
           j == [kf EXCEPT !.u[p] = c1]
           j2 == [kf EXCEPT !.u[p] = c2]
<1>0. UserOK(k.u[p]) /\ FsOK(k.fs) /\ Shape(k) /\ UsersOK(k.u) BY DEF Types, UsersOK
<1>1. c1 = c2 BY <1>0 DEF UserOK, UserF
<1>2. SetFson2(k, p, d) = j2 BY <1>0 DEF SetFson2, Shape, Five, UsersOK
<1>3. SetIlock(k, FALSE) = kf BY DEF SetIlock
<1>4. kf.u = k.u BY <1>0 DEF Shape, Five
<1> DEFINE c3 == [kf.u[p] EXCEPT !.ip = 0, !.dip = d]
           j3 == [kf EXCEPT !.u[p] = c3]
<1>5. c3 = c1 BY <1>4
<1> HIDE DEF kf, c1, c2
<1>6. SetHold(kf, p, d) = j3 BY DEF SetHold
<1> HIDE DEF c3
<1>7. QED BY <1>1, <1>2, <1>3, <1>5, <1>6

\* mount: the root of the new file system is looked for.
LEMMA Fson2Get ==
  ASSUME NEW k, NEW X, Good(k, X), NEW p \in Proc, LastFacts(k, p, "fson2"), k.u[p].pc = <<"fson2">>
  PROVE  Good(Iget(SetFson2(k, p, k.u[p].ip), p, "root", <<"fson3">>), X)
<1> DEFINE km == SetIlock(k, FALSE)
           c == k.u[p]
           d == c.ip
           k0 == SetHold(km, p, d)
           c0 == k0.u[p]
           D == {}
           l == "fson3"
           l0 == "fson2"
           key == "root"
           rest == <<l>>
<1>0. Types(k) /\ c.chan = Awake /\ Bot(c.pc) \in Owner BY DEF LastFacts, Owner
<1>1. Good(km, X) BY <1>0, FreshSuper
<1>2. km.u = k.u
  <2> DEFINE x == FALSE
  <2>1. x \in BOOLEAN OBVIOUS
  <2> HIDE DEF x
  <2>2. SetIlock(k, x).u = k.u BY <1>0, <2>1, SetIlockEff
  <2>3. QED BY <2>2 DEF x
<1>2a. l0 \in LastL /\ l0 \in WithIp /\ l0 \notin WithDip \cup WithRip \cup WithMip /\ l0 \in Owner /\ l0 \notin {"got", "more"}
  BY DEF LastL, WithIp, WithDip, WithRip, WithMip, Owner
<1>2b. l = "fson3" /\ key = "root" /\ D = {} /\ l0 = "fson2" OBVIOUS
<1>3. SetFson2(k, p, d) = k0
  <2>1. d \in Slot BY <1>0, <1>2a, HandTypes DEF LastFacts
  <2> HIDE DEF d
  <2>2. QED BY <1>0, <2>1, SetFson2Eff
<1> HIDE DEF km, l0
<1>4. LastFacts(km, p, l0) BY <1>0, <1>1, <1>2, <1>2a, <1>2b, LastHere
<1>5. /\ Types(km) /\ c.chan = Awake /\ Bot(c.pc) = l0 /\ Top(c.pc) = l0 /\ HandOK(c, c.pc)
      /\ c.put = 0 /\ Up(c) = 0 /\ PathAt(km, c, l0) /\ PathOK(km, c)
      /\ c.dip = 0 /\ c.rip = 0 /\ c.mip = 0 /\ c.ip # 0 /\ d \in Slot
  BY <1>2, <1>2a, <1>4, HandTypes DEF LastFacts
<1>6. km.node[d].ino = "mp" BY <1>2b, <1>5 DEF PathAt
<1>7. /\ Types(k0) /\ Only(km, k0, p) /\ KeepU(km.u[p], k0.u[p], {"ip", "dip"})
      /\ k0.u[p].ip = 0 /\ k0.u[p].dip = d
  <2>1. Types(km) /\ d \in Slot BY <1>5
  <2> HIDE DEF d
  <2>2. QED BY ONLY <2>1, SetHoldEff, p \in Proc DEF k0
<1>8. l \in HoldL /\ l \in GetL /\ l \in Owner /\ l \notin {"more", "got", "ialloc"}
  BY DEF HoldL, GetL, Owner
<1> HIDE DEF k0, c, c0, D, l, rest, d, key
<1>9. /\ c0.op = c.op /\ c0.name = c.name /\ c0.fd = c.fd /\ c0.fino = c.fino /\ c0.put = c.put /\ c0.rip = c.rip
      /\ c0.mip = c.mip /\ c0.chan = c.chan /\ c0.pc = c.pc /\ c0.ip = 0 /\ c0.dip = d
  BY ONLY <1>2, <1>7 DEF KeepU, UserF, c0, c
<1>10. Hands(c, c0)
  <2>1. Up(c0) = 0 BY <1>2b, <1>5, <1>9 DEF Up
  <2>2. QED BY <1>5, <1>9, <2>1 DEF Hands, d
<1>11. /\ HandOK(c0, rest)
       /\ rest \in Seq(Label) /\ rest # <<>> /\ Top(rest) \notin LeafL /\ Bot(rest) = l
  <2>1. /\ c.op \in {"open", "creat", "exec", "unlink"} => c.name \in Name
        /\ c.op \in {"open", "creat"} => c.fd = 0
    BY <1>5 DEF HandOK
  <2>2. QED BY ONLY <1>5, <1>8, <1>9, <1>10, <2>1, HoldStack DEF rest
<1>12. Asks(km, k0, p, D)
  <2>1. Others(km, k0, p) /\ k0.freel = km.freel /\ SameNodes(km, k0) /\ k0.fs = km.fs BY <1>7, OnlyFacts
  <2>2. k0.u[p].chan = Awake /\ k0.u[p].ip = 0 BY <1>5, <1>9 DEF c0
  <2>3. k0.fs.ilock = km.fs.ilock /\ k0.fs.mdev = km.fs.mdev BY <2>1
  <2>4. Types(k0) /\ D = {} BY <1>7, <1>2b
  <2>5. QED BY ONLY <2>1, <2>2, <2>3, <2>4, AsksSame, p \in Proc
<1>13. Wants(km, k0, p, D, key, rest)
  <2>1. \A t \in Slot : /\ RefP(c, t) = RefQ(c0, t)
                        /\ HoldQ(c0, t, Bot(rest)) <=> (HoldP(c, t) /\ t \notin D)
                        /\ OwnsRoot(c, t) => km.node[t].ino # "root"
    <3> SUFFICES ASSUME NEW t \in Slot
                 PROVE  /\ RefP(c, t) = RefQ(c0, t)
                        /\ HoldQ(c0, t, Bot(rest)) <=> (HoldP(c, t) /\ t \notin D)
                        /\ OwnsRoot(c, t) => km.node[t].ino # "root"
      OBVIOUS
    <3>1. RefP(c, t) = RefQ(c0, t) /\ (HoldP(c, t) <=> c.ip = t) /\ (HoldQ(c0, t, l) <=> c.ip = t)
      BY <1>8, <1>10, HoldHands
    <3>2. OwnsRoot(c, t) => t = d BY <1>5, SlotFacts DEF OwnsRoot, d
    <3>3. QED BY <3>1, <3>2, <1>2b, <1>6, <1>11
  <2>2. PathAt(km, c0, l)
    <3>1. km.node[c.ip].ino = "mp" BY <1>6 DEF d
    <3>2. QED BY <1>2b, <1>5, <1>8, <1>9, <1>10, <3>1, HoldPath
  <2>3. Bot(c.pc) \in Owner BY <1>2a, <1>5
  <2>4. KeyOK(key, l) BY <1>2b DEF KeyOK
  <2>5. QED BY <1>2, <1>8, <1>11, <2>1, <2>2, <2>3, <2>4 DEF Wants, c, c0
<1>14. D \in SUBSET Slot BY <1>2b
<1>15. Good(Iget(k0, p, key, rest), X) BY <1>1, <1>11, <1>12, <1>13, <1>14, GetGood
<1>16. QED BY <1>3, <1>15 DEF k0, rest, d, c, l, key

\* mount reads the super block of a file system that is not mounted.
LEMMA Fson2Good ==
  ASSUME NEW k, k = K, NEW X, Good(k, X), NEW p \in Proc, Fson2(p)
  PROVE  \E k1 : Become(k1) /\ Good(k1, X)
<1> DEFINE c == k.u[p]
           l == "fson2"
           km == SetDev(k, FALSE)
<1>0. u = k.u /\ node = k.node /\ fs = k.fs /\ K = k BY KFacts
<1>1. /\ At(p, l)
      /\ \/ Become(Iget(SetFson2(k, p, c.ip), p, "root", <<"fson3">>))
         \/ Become(PutIp(km, p, <<>>))
  BY <1>0 DEF Fson2, SetFson2, SetDev
<1>2. LastFacts(k, p, l) BY <1>1, LastAt DEF LastL, WithIp
<1>3. c.pc = <<l>> BY <1>2, OneSeq DEF LastFacts, Top
<1>4. /\ l \notin WithDip \cup WithRip \cup WithMip /\ l \in WithIp /\ l \in Owner
      /\ l \notin {"got", "more", "fson3"} /\ "" \notin {"closef", "more", "got", "plockdir", "fsoff", "unhang"}
  BY DEF WithDip, WithRip, WithMip, WithIp, Owner
<1>5. Good(Iget(SetFson2(k, p, c.ip), p, "root", <<"fson3">>), X) BY <1>2, <1>3, Fson2Get
<1>6. Good(PutIp(km, p, <<>>), X)
  <2>1. /\ Types(k) /\ c.ip # 0 /\ c.dip = 0 /\ c.put = 0 /\ c.mip = 0 /\ c.rip = 0 /\ Up(c) = 0
        /\ PathAt(k, c, l) /\ PathOK(k, c) /\ c.ip \in Slot
    BY <1>2, <1>4, HandTypes DEF LastFacts
  <2>2. /\ Types(km) /\ km.u = k.u /\ km.freel = k.freel /\ SameNodes(k, km) /\ km.fs.ilock = k.fs.ilock
    <3> DEFINE x == FALSE
    <3>1. km = SetDev(k, x) OBVIOUS
    <3> HIDE DEF x, km
    <3>2. QED BY <2>1, <3>1, SetMdev
  <2>3. \A t \in Slot : RefP(c, t) # 0 => k.node[t].ino # "root"
    <3> SUFFICES ASSUME NEW t \in Slot, RefP(c, t) # 0, k.node[t].ino = "root" PROVE FALSE OBVIOUS
    <3>1. Rip(c) = 0 BY <2>1 DEF Rip
    <3>2. c.ip = t \/ c.fd = t BY <2>1, <3>1, HandRef, SlotFacts
    <3>3. c.fd # t BY <2>1, OpenNoRoot
    <3>4. k.node[c.ip].ino = "mp" BY <2>1 DEF PathAt
    <3>5. QED BY <3>2, <3>3, <3>4
  <2>4. "" \notin Opens BY OpensIn
  <2>5. k.u[p].ip # 0 BY <2>1
  <2> HIDE DEF l, km, c
  <2>6. \A t \in Slot : RefP(k.u[p], t) # 0 => k.node[t].ino # "root" BY <2>3 DEF c
  <2>7. QED BY <1>2, <1>4, <2>2, <2>4, <2>5, <2>6, EmptyStack, GiveIp
<1>7. QED BY <1>1, <1>5, <1>6

\* Only who mounts or unmounts has to do with a file system that is not mounted.
LEMMA MountAlone ==
  ASSUME NEW k, NEW X, Good(k, X), NEW p \in Proc, Bot(k.u[p].pc) \in Owner
  PROVE  /\ ~IsMounted(k) /\ k.fs.mdev
         /\ \A s \in Slot : k.node[s].mroot = 0 /\ k.node[s].ino \in {"mp", "root", "none"}
         /\ \A s \in Slot : MountRefs(k.node, s) = 0
         /\ \A q \in Proc \ {p} : Bot(k.u[q].pc) \notin Owner
         /\ \A q \in Proc : Bot(k.u[q].pc) \notin {"fsoff", "unhang", "plockdir"}
<1>1. Types(k) /\ MountInv(k) /\ OwnerInv(k) /\ \A q \in Proc : PathOK(k, k.u[q]) /\ HandOK(k.u[q], k.u[q].pc)
  BY DEF Good, Core, Mounts, ProcOK
<1>2. ~IsMounted(k) /\ k.fs.mdev BY <1>1 DEF PathOK
<1>3. \A s \in Slot : k.node[s].mroot = 0 BY <1>2 DEF IsMounted
<1>4. \A s \in Slot : k.node[s].ino \notin InFs BY <1>1, <1>3 DEF MountInv
<1>5. \A s \in Slot : k.node[s].ino \in Inos BY <1>1 DEF Types, NodesOK, NodeOK
<1>6. \A s \in Slot : k.node[s].ino \in {"mp", "root", "none"} BY <1>4, <1>5 DEF Inos, InFs
<1>7. ASSUME NEW s \in Slot PROVE MountRefs(k.node, s) = 0
  <2>1. {m \in Slot : k.node[m].mroot = s \/ (m = s /\ k.node[m].mroot # 0)} = {} BY <1>3, SlotFacts
  <2>2. Cardinality({}) = 0 BY FS_EmptySet
  <2>3. QED BY <2>1, <2>2 DEF MountRefs
<1>8. \A q \in Proc \ {p} : Bot(k.u[q].pc) \notin Owner BY <1>1 DEF OwnerInv
<1>9. ASSUME NEW q \in Proc, Bot(k.u[q].pc) \in {"fsoff", "unhang", "plockdir"} PROVE FALSE
  <2> DEFINE c == k.u[q]
  <2>1. PathOK(k, c) /\ HandOK(c, c.pc) /\ Bot(c.pc) \in {"fsoff", "unhang", "plockdir"} BY <1>1, <1>9
  <2>2. c.mip # 0 /\ c.mip \in Slot BY <1>1, <2>1, HandTypes DEF HandOK, WithMip
  <2>3. Bot(c.pc) \in {"fsoff", "unhang"} => c.rip # 0 BY <2>1 DEF HandOK, WithRip
  <2> HIDE DEF c
  <2>4. k.node[c.mip].mroot # 0 BY <2>1, <2>3 DEF PathOK
  <2>5. QED BY <2>2, <2>4, <1>3
<1>10. QED BY <1>2, <1>3, <1>6, <1>7, <1>8, <1>9

\* What fson3 has done when it only has to give up the directory m that root r is mounted on.
Mounting(k, k1, p, m, r) ==
  /\ Types(k1) /\ k1.freel = k.freel /\ k1.fs = k.fs /\ Others(k, k1, p)
  /\ \A t \in Slot : /\ k1.node[t].ino = k.node[t].ino
                     /\ k1.node[t].mroot = IF t = m THEN r ELSE k.node[t].mroot
                     /\ k1.node[t].count = IF t = m THEN k.node[t].count + 1 ELSE k.node[t].count
                     /\ t # r => k1.node[t].lock = k.node[t].lock /\ k1.node[t].want = k.node[t].want
  /\ k1.node[r].mpoint = m /\ ~k1.node[r].lock
  /\ \A q \in Proc \ {p} : k.node[r].want => k1.u[q].chan # On(r)
  /\ KeepU(k.u[p], k1.u[p], {"pc", "ip", "dip"})
  /\ k1.u[p].pc = <<"iput">> /\ k1.u[p].ip = m /\ k1.u[p].dip = 0

\* Where it is when it finds the root.
MountsAt(k, p, m, r) ==
  /\ LastFacts(k, p, "fson3") /\ m \in Slot /\ r \in Slot /\ m # r /\ k.u[p].ip = r /\ k.u[p].dip = m
  /\ k.node[m].ino = "mp" /\ k.node[r].ino = "root" /\ k.node[m].count # 0

\* What c1 has of c: the directory is given to the mount, the root is not locked any more.
MountedHands(c, c1, m, r) ==
  /\ \A t \in Slot : RefP(c1, t) = RefP(c, t) - B(r = t) /\ RefP(c, t) \in Nat /\ RefP(c1, t) \in Nat
  /\ \A t \in Slot : (HoldP(c, t) <=> t \in {m, r}) /\ (HoldP(c1, t) <=> t = m)
  /\ ProcOK(c1) /\ c1.put = 0 /\ c1.fd = c.fd /\ c1.fino = c.fino /\ c1.chan = Awake
  /\ Bot(c1.pc) = "iput"

\* What it has in hand when the root hangs there,
LEMMA MountHands ==
  ASSUME NEW k, NEW k1, NEW X, Good(k, X), NEW p \in Proc, NEW m, NEW r, MountsAt(k, p, m, r), Mounting(k, k1, p, m, r)
  PROVE  MountedHands(k.u[p], k1.u[p], m, r)
<1> DEFINE c == k.u[p]
           c1 == k1.u[p]
<1>1. /\ c.ip = r /\ c.dip = m /\ c.put = 0 /\ c.rip = 0 /\ c.mip = 0 /\ Up(c) = 0 /\ c.chan = Awake
      /\ Bot(c.pc) = "fson3" /\ HandOK(c, c.pc)
  BY DEF MountsAt, LastFacts, WithRip, WithMip
<1>2. KeepU(c, c1, {"pc", "ip", "dip"}) /\ c1.pc = <<"iput">> /\ c1.ip = m /\ c1.dip = 0 BY DEF Mounting
<1>3. /\ "iput" \in LastL /\ "iput" \in WithIp /\ "iput" \notin WithDip \cup WithRip \cup WithMip \cup Opens \cup Owner
  BY DEF LastL, WithIp, WithDip, WithRip, WithMip, Opens, Owner
<1>4. /\ StackOK(<<"iput">>) /\ Bot(<<"iput">>) = "iput" /\ Top(<<"iput">>) = "iput" BY <1>3, LastStack
<1>5. m \in Slot /\ r \in Slot /\ m # r /\ m # 0 /\ r # 0 BY SlotFacts DEF MountsAt
<1> HIDE DEF c, c1
<1>6. /\ c1.put = 0 /\ c1.rip = 0 /\ c1.mip = 0 /\ c1.fd = c.fd /\ c1.fino = c.fino /\ c1.chan = Awake /\ c1.op = c.op
      /\ c1.name = c.name
  BY ONLY <1>1, <1>2 DEF KeepU, UserF
<1>7. Up(c1) = 0 /\ Rip(c1) = 0 /\ Rip(c) = 0 /\ ~Walk(c) /\ ~Walk(c1) BY <1>1, <1>2, <1>4, <1>6 DEF Up, Rip, Walk
<1>8. ASSUME NEW t \in Slot PROVE RefP(c1, t) = RefP(c, t) - B(r = t) /\ RefP(c, t) \in Nat /\ RefP(c1, t) \in Nat
  <2> DEFINE x == B(m = t)
             y == B(r = t)
             z == B(c.fd = t)
             w == B(0 = t)
  <2>1. RefP(c, t) = y + x + z + w + w + w BY <1>1, <1>7 DEF RefP
  <2>2. RefP(c1, t) = x + w + z + w + w + w BY <1>2, <1>6, <1>7 DEF RefP
  <2>3. w = 0 BY SlotFacts DEF B
  <2>4. x \in Nat /\ y \in Nat /\ z \in Nat BY DEF B
  <2> HIDE DEF x, y, z, w
  <2>5. RefP(c1, t) = RefP(c, t) - y /\ RefP(c, t) \in Nat /\ RefP(c1, t) \in Nat BY ONLY <2>1, <2>2, <2>3, <2>4
  <2>6. QED BY <2>5 DEF y
<1>9. \A t \in Slot : (HoldP(c, t) <=> t \in {m, r}) /\ (HoldP(c1, t) <=> t = m)
  BY <1>1, <1>2, <1>6, <1>7, SlotFacts DEF HoldP
<1>10. HandOK(c1, c1.pc)
  <2>1. /\ c.op \in {"open", "creat", "exec", "unlink"} => c.name \in Name
        /\ c.op \in {"open", "creat"} => c.fd = 0
    BY <1>1 DEF HandOK
  <2>2. QED BY <1>2, <1>3, <1>4, <1>5, <1>6, <2>1 DEF HandOK
<1>11. ProcOK(c1) BY <1>2, <1>5, <1>6, <1>10 DEF ProcOK, Apart
<1>12. MountedHands(c, c1, m, r) BY <1>2, <1>4, <1>6, <1>8, <1>9, <1>11 DEF MountedHands
<1>13. QED BY <1>12 DEF c, c1

\* that the counts and locks balance,
LEMMA MountCore ==
  ASSUME NEW k, NEW k1, NEW X, Good(k, X), NEW p \in Proc, NEW m, NEW r, MountsAt(k, p, m, r), Mounting(k, k1, p, m, r)
  PROVE  Core(k1, X) /\ Ledger(k, k1, p, X, X)
<1> DEFINE c == k.u[p]
           c1 == k1.u[p]
<1>1. /\ m \in Slot /\ r \in Slot /\ m # r /\ k.node[m].ino = "mp" /\ k.node[r].ino = "root" /\ Bot(c.pc) = "fson3"
      /\ k.node[m].count # 0
  BY DEF MountsAt, LastFacts
<1>2. /\ Types(k1) /\ k1.freel = k.freel /\ k1.fs = k.fs /\ Others(k, k1, p)
      /\ \A t \in Slot : /\ k1.node[t].ino = k.node[t].ino
                         /\ k1.node[t].mroot = IF t = m THEN r ELSE k.node[t].mroot
                         /\ k1.node[t].count = IF t = m THEN k.node[t].count + 1 ELSE k.node[t].count
                         /\ t # r => k1.node[t].lock = k.node[t].lock /\ k1.node[t].want = k.node[t].want
      /\ ~k1.node[r].lock
      /\ \A q \in Proc \ {p} : k.node[r].want => k1.u[q].chan # On(r)
  BY DEF Mounting
<1>3. /\ \A t \in Slot : RefP(c1, t) = RefP(c, t) - B(r = t) /\ RefP(c, t) \in Nat /\ RefP(c1, t) \in Nat
      /\ \A t \in Slot : (HoldP(c, t) <=> t \in {m, r}) /\ (HoldP(c1, t) <=> t = m)
      /\ ProcOK(c1) /\ c1.put = 0 /\ c1.chan = Awake /\ c1.pc # <<>>
  <2>1. c1.pc # <<>> BY DEF Mounting
  <2>2. MountedHands(c, c1, m, r) BY MountHands
  <2> HIDE DEF c, c1
  <2>3. QED BY ONLY <2>1, <2>2 DEF MountedHands
<1>4. /\ Core(k, X) /\ Types(k) /\ Texts(X) /\ LockInv(k) BY DEF Good, Core
<1>5. /\ \A s \in Slot : k.node[s].mroot = 0
      /\ \A s \in Slot : MountRefs(k.node, s) = 0
  BY <1>1, MountAlone DEF Owner
<1>6. \A t \in Slot : MountRefs(k1.node, t) = B(t = m) + B(t = r)
  <2> SUFFICES ASSUME NEW t \in Slot PROVE MountRefs(k1.node, t) = B(t = m) + B(t = r) OBVIOUS
  <2> DEFINE S == {n \in Slot : k1.node[n].mroot = t \/ (n = t /\ k1.node[n].mroot # 0)}
  <2>0. t # 0 /\ r # 0 BY <1>1, SlotFacts
  <2>0a. \A n \in Slot : k1.node[n].mroot = IF n = m THEN r ELSE 0 BY <1>2, <1>5
  <2>1. CASE t = m \/ t = r
    <3>1. S = {m} BY <1>1, <2>0, <2>0a, <2>1
    <3>2. Cardinality(S) = 1 BY <3>1, FS_Singleton
    <3>3. B(t = m) + B(t = r) = 1 BY <1>1, <2>1 DEF B
    <3>4. QED BY <3>2, <3>3 DEF MountRefs
  <2>2. CASE t # m /\ t # r
    <3>1. S = {} BY <2>0, <2>0a, <2>2
    <3>2. Cardinality(S) = 0 BY <3>1, FS_EmptySet
    <3>3. B(t = m) + B(t = r) = 0 BY <2>2 DEF B
    <3>4. QED BY <3>2, <3>3 DEF MountRefs
  <2>3. QED BY <2>1, <2>2
<1> HIDE DEF c, c1
<1>7. Ledger(k, k1, p, X, X)
  <2> SUFFICES ASSUME NEW t \in Slot
               PROVE k1.node[t].count - RefP(c1, t) - MountRefs(k1.node, t) - X[t]
                     = k.node[t].count - RefP(c, t) - MountRefs(k.node, t) - X[t]
    BY DEF Ledger, c, c1
  <2> DEFINE n == k.node[t].count
             n1 == k1.node[t].count
             a == RefP(c, t)
             a1 == RefP(c1, t)
             v == MountRefs(k.node, t)
             v1 == MountRefs(k1.node, t)
             x == X[t]
             bm == B(t = m)
             br == B(t = r)
  <2>1. n \in Int BY <1>4 DEF Types, NodesOK, NodeOK
  <2>2. x \in Nat /\ a \in Nat BY <1>3, <1>4 DEF Texts
  <2>3. n1 = n + bm BY <1>2, <2>1 DEF B
  <2>4. a1 = a - br
    <3>1. B(r = t) = br BY DEF B
    <3>2. QED BY <1>3, <3>1
  <2>5. v = 0 /\ v1 = bm + br BY <1>5, <1>6
  <2>6. bm \in Nat /\ br \in Nat BY DEF B
  <2> HIDE DEF n, n1, a, a1, v, v1, x, bm, br
  <2>7. n1 - a1 - v1 - x = n - a - v - x BY ONLY <2>1, <2>2, <2>3, <2>4, <2>5, <2>6
  <2>8. QED BY <2>7 DEF n, n1, a, a1, v, v1, x
<1>8. Locking(k, k1, p)
  <2> SUFFICES ASSUME NEW t \in Slot
               PROVE /\ k1.node[t].lock <=> (HoldP(c1, t) \/ (k.node[t].lock /\ ~HoldP(c, t)))
                     /\ HoldP(c1, t) => HoldP(c, t) \/ ~k.node[t].lock
    BY DEF Locking, c, c1
  <2>1. k.node[m].lock BY <1>1, <1>3, <1>4 DEF LockInv, c
  <2>2. CASE t = r BY <1>1, <1>2, <1>3, <2>2
  <2>3. CASE t = m BY <1>1, <1>2, <1>3, <2>1, <2>3
  <2>4. CASE t # r /\ t # m BY <1>2, <1>3, <2>4
  <2>5. QED BY <2>2, <2>3, <2>4
<1>9. Waking(k, k1, p)
  <2>1. ASSUME NEW q \in Proc \ {p}, NEW t \in Slot, k1.u[q].chan = On(t), k.node[t].lock, k.node[t].want
        PROVE  k1.node[t].lock /\ k1.node[t].want
    <3>1. t # r BY <1>2, <2>1
    <3>2. QED BY <1>2, <2>1, <3>1
  <2>2. c1.chan # On(r) /\ \A t \in Slot : c1.chan # On(t) BY <1>1, <1>3, AwakeOn
  <2>3. c1.chan # <<"ilock", 0>> BY <1>3 DEF Awake
  <2>4. QED BY <2>1, <2>2, <2>3, <1>2, <1>3 DEF Waking, c1
<1>10. Stays(k, k1)
  <2> SUFFICES ASSUME NEW t \in Slot PROVE SameSlot(k.node[t], k1.node[t]) BY <1>2 DEF Stays
  <2>1. k1.node[t].ino = k.node[t].ino BY <1>2
  <2>2. k1.node[t].lock => k.node[t].lock BY <1>2
  <2>3. k1.node[t].count = 0 <=> k.node[t].count = 0
    <3>1. CASE t # m BY <1>2, <3>1
    <3>2. CASE t = m
      <4>1. k.node[m].count \in Nat BY <1>1, <1>4, CountAtLeast
      <4>2. QED BY <1>1, <1>2, <3>2, <4>1
    <3>3. QED BY <3>1, <3>2
  <2>4. QED BY <2>1, <2>2, <2>3 DEF SameSlot
<1>11. Core(k1, X) BY <1>2, <1>3, <1>4, <1>7, <1>8, <1>9, <1>10, CoreStep DEF c1
<1>12. QED BY <1>7, <1>11

\* and that the invariant is kept.
LEMMA MountGood ==
  ASSUME NEW k, NEW k1, NEW X, Good(k, X), NEW p \in Proc, NEW m, NEW r, MountsAt(k, p, m, r), Mounting(k, k1, p, m, r)
  PROVE  Good(k1, X)
<1> DEFINE c == k.u[p]
           c1 == k1.u[p]
<1>1. /\ m \in Slot /\ r \in Slot /\ m # r /\ k.node[m].ino = "mp" /\ k.node[r].ino = "root" /\ Bot(c.pc) = "fson3"
      /\ m # 0 /\ r # 0
  BY SlotFacts DEF MountsAt, LastFacts
<1>2. /\ Types(k1) /\ k1.fs = k.fs /\ Others(k, k1, p)
      /\ \A t \in Slot : /\ k1.node[t].ino = k.node[t].ino
                         /\ k1.node[t].mroot = IF t = m THEN r ELSE k.node[t].mroot
      /\ k1.node[r].mpoint = m
  BY DEF Mounting
<1>3. MountedHands(c, c1, m, r) BY MountHands
<1>4. Core(k1, X) /\ Ledger(k, k1, p, X, X) BY MountCore
<1>5. /\ ~IsMounted(k) /\ k.fs.mdev
      /\ \A s \in Slot : k.node[s].mroot = 0 /\ k.node[s].ino \in {"mp", "root", "none"}
      /\ \A q \in Proc \ {p} : Bot(k.u[q].pc) \notin Owner
      /\ \A q \in Proc : Bot(k.u[q].pc) \notin {"fsoff", "unhang", "plockdir"}
  BY <1>1, MountAlone DEF Owner
<1>6. /\ Core(k, X) /\ Types(k) /\ Mounts(k) /\ LockInv(k) /\ TableInv(k)
      /\ \A q \in Proc : PutOK(k, k.u[q]) /\ ProcOK(k.u[q]) /\ PathOK(k, k.u[q]) /\ UserOK(k.u[q])
      /\ \A q \in Proc : ProcOK(k1.u[q]) /\ UserOK(k1.u[q])
  BY <1>4 DEF Good, Core, Mounts, Types, UsersOK
<1>7. IsMounted(k1) BY <1>1, <1>2 DEF IsMounted
<1>8. "mp" \notin InFs /\ "root" \notin InFs /\ "none" \notin InFs BY KeyNames
<1>9. /\ \A t \in Slot : RefP(c1, t) = RefP(c, t) - B(r = t) /\ RefP(c, t) \in Nat /\ RefP(c1, t) \in Nat
      /\ \A t \in Slot : (HoldP(c, t) <=> t \in {m, r}) /\ (HoldP(c1, t) <=> t = m)
      /\ ProcOK(c1) /\ c1.put = 0 /\ c1.fd = c.fd /\ c1.fino = c.fino /\ Bot(c1.pc) = "iput"
  <2> HIDE DEF c, c1
  <2>1. QED BY ONLY <1>3 DEF MountedHands
<1>10. MountInv(k1)
  <2>1. ASSUME NEW n \in Slot, k1.node[n].mroot # 0
        PROVE  /\ k1.node[n].ino = "mp" /\ k1.fs.mdev
               /\ k1.node[k1.node[n].mroot].ino = "root" /\ k1.node[k1.node[n].mroot].mpoint = n
    <3>1. n = m BY <2>1, <1>2, <1>5
    <3>2. k1.node[n].mroot = r BY <3>1, <1>1, <1>2
    <3>3. QED BY <3>1, <3>2, <1>1, <1>2, <1>5
  <2>2. \A s \in Slot : k1.node[s].ino \notin InFs BY <1>2, <1>5, <1>8
  <2>3. QED BY <2>1, <2>2 DEF MountInv
<1>11. \A q \in Proc : Bot(k1.u[q].pc) \notin Owner
  <2>1. ASSUME NEW q \in Proc \ {p} PROVE Bot(k1.u[q].pc) \notin Owner
    <3>1. KeepU(k.u[q], k1.u[q], {"chan"}) BY <1>2 DEF Others
    <3>2. k1.u[q].pc = k.u[q].pc BY ONLY <3>1 DEF KeepU, UserF
    <3>3. QED BY <3>2, <1>5
  <2>2. Bot(k1.u[p].pc) \notin Owner BY <1>9 DEF Owner
  <2>3. QED BY <2>1, <2>2
<1>12. OwnerInv(k1)
  <2>1. ASSUME NEW s \in Slot, k1.node[s].ino = "root" PROVE k1.node[m].mroot = s
    <3>1. k.node[s].ino = "root" BY <2>1, <1>2
    <3>2. s = r BY <3>1, <1>1, <1>6 DEF TableInv
    <3>3. QED BY <3>2, <1>1, <1>2
  <2>2. QED BY <2>1, <1>1, <1>11 DEF OwnerInv
<1>13. ASSUME NEW q \in Proc \ {p} PROVE PathOK(k1, k1.u[q])
  <2> DEFINE d == k.u[q]
             d1 == k1.u[q]
  <2>1. KeepU(d, d1, {"chan"}) BY <1>2 DEF Others
  <2>2. Still(d, d1) BY <2>1, SamePath
  <2>3. UserOK(d) /\ UserOK(d1) /\ ProcOK(d) /\ ProcOK(d1) /\ PathOK(k, d) BY <1>6
  <2>4. Bot(d.pc) \notin Owner /\ Bot(d.pc) \notin WithMip /\ Bot(d.pc) # "unhang" BY <1>5 DEF WithMip
  <2> HIDE DEF d, d1
  <2>5. \A s \in Slot : k1.node[s].ino = k.node[s].ino BY <1>2
  <2>6. PathOK(k1, d1) BY <1>7, <2>2, <2>3, <2>4, <2>5, PathFrame
  <2>7. QED BY <2>6 DEF d1
<1>14. PathOK(k1, c1)
  <2>1. PathAt(k, c, "fson3") BY DEF MountsAt, LastFacts
  <2>2. c.fd \in Opt BY <1>6, HandTypes
  <2> HIDE DEF c, c1
  <2>3. c1.fd # 0 => k1.node[c1.fd].ino = c1.fino /\ c1.fino \in InFs
    <3>1. c.fd # 0 => k.node[c.fd].ino = c.fino /\ c.fino \in InFs BY <2>1 DEF PathAt
    <3>2. c.fd # 0 => c.fd \in Slot BY <2>2 DEF Opt
    <3>3. QED BY <1>2, <1>9, <3>1, <3>2
  <2>4. PathAt(k1, c1, Bot(c1.pc)) BY <2>3, <1>9 DEF PathAt, Named, WithDip
  <2>5. RootOwned(k1, c1) BY <1>7 DEF RootOwned
  <2>6. Empty(k1, c1) BY <1>9 DEF Empty
  <2>7. Bot(c1.pc) \notin Owner BY <1>9 DEF Owner
  <2>8. QED BY <2>4, <2>5, <2>6, <2>7, PathParts
<1>15. Mounts(k1) BY <1>10, <1>12, <1>13, <1>14 DEF Mounts
<1>16. Gains(c, c1)
  <2> HIDE DEF c, c1
  <2>1. ASSUME NEW t \in Slot, RefP(c1, t) # 0 PROVE RefP(c, t) # 0
    <3> DEFINE x == RefP(c, t)
               y == RefP(c1, t)
               z == B(r = t)
    <3>1. y = x - z /\ x \in Nat /\ y \in Nat /\ y # 0 BY <1>9, <2>1
    <3>2. z \in Nat BY DEF B
    <3> HIDE DEF x, y, z
    <3>3. x # 0 BY ONLY <3>1, <3>2
    <3>4. QED BY <3>3 DEF x
  <2>2. QED BY <2>1 DEF Gains
<1>17. ASSUME NEW q \in Proc \ {p}, NEW s \in Slot, k.u[q].put = s PROVE MountRefs(k1.node, s) = MountRefs(k.node, s)
  <2>1. HoldP(k.u[q], s) BY <1>17 DEF HoldP
  <2>2. ~HoldP(c, s) BY <2>1, <1>6 DEF LockInv
  <2>3. s # m /\ s # r BY <2>2, <1>9
  <2>4. {n \in Slot : k1.node[n].mroot = s \/ (n = s /\ k1.node[n].mroot # 0)} = {}
    <3>1. s # 0 BY SlotFacts
    <3>2. ASSUME NEW n \in Slot PROVE ~(k1.node[n].mroot = s \/ (n = s /\ k1.node[n].mroot # 0))
      <4>1. k1.node[n].mroot = IF n = m THEN r ELSE 0 BY <1>2, <1>5
      <4>2. QED BY <4>1, <3>1, <2>3
    <3>3. QED BY <3>2
  <2>5. {n \in Slot : k.node[n].mroot = s \/ (n = s /\ k.node[n].mroot # 0)} = {} BY <1>5, SlotFacts
  <2>6. QED BY <2>4, <2>5 DEF MountRefs
<1>18. \A s \in Slot : X[s] > X[s] => HoldP(k1.u[p], s)
  <2>1. \A s \in Slot : X[s] \in Nat BY <1>6 DEF Core, Texts
  <2>2. QED BY <2>1
<1>19. PutOK(k1, c1) BY <1>9 DEF PutOK
<1>20. \A q \in Proc : PutOK(k1, k1.u[q])
  BY <1>2, <1>4, <1>6, <1>16, <1>17, <1>18, <1>19, PutKeep
<1>21. QED BY <1>4, <1>15, <1>20 DEF Good

\* The directory m and the root r point at each other, each with a reference.
SetMount(k, p, m, r) == [k EXCEPT !.node[m].mroot = r, !.node[m].count = @ + 1,
                                  !.node[r].mpoint = m, !.u[p].ip = 0]

\* What that changes.
MountSet(k, k1, p, m, r) ==
  /\ Types(k1) /\ SameRest(k, k1) /\ \A q \in Proc \ {p} : k1.u[q] = k.u[q]
  /\ KeepU(k.u[p], k1.u[p], {"ip"}) /\ k1.u[p].ip = 0
  /\ \A t \in Slot \ {m, r} : k1.node[t] = k.node[t]
  /\ KeepN(k.node[m], k1.node[m], {"mroot", "count"})
  /\ k1.node[m].mroot = r /\ k1.node[m].count = k.node[m].count + 1
  /\ KeepN(k.node[r], k1.node[r], {"mpoint"}) /\ k1.node[r].mpoint = m

\* The root and the directory point at each other.
LEMMA SetMountEff ==
  ASSUME NEW k, Types(k), NEW p \in Proc, NEW m \in Slot, NEW r \in Slot, m # r
  PROVE  MountSet(k, SetMount(k, p, m, r), p, m, r)
<1> DEFINE a == [k.node[m] EXCEPT !.mroot = r, !.count = @ + 1]
           ka == [k EXCEPT !.node[m] = a]
           b == [k.node[r] EXCEPT !.mpoint = m]
           kb == [ka EXCEPT !.node[r] = b]
           z == 0
           kc == [kb EXCEPT !.u[p].ip = z]
           k1 == SetMount(k, p, m, r)
<1>1. k1 = kc
  <2>1. Shape(k) /\ NodesOK(k.node) BY DEF Types
  <2>2. DOMAIN k.node = Slot BY <2>1 DEF NodesOK
  <2> DEFINE a0 == [k.node[m] EXCEPT !.mroot = r]
             e1 == [k EXCEPT !.node[m].mroot = r]
             e2 == [e1 EXCEPT !.node[m].count = k.node[m].count + 1]
             n1 == k.node[m].count + 1
             e3 == [e2 EXCEPT !.node[r].mpoint = m]
             e4 == [e3 EXCEPT !.u[p].ip = z]
  <2>3. k1 = e4 BY DEF SetMount
  <2>4. e2 = ka
    <3> DEFINE f1 == [k EXCEPT !.node[m] = a0]
               f2 == [f1 EXCEPT !.node[m] = a]
    <3>1. e1 = f1 OBVIOUS
    <3>2. a = [a0 EXCEPT !.count = n1]
      <4>1. k.node[m] = [f \in NodeF |-> k.node[m][f]] BY <2>1 DEF NodesOK, NodeOK
      <4>2. a0.count = k.node[m].count BY <4>1 DEF NodeF
      <4>3. QED OBVIOUS
    <3>3. f1.node[m] = a0 BY <2>1, <2>2 DEF Shape, Five
    <3>3a. e2 = [e1 EXCEPT !.node[m].count = n1] OBVIOUS
    <3> HIDE DEF a0, a, n1, e2
    <3>4. e2 = [f1 EXCEPT !.node[m] = [a0 EXCEPT !.count = n1]]
      <4> HIDE DEF e1, f1
      <4>1. e2 = [f1 EXCEPT !.node[m].count = n1] BY <3>1, <3>3a
      <4>2. QED BY <4>1, <3>3
    <3>5. e2 = f2 BY <3>2, <3>4
    <3>6. f2 = ka BY <2>1, <2>2 DEF Shape, Five
    <3>7. QED BY <3>5, <3>6
  <2>5. e3 = kb
    <3>1. ka.node[r] = k.node[r] BY <2>1, <2>2 DEF Shape, Five
    <3> HIDE DEF ka, e2
    <3>2. e3 = [ka EXCEPT !.node[r].mpoint = m] BY <2>4
    <3>3. QED BY <3>1, <3>2
  <2>6. e4 = kc
    <3> HIDE DEF e3, kb
    <3>1. QED BY <2>5
  <2> HIDE DEF k1, e4, kc
  <2>7. QED BY <2>3, <2>6
<1>2. m \in Opt /\ r \in Opt /\ z \in Opt BY SlotFacts
<1>3. /\ NodeOK(k.node[m]) /\ k.node[m] = [f \in NodeF |-> k.node[m][f]] /\ k.node[m].count \in Int
      /\ NodeOK(k.node[r]) /\ k.node[r] = [f \in NodeF |-> k.node[r][f]]
  BY DEF Types, NodesOK, NodeOK
<1>4. a = [f \in NodeF |-> a[f]] /\ a.mroot = r /\ a.count = k.node[m].count + 1 /\ KeepN(k.node[m], a, {"mroot", "count"})
  BY <1>3 DEF NodeF, KeepN
<1>5. b = [f \in NodeF |-> b[f]] /\ b.mpoint = m /\ KeepN(k.node[r], b, {"mpoint"})
  BY <1>3 DEF NodeF, KeepN
<1> HIDE DEF a, b
<1>6. NodeOK(a) BY <1>2, <1>3, <1>4 DEF NodeOK, KeepN, NodeF
<1>7. NodeOK(b) BY <1>2, <1>3, <1>5 DEF NodeOK, KeepN, NodeF
<1>8. Types(ka) /\ SameRest(k, ka) /\ ka.u = k.u /\ NodeBut(k, ka, m) /\ ka.node[m] = a
  BY <1>6, SetNode
<1> HIDE DEF ka
<1>9. Types(kb) /\ SameRest(ka, kb) /\ kb.u = ka.u /\ NodeBut(ka, kb, r) /\ kb.node[r] = b
  BY <1>7, <1>8, SetNode
<1> HIDE DEF kb, z
<1>10. Types(kc) /\ Only(kb, kc, p) /\ KeepU(kb.u[p], kc.u[p], {"ip"}) /\ kc.u[p].ip = z
  BY <1>2, <1>9, SetIp
<1>11. z = 0 BY DEF z
<1> HIDE DEF kc, k1
<1>12. k1.node = kb.node /\ SameRest(k, k1) BY <1>1, <1>8, <1>9, <1>10 DEF Only, SameRest
<1>13. /\ \A q \in Proc \ {p} : k1.u[q] = k.u[q]
       /\ KeepU(k.u[p], k1.u[p], {"ip"}) /\ k1.u[p].ip = 0
  BY <1>1, <1>8, <1>9, <1>10, <1>11 DEF Only
<1>14. k1.node[m] = a /\ k1.node[r] = b /\ \A t \in Slot \ {m, r} : k1.node[t] = k.node[t]
  BY <1>8, <1>9, <1>12 DEF NodeBut
<1>15. MountSet(k, k1, p, m, r) BY <1>1, <1>4, <1>5, <1>10, <1>12, <1>13, <1>14 DEF MountSet
<1>16. QED BY <1>15 DEF k1

\* fson3 has unlocked the root; before it gives up the directory.
Preled(k, k0, p, m, r) ==
  /\ k0.freel = k.freel /\ k0.fs = k.fs /\ Others(k, k0, p)
  /\ \A t \in Slot : /\ k0.node[t].ino = k.node[t].ino
                     /\ k0.node[t].mroot = IF t = m THEN r ELSE k.node[t].mroot
                     /\ k0.node[t].count = IF t = m THEN k.node[t].count + 1 ELSE k.node[t].count
                     /\ t # r => k0.node[t].lock = k.node[t].lock /\ k0.node[t].want = k.node[t].want
  /\ k0.node[r].mpoint = m /\ ~k0.node[r].lock
  /\ \A q \in Proc \ {p} : k.node[r].want => k0.u[q].chan # On(r)
  /\ KeepU(k.u[p], k0.u[p], {"ip", "dip"}) /\ k0.u[p].ip = 0 /\ k0.u[p].dip = 0

\* Then the root is unlocked.
LEMMA MountPrele ==
  ASSUME NEW k, NEW km, NEW kn, NEW k0, NEW p \in Proc, NEW m \in Slot, NEW r \in Slot, m # r, Types(k),
         MountSet(k, km, p, m, r), kn = Prele(km, r), Types(k0), Only(kn, k0, p),
         KeepU(kn.u[p], k0.u[p], {"dip"}), k0.u[p].dip = 0, k.u[p].chan = Awake
  PROVE  Preled(k, k0, p, m, r)
<1>1. /\ Types(km) /\ SameRest(k, km) /\ \A q \in Proc \ {p} : km.u[q] = k.u[q]
      /\ KeepU(k.u[p], km.u[p], {"ip"}) /\ km.u[p].ip = 0
      /\ \A t \in Slot \ {m, r} : km.node[t] = k.node[t]
      /\ KeepN(k.node[m], km.node[m], {"mroot", "count"})
      /\ km.node[m].mroot = r /\ km.node[m].count = k.node[m].count + 1
      /\ KeepN(k.node[r], km.node[r], {"mpoint"}) /\ km.node[r].mpoint = m
  BY DEF MountSet
<1>2. /\ Types(kn) /\ SameRest(km, kn) /\ NodeBut(km, kn, r)
      /\ KeepN(km.node[r], kn.node[r], {"lock", "want"}) /\ ~kn.node[r].lock
      /\ \A q \in Proc : /\ KeepU(km.u[q], kn.u[q], {"chan"})
                         /\ kn.u[q].chan = IF km.node[r].want /\ km.u[q].chan = On(r) THEN Awake
                                           ELSE km.u[q].chan
  BY <1>1, PreleEff
<1>3. /\ k0.node = kn.node /\ k0.freel = kn.freel /\ k0.fs = kn.fs /\ \A q \in Proc \ {p} : k0.u[q] = kn.u[q]
  BY DEF Only
<1>4. k0.freel = k.freel /\ k0.fs = k.fs BY <1>1, <1>2, <1>3 DEF SameRest
<1>5. /\ km.node[r].ino = k.node[r].ino /\ km.node[r].mroot = k.node[r].mroot /\ km.node[r].count = k.node[r].count
      /\ km.node[r].want = k.node[r].want
      /\ km.node[m].ino = k.node[m].ino /\ km.node[m].lock = k.node[m].lock /\ km.node[m].want = k.node[m].want
  BY <1>1 DEF KeepN, NodeF
<1>6. /\ kn.node[r].ino = km.node[r].ino /\ kn.node[r].mroot = km.node[r].mroot /\ kn.node[r].count = km.node[r].count
      /\ kn.node[r].mpoint = km.node[r].mpoint
  BY <1>2 DEF KeepN, NodeF
<1>7. kn.node[m] = km.node[m] /\ \A t \in Slot \ {m, r} : kn.node[t] = k.node[t] BY <1>1, <1>2 DEF NodeBut
<1>8. ASSUME NEW t \in Slot
      PROVE  /\ k0.node[t].ino = k.node[t].ino
             /\ k0.node[t].mroot = IF t = m THEN r ELSE k.node[t].mroot
             /\ k0.node[t].count = IF t = m THEN k.node[t].count + 1 ELSE k.node[t].count
             /\ t # r => k0.node[t].lock = k.node[t].lock /\ k0.node[t].want = k.node[t].want
  <2>1. CASE t = m BY <1>1, <1>3, <1>5, <1>7, <2>1
  <2>2. CASE t = r BY <1>3, <1>5, <1>6, <2>2
  <2>3. CASE t # m /\ t # r BY <1>3, <1>7, <2>3
  <2>4. QED BY <2>1, <2>2, <2>3
<1>9. k0.node[r].mpoint = m /\ ~k0.node[r].lock BY <1>1, <1>2, <1>3, <1>6
<1>10. ASSUME NEW q \in Proc \ {p}
       PROVE  /\ KeepU(k.u[q], k0.u[q], {"chan"}) /\ k0.u[q].chan \in {k.u[q].chan, Awake}
              /\ k.node[r].want => k0.u[q].chan # On(r)
  <2>1. km.u[q] = k.u[q] /\ k0.u[q] = kn.u[q] BY <1>1, <1>3
  <2>2. QED BY <2>1, <1>2, <1>5, AwakeOn
<1>11. Others(k, k0, p) BY <1>10 DEF Others
<1>12. /\ KeepU(k.u[p], km.u[p], {"ip"}) /\ km.u[p].ip = 0 /\ KeepU(km.u[p], kn.u[p], {"chan"})
       /\ kn.u[p].chan = km.u[p].chan
  <2>1. km.u[p].chan = Awake BY <1>1 DEF KeepU, UserF
  <2>2. QED BY <1>1, <1>2, <2>1
<1>13. KeepU(k.u[p], k0.u[p], {"ip", "dip"}) /\ k0.u[p].ip = 0 /\ k0.u[p].dip = 0
  <2> DEFINE a == k.u[p]
             b == km.u[p]
             d == kn.u[p]
             e == k0.u[p]
  <2>1. KeepU(a, b, {"ip"}) /\ b.ip = 0 /\ KeepU(b, d, {"chan"}) /\ d.chan = b.chan /\ KeepU(d, e, {"dip"}) /\ e.dip = 0
    BY <1>12
  <2> HIDE DEF a, b, d, e
  <2>2. KeepU(a, e, {"ip", "dip"}) /\ e.ip = 0 /\ e.dip = 0 BY ONLY <2>1 DEF KeepU, UserF
  <2>3. QED BY <2>2 DEF a, e
<1>14. QED BY <1>4, <1>8, <1>9, <1>10, <1>11, <1>13 DEF Preled

\* A process goes on at pc, with ip x.
SetAt(k, p, pc, x) == [k EXCEPT !.u[p].pc = pc, !.u[p].ip = x]

\* A process gives up its ip, and then its dip.
LEMMA SetAtEff ==
  ASSUME NEW k, Types(k), NEW p \in Proc, NEW pc \in Seq(Label), NEW x \in Opt
  PROVE  LET k1 == SetAt(k, p, pc, x) IN
         /\ Types(k1) /\ Only(k, k1, p) /\ KeepU(k.u[p], k1.u[p], {"pc", "ip"})
         /\ k1.u[p].pc = pc /\ k1.u[p].ip = x
<1> DEFINE c == [k.u[p] EXCEPT !.pc = pc, !.ip = x]
           k1 == SetAt(k, p, pc, x)
           j == [k EXCEPT !.u[p] = c]
<1>0. UserOK(k.u[p]) /\ k.u[p] = [f \in UserF |-> k.u[p][f]] /\ UsersOK(k.u) /\ Shape(k)
  BY DEF Types, UsersOK, UserOK
<1>1. k1 = j BY <1>0 DEF SetAt, UsersOK, Shape, Five
<1>2. c = [f \in UserF |-> c[f]] /\ c.pc = pc /\ c.ip = x /\ KeepU(k.u[p], c, {"pc", "ip"}) BY <1>0 DEF UserF, KeepU
<1> HIDE DEF c
<1>3. UserOK(c) BY <1>0, <1>2 DEF UserOK, KeepU, UserF
<1>4. Types(j) /\ Only(k, j, p) /\ j.u[p] = c BY <1>3, SetUser
<1> HIDE DEF k1, j
<1>5. QED BY <1>1, <1>2, <1>4 DEF k1

\* The end of mount.
LEMMA FsonDone ==
  ASSUME NEW k, NEW X, Good(k, X), NEW p \in Proc, NEW m, NEW r, MountsAt(k, p, m, r)
  PROVE  Good(PutDip(Prele(SetMount(k, p, m, r), r), p, <<>>), X)
<1> DEFINE z == 0
           rest == <<>>
           pc == <<"iput">>
           km == SetMount(k, p, m, r)
           kn == Prele(km, r)
           k0 == [kn EXCEPT !.u[p].dip = z]
           k1 == Iput(k0, p, m, rest)
           kp == SetAt(k0, p, pc, m)
           c == k.u[p]
           c0 == k0.u[p]
           cp == kp.u[p]
<1>1. /\ m \in Slot /\ r \in Slot /\ m # r /\ k.node[m].ino = "mp" /\ k.node[r].ino = "root" /\ Bot(c.pc) = "fson3"
      /\ m # 0 /\ c.ip = r /\ c.dip = m /\ k.node[m].count # 0 /\ m \in Opt
  BY SlotFacts DEF MountsAt, LastFacts
<1>2. /\ Types(k) /\ c.chan = Awake /\ c.put = 0 /\ c.rip = 0 /\ c.mip = 0 /\ HandOK(c, c.pc)
  BY DEF MountsAt, LastFacts, WithRip, WithMip
<1>3. MountSet(k, km, p, m, r) BY <1>1, <1>2, SetMountEff
<1> HIDE DEF km
<1>4. Types(km) BY <1>3 DEF MountSet
<1>5. Types(kn) BY <1>1, <1>4, PreleEff
<1>6. z = 0 /\ z \in Opt BY SlotFacts
<1> HIDE DEF z
<1>7. kn.u[p].dip = m
  <2>1. KeepU(c, km.u[p], {"ip"}) BY <1>3 DEF MountSet
  <2>2. KeepU(km.u[p], kn.u[p], {"chan"}) BY <1>1, <1>4, PreleEff
  <2>3. km.u[p].dip = c.dip BY ONLY <2>1 DEF KeepU, UserF
  <2>4. kn.u[p].dip = km.u[p].dip BY ONLY <2>2 DEF KeepU, UserF
  <2>5. QED BY <1>1, <2>3, <2>4
<1>8. PutDip(kn, p, rest) = k1 BY <1>6, <1>7 DEF PutDip
<1>8a. kn = Prele(km, r) OBVIOUS
<1> HIDE DEF kn
<1>9. Types(k0) /\ Only(kn, k0, p) /\ KeepU(kn.u[p], k0.u[p], {"dip"}) /\ k0.u[p].dip = z
  BY ONLY <1>5, <1>6, SetDip, p \in Proc
<1> HIDE DEF k0
<1>10. /\ k0.freel = k.freel /\ k0.fs = k.fs /\ Others(k, k0, p)
       /\ \A t \in Slot : /\ k0.node[t].ino = k.node[t].ino
                          /\ k0.node[t].mroot = IF t = m THEN r ELSE k.node[t].mroot
                          /\ k0.node[t].count = IF t = m THEN k.node[t].count + 1 ELSE k.node[t].count
                          /\ t # r => k0.node[t].lock = k.node[t].lock /\ k0.node[t].want = k.node[t].want
       /\ k0.node[r].mpoint = m /\ ~k0.node[r].lock
       /\ \A q \in Proc \ {p} : k.node[r].want => k0.u[q].chan # On(r)
       /\ KeepU(k.u[p], k0.u[p], {"ip", "dip"}) /\ k0.u[p].ip = 0 /\ k0.u[p].dip = 0
  <2>1. Preled(k, k0, p, m, r)
    <3>1. k.u[p].chan = Awake /\ k0.u[p].dip = 0 BY <1>2, <1>6, <1>9
    <3>2. KeepU(kn.u[p], k0.u[p], {"dip"}) /\ Types(k0) /\ Only(kn, k0, p) BY <1>9
    <3>3. m \in Slot /\ r \in Slot /\ m # r /\ Types(k) BY <1>1, <1>2
    <3>4. QED BY ONLY <3>1, <3>2, <3>3, <1>3, <1>8a, MountPrele, p \in Proc
  <2>2. QED BY <2>1 DEF Preled
<1>11. /\ "iput" \in LastL /\ "iput" \notin Owner /\ "iput" \notin {"got", "more", "upput", "unhang"}
  BY DEF LastL, WithIp, Owner
<1>12. pc \in Seq(Label) /\ Bot(pc) = "iput" /\ Top(pc) = "iput" BY <1>11, LastStack
<1>12a. pc = <<"iput">> OBVIOUS
<1> HIDE DEF pc
<1>13. /\ Types(kp) /\ Only(k0, kp, p) /\ KeepU(c0, cp, {"pc", "ip"}) /\ cp.pc = pc /\ cp.ip = m
  BY <1>1, <1>9, <1>12, SetAtEff
<1> HIDE DEF kp
<1>14. kp.node = k0.node /\ kp.freel = k0.freel /\ kp.fs = k0.fs /\ \A q \in Proc \ {p} : kp.u[q] = k0.u[q]
  BY <1>13 DEF Only
<1>15. KeepU(c, c0, {"ip", "dip"}) /\ c0.ip = 0 /\ c0.dip = 0 BY <1>10
<1> HIDE DEF c, c0, cp
<1>16. /\ cp.dip = 0 /\ KeepU(c, cp, {"pc", "ip", "dip"}) /\ cp.put = 0 /\ cp.rip = 0 /\ cp.mip = 0 /\ cp.fd = c.fd
       /\ cp.fino = c.fino
       /\ c0.put = 0 /\ c0.rip = 0 /\ c0.mip = 0 /\ c0.fd = c.fd /\ c0.fino = c.fino /\ c0.op = c.op /\ c0.name = c.name
       /\ c0.chan = Awake
  BY ONLY <1>2, <1>13, <1>15 DEF KeepU, UserF
<1>17. Mounting(k, kp, p, m, r)
  <2>1. Others(k, kp, p) BY <1>10, <1>14 DEF Others
  <2>2. KeepU(k.u[p], kp.u[p], {"pc", "ip", "dip"}) /\ kp.u[p].pc = <<"iput">> /\ kp.u[p].ip = m /\ kp.u[p].dip = 0
    BY <1>12a, <1>13, <1>16 DEF c, cp
  <2>3. kp.freel = k.freel /\ kp.fs = k.fs /\ kp.node[r].mpoint = m /\ ~kp.node[r].lock BY <1>10, <1>14
  <2>4. \A t \in Slot : /\ kp.node[t].ino = k.node[t].ino
                        /\ kp.node[t].mroot = IF t = m THEN r ELSE k.node[t].mroot
                        /\ kp.node[t].count = IF t = m THEN k.node[t].count + 1 ELSE k.node[t].count
                        /\ t # r => kp.node[t].lock = k.node[t].lock /\ kp.node[t].want = k.node[t].want
    BY <1>10, <1>14
  <2>5. \A q \in Proc \ {p} : k.node[r].want => kp.u[q].chan # On(r) BY <1>10, <1>14
  <2>6. QED BY <1>13, <2>1, <2>2, <2>3, <2>4, <2>5 DEF Mounting
<1>18. Good(kp, X) BY <1>17, MountGood
<1>19. Up(cp) = 0 /\ Rip(cp) = 0 /\ Rip(c0) = 0 /\ ~Walk(cp) BY <1>11, <1>12, <1>13, <1>16 DEF Up, Rip, Walk
<1>20. Prep(kp, k0, p, m)
  <2>1. Others(kp, k0, p) BY <1>14 DEF Others, KeepU
  <2>2. /\ \A t \in Slot : KeepN(kp.node[t], k0.node[t], Dull)
        /\ KeepN(kp.node[m], k0.node[m], Dull \cup {"lock", "want"})
    BY <1>14 DEF KeepN
  <2>3. k0.u[p].chan = Awake BY <1>16 DEF c0
  <2>3a. kp.node = k0.node /\ kp.freel = k0.freel /\ kp.fs = k0.fs /\ Types(k0) BY <1>9, <1>14
  <2>4. QED BY ONLY <2>1, <2>2, <2>3, <2>3a DEF Prep
<1>21. Given(kp, k0, p, m, rest)
  <2>1. HandOK(c0, rest)
    <3>1. /\ c.op \in {"open", "creat", "exec", "unlink"} => c.name \in Name
          /\ c.op \in {"open", "creat"} => c.fd = 0
      BY <1>2 DEF HandOK
    <3>2. "" \notin Opens \cup WithDip \cup WithIp \cup PerhapsIp \cup WithRip \cup WithMip BY EmptyStack, OpensIn
    <3>3. StackOK(rest) /\ Top(rest) = "" /\ Bot(rest) = "" BY EmptyStack
    <3> HIDE DEF rest
    <3>4. QED BY <1>15, <1>16, <3>1, <3>2, <3>3 DEF HandOK
  <2>2. ASSUME NEW t \in Slot PROVE RefP(cp, t) = RefQ(c0, t) + B(m = t)
    <3> DEFINE x == B(m = t)
               y == B(c.fd = t)
               w == B(0 = t)
    <3>1. RefP(cp, t) = x + w + y + w + w + w BY <1>13, <1>16, <1>19 DEF RefP
    <3>2. RefQ(c0, t) = w + w + y + w BY <1>15, <1>16, <1>19 DEF RefQ
    <3>3. w = 0 BY SlotFacts DEF B
    <3>4. x \in Nat /\ y \in Nat BY DEF B
    <3> HIDE DEF x, y, w
    <3>5. RefP(cp, t) = RefQ(c0, t) + x BY ONLY <3>1, <3>2, <3>3, <3>4
    <3>6. QED BY <3>5 DEF x
  <2>3. \A t \in Slot \ {m} : HoldP(cp, t) <=> HoldQ(c0, t, "")
    BY <1>13, <1>15, <1>16, <1>19, SlotFacts DEF HoldP, HoldQ
  <2>4. QED BY <1>15, <2>1, <2>2, <2>3, EmptyStack DEF Given, c0, cp
<1>22. GiveLock(kp, k0, p, m, rest)
  <2>1. HoldP(cp, m) BY <1>13 DEF HoldP
  <2>2. ~HoldQ(c0, m, Bot(rest)) BY <1>1, <1>15, <1>16 DEF HoldQ
  <2>3. QED BY <2>1, <2>2 DEF GiveLock, c0, cp
<1>23. Onward(kp, k0, p, m, rest)
  <2>1. Bot(kp.u[p].pc) \notin Owner BY <1>11, <1>12, <1>13 DEF cp
  <2>2. PathOK(kp, cp) BY <1>18 DEF Good, Mounts, cp
  <2>3. c0.fd = cp.fd /\ c0.fino = cp.fino BY <1>16
  <2>4. PathAt(kp, c0, "")
    <3>1. PathAt(kp, cp, Bot(cp.pc)) BY <2>2, PathParts
    <3>2. c0.fd # 0 => kp.node[c0.fd].ino = c0.fino /\ c0.fino \in InFs BY <3>1, <2>3 DEF PathAt
    <3>3. "" \notin Named \cup WithDip BY EmptyStack
    <3>4. QED BY <3>2, <3>3 DEF PathAt
  <2>5. Bot(rest) = "" /\ "" \notin Owner BY EmptyStack
  <2> HIDE DEF rest
  <2>6. QED BY <1>14, <2>1, <2>4, <2>5 DEF Onward, c0
<1>24. Gave(k0, k1, p, m, rest)
  <2>1. k0.node[m].ino # "none" BY <1>1, <1>10
  <2>2. k0.node[m].count # 0 /\ k0.node[m].count # 1
    <3>1. k.node[m].count \in Nat BY <1>1, CountAtLeast DEF Good
    <3>2. k0.node[m].count = k.node[m].count + 1 BY <1>1, <1>10
    <3>3. QED BY <1>1, <3>1, <3>2
  <2>3. k0.u[p].chan = Awake BY <1>16 DEF c0
  <2>4. rest \in Seq(Label) BY EmptyStack
  <2> HIDE DEF rest
  <2>5. QED BY <1>1, <1>9, <2>1, <2>2, <2>3, <2>4, IputEff DEF Gave
<1>25. rest \in Seq(Label) BY EmptyStack
<1> HIDE DEF rest, k1
<1>26. Good(k1, X) BY <1>1, <1>18, <1>20, <1>21, <1>22, <1>23, <1>24, <1>25, GiveGood
<1>27. QED BY <1>8, <1>26 DEF kn, km, rest

\* The root fson3 finds is its own: nobody else has it.
LEMMA FsonRoot ==
  ASSUME NEW k, NEW X, Good(k, X), TextsIn(k, X), NEW p \in Proc, LastFacts(k, p, "fson3"), k.u[p].ip # 0
  PROVE  MountsAt(k, p, k.u[p].dip, k.u[p].ip) /\ k.node[k.u[p].ip].count = 1
<1> DEFINE c == k.u[p]
<1>1. /\ Types(k) /\ Bot(c.pc) = "fson3" /\ Apart(c) /\ c.put = 0 /\ c.rip = 0 /\ c.mip = 0 /\ Up(c) = 0 /\ c.dip # 0
      /\ PathAt(k, c, "fson3") /\ PathOK(k, c) /\ c.ip # 0
  BY DEF LastFacts, WithDip, WithRip, WithMip
<1>2. c.ip \in Slot /\ c.dip \in Slot /\ 0 \notin Slot BY <1>1, HandTypes, SlotFacts
<1>3. \A s \in Slot : k.node[s].ino \in {"mp", "root", "none"} BY <1>1, MountAlone DEF Owner
<1>4. /\ Core(k, X) /\ TableInv(k) BY DEF Good, Core
<1>5. k.node[c.dip].ino = "mp" BY <1>1 DEF PathAt
<1>6. c.ip # c.dip BY <1>1 DEF Apart, Walk
<1>7. RefP(c, c.ip) # 0 /\ RefP(c, c.dip) # 0 BY <1>2, HandRef
<1>8. k.node[c.ip].ino # "none" /\ k.node[c.dip].count # 0 BY <1>2, <1>4, <1>7, RefIno
<1>9. k.node[c.ip].ino # "mp" BY <1>2, <1>4, <1>5, <1>6 DEF TableInv
<1>10. k.node[c.ip].ino = "root" BY <1>2, <1>3, <1>8, <1>9
<1>11. k.node[c.ip].count = RefP(c, c.ip) BY <1>1, <1>2, <1>10, RootAlone DEF Owner
<1>12. c.fd # c.ip BY <1>1, <1>2, <1>10, OpenNoRoot
<1>13. RefP(c, c.ip) = 1
  <2>1. Rip(c) = 0 BY <1>1 DEF Rip
  <2>2. B(c.ip = c.ip) = 1 /\ B(c.dip = c.ip) = 0 /\ B(c.fd = c.ip) = 0 /\ B(0 = c.ip) = 0
    BY <1>1, <1>6, <1>12 DEF B
  <2>3. QED BY <1>1, <2>1, <2>2 DEF RefP
<1>14. MountsAt(k, p, c.dip, c.ip) BY <1>2, <1>5, <1>6, <1>8, <1>10 DEF MountsAt
<1>15. QED BY <1>11, <1>13, <1>14

\* mount has the root, or has not.
LEMMA Fson3Good ==
  ASSUME NEW k, k = K, NEW X, Good(k, X), TextsIn(k, X), NEW p \in Proc, Fson3(p)
  PROVE  \E k1 : Become(k1) /\ Good(k1, X)
<1> DEFINE c == k.u[p]
           l == "fson3"
           no == FALSE
           km == SetDev(k, no)
           ka == PutDip(km, p, <<>>)
           kb == PutDip(Prele(SetMount(k, p, c.dip, c.ip), c.ip), p, <<>>)
<1>0. u = k.u /\ node = k.node /\ fs = k.fs /\ K = k BY KFacts
<1>1. /\ At(p, l)
      /\ c.ip = 0 => Become(ka)
      /\ c.ip # 0 /\ node[c.ip].count = 1 => Become(kb)
  BY <1>0 DEF Fson3, SetDev, SetMount
<1>2. LastFacts(k, p, l) BY <1>1, LastAt DEF LastL, WithDip
<1>3. ASSUME c.ip # 0 PROVE Become(kb) /\ Good(kb, X)
  <2>1. MountsAt(k, p, c.dip, c.ip) /\ k.node[c.ip].count = 1 BY <1>2, <1>3, FsonRoot
  <2>2. Become(kb) BY <1>0, <1>1, <1>3, <2>1
  <2>3. Good(kb, X) BY <2>1, FsonDone
  <2>4. QED BY <2>2, <2>3
<1>4. ASSUME c.ip = 0 PROVE Become(ka) /\ Good(ka, X)
  <2>1. l \in Owner /\ l \in WithDip /\ l \notin {"got", "more"} /\ l \notin WithRip \cup WithMip
    BY DEF Owner, WithDip, WithRip, WithMip
  <2>2. /\ Types(k) /\ c.put = 0 /\ c.rip = 0 /\ c.mip = 0 /\ Up(c) = 0
        /\ PathAt(k, c, l) /\ PathOK(k, c)
    BY <1>2, <2>1 DEF LastFacts
  <2>3. /\ Types(km) /\ km.u = k.u /\ km.freel = k.freel /\ SameNodes(k, km) /\ km.fs.ilock = k.fs.ilock
    <3> HIDE DEF no
    <3>1. QED BY <2>2, SetMdev
  <2>4. \A t \in Slot : RefP(c, t) # 0 => k.node[t].ino # "root"
    <3> SUFFICES ASSUME NEW t \in Slot, RefP(c, t) # 0, k.node[t].ino = "root" PROVE FALSE OBVIOUS
    <3>1. Rip(c) = 0 BY <2>2 DEF Rip
    <3>2. c.dip = t \/ c.fd = t BY <1>4, <2>2, <3>1, HandRef, SlotFacts
    <3>3. c.fd # t BY <2>2, OpenNoRoot
    <3>4. k.node[c.dip].ino = "mp" BY <2>2 DEF PathAt
    <3>5. QED BY <3>2, <3>3, <3>4
  <2>5. k.u[p].ip = 0 /\ \A t \in Slot : RefP(k.u[p], t) # 0 => k.node[t].ino # "root" BY <1>4, <2>4
  <2> HIDE DEF l, km, c
  <2>6. Good(PutDip(km, p, <<>>), X) BY <1>2, <2>1, <2>3, <2>5, EmptyStack, GiveDip
  <2>7. Become(ka) BY <1>1, <1>4
  <2>8. QED BY <2>6, <2>7
<1>5. QED BY <1>3, <1>4

=============================================================================
