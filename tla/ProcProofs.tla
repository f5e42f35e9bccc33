----------------------------- MODULE ProcProofs -----------------------------
(***************************************************************************)
(* Theorems about Proc: no panic and every variable has its type; nobody   *)
(* sleeps for data that are there; a timed sleep ends; every process has a *)
(* parent; a held signal stays pending.                                    *)
(*                                                                         *)
(* Other processes and interrupts reach into an entry of the process table *)
(* only through wakeup, setrun, psignal, stop and selwakeup.  Touch says   *)
(* what these may do to it, whichever they are and however often; what a   *)
(* process does to its own entry is the business of its own step.          *)
(***************************************************************************)
EXTENDS Proc, TLAPS

\* On a sleep queue are those that sleep and those that were stopped there.
EntryOK(r) ==
  /\ r \in Slots
  /\ r.wchan # NoChan => r.stat \in {"SLEEP", "STOP"}
  /\ r.stat = "SLEEP" => r.wchan # NoChan

\* The states of a process at each place.
Suits(pl, st) ==
  CASE pl = "none" -> st \in {"FREE", "IDL", "ZOMB"}
    [] pl = "orphaning" -> st = "ZOMB"
    [] pl \in {"asleep", "sleepstop", "retstop"} -> st \in {"RUN", "SLEEP", "STOP"}
    [] OTHER -> st = "RUN"

\* p_siga0 and p_siga1 repeat what matters of u_signal: psignal looks at the
\* former, issig and psig at the latter.
Matches(a, u) ==
  /\ a = "IGN" <=> u = "IGN"
  /\ a = "HOLD" <=> u = "HOLD"
  /\ a = "DFL" => u = "DFL"

\* Where a process is inside a system call.
InCall == {"test", "asleep", "sleepstop", "scan", "selscan", "selsleep", "drain"}
Gone == {"none", "exiting", "orphaning"}

\* A process with entry r at place pl, u_signal us, in call cl, with timer tm.
ProcOK(r, pl, us, cl, tm) ==
  /\ EntryOK(r) /\ Suits(pl, r.stat)
  /\ pl \notin {"none", "orphaning"} => \A s \in AllSigs : Matches(r.siga[s], us[s])
  /\ pl \notin Gone => /\ us["KILL"] = "DFL" /\ us["STOP"] = "DFL"
                       /\ r.cursig # NoSig => us[r.cursig] \notin {"IGN", "HOLD"}
  /\ pl = "user" \/ r.stat = "IDL" => r.cursig = NoSig
  /\ r.stat = "FREE" => r.sig = {}
  /\ pl \in InCall => cl # "none"
  /\ r.wchan # NoChan /\ Timed(cl) => tm # "out" /\ (tm = "on" => r.tsl > 0)

RestTypeOK ==
  /\ usig \in [Procs -> [AllSigs -> Actions \cup {"DEFER"}]]
  /\ pc \in [Procs -> PCs]
  /\ call \in [Procs -> AllCalls \cup {"none", "drain"}]
  /\ todo \in [Procs -> SUBSET Procs] /\ f \in [Procs -> BOOLEAN]
  /\ timer \in [Procs -> {"off", "on", "out"}]
  /\ ready \in SUBSET Streams
  /\ rsel \in [Streams -> Procs \cup {NoProc}] /\ coll \in SUBSET Streams
  /\ stale \in SUBSET Procs
  /\ used \in [Bounded -> Nat]

Entries == /\ proc \in [Procs -> Slots]
           /\ \A p \in Procs : ProcOK(proc[p], pc[p], usig[p], call[p], timer[p])

\* One processor.
OneCPU == \A p, q \in Procs : pc[p] \in OnCPU /\ pc[q] \in OnCPU => p = q

\* In table t, with the processes at the places pl: an entry that newproc is
\* filling has a parent in procdup, and no sibling in that state.
ForkingIn(t, pl) ==
  \A q \in Procs : t[q].stat = "IDL" =>
    LET p == t[q].pptr IN
    /\ p \in Procs /\ pl[p] = "forking" /\ t[q].siga = t[p].siga
    /\ \A r \in Procs : t[r].stat = "IDL" /\ t[r].pptr = p => r = q

\* The children td that exit has not come to yet are still its own.
OrphansIn(t, pl, td) ==
  \A p, q \in Procs : pl[p] = "orphaning" /\ q \in td[p] =>
                         t[q].pptr = p /\ t[q].stat # "FREE"

\* ParentLives, and there is a parent.
ParentsIn(t, pl, td) ==
  \A q \in Procs \ {InitP} : t[q].stat # "FREE" =>
    LET p == t[q].pptr IN
    p \in Procs /\ (Live(t[p]) \/ (pl[p] = "orphaning" /\ q \in td[p]))

\* Process with entry r at pl has registered for all streams, or is about to
\* sleep as one who has; fresh: ncoll is nselcoll still.
OnSelect(r, pl, fresh) ==
  \/ r.wchan = SelWait
  \/ pl = "selsleep" /\ r.ssel /\ fresh

\* Nobody waits for what is there; whoever waits in select is remembered by
\* every stream, by rsel or by the collision flag.
RememberedIn(t, pl, rd, rs, co, st) ==
  /\ \A p \in Procs : t[p].wchan \notin rd
  /\ \A p \in Procs : OnSelect(t[p], pl[p], p \notin st) =>
        rd = {} /\ \A e \in Streams : rs[e] = p \/ e \in co
  /\ \A e \in co : rs[e] # NoProc

TableOK == /\ RestTypeOK /\ Entries /\ OneCPU
           /\ ForkingIn(proc, pc) /\ OrphansIn(proc, pc, todo)
           /\ ParentsIn(proc, pc, todo) /\ pc[InitP] \notin Gone
IInv == TableOK /\ RememberedIn(proc, pc, ready, rsel, coll, stale)

-----------------------------------------------------------------------------
(***************************************************************************)
(* What wakeup, setrun, psignal, stop and selwakeup do to an entry.        *)
(***************************************************************************)
\* A signal held in r is still pending in x.
Held(r, x) == \A s \in {"HUP", "CHLD"} :
                 s \in r.sig /\ r.siga[s] = "HOLD" => s \in x.sig

\* What nobody changes in the entry of another.
SameBasis(r, x) == x.siga = r.siga /\ x.code = r.code /\ x.pptr = r.pptr

\* x may be what others have made of r: a sleep or a stop may have ended, or
\* a sleep have become a stop.
Touch(r, x) ==
  /\ EntryOK(x)
  /\ SameBasis(r, x)
  /\ x.wchan \in {r.wchan, NoChan}
  /\ x.wchan # NoChan => x.tsl = r.tsl
  /\ \/ x.stat = r.stat
     \/ r.stat \in {"SLEEP", "STOP"} /\ x.stat \in {"RUN", "SLEEP", "STOP"}
  /\ \/ x.cursig = r.cursig
     \/ /\ r.stat \in {"SLEEP", "STOP"}
        /\ x.cursig \in StopSigs /\ r.siga[x.cursig] = "DFL"
  /\ x.ssel => r.ssel
  /\ Held(r, x)
  /\ ~Live(r) => x.sig \subseteq r.sig

\* The same for a table.
Table(t) == t \in [Procs -> Slots] /\ \A q \in Procs : EntryOK(t[q])
Touched(t, u) == u \in [Procs -> Slots] /\ \A q \in Procs : Touch(t[q], u[q])

LEMMA TouchSame == ASSUME NEW r, EntryOK(r) PROVE Touch(r, r)
BY DEF Touch, Held, SameBasis

LEMMA TouchAgain ==
  ASSUME NEW r, NEW x, NEW y, EntryOK(r), Touch(r, x), Touch(x, y)
  PROVE  Touch(r, y)
<1>1. Held(r, y)
  BY DEF Touch, Held, SameBasis
<1>2. ~Live(r) => y.sig \subseteq r.sig
  BY DEF Touch, Live
<1>3. /\ SameBasis(r, y)
      /\ y.wchan \in {r.wchan, NoChan}
      /\ y.wchan # NoChan => y.tsl = r.tsl
      /\ y.ssel => r.ssel
      /\ EntryOK(y)
  BY DEF Touch, SameBasis
<1>4. \/ y.stat = r.stat
      \/ r.stat \in {"SLEEP", "STOP"} /\ y.stat \in {"RUN", "SLEEP", "STOP"}
  BY DEF Touch
<1>5. \/ y.cursig = r.cursig
      \/ /\ r.stat \in {"SLEEP", "STOP"}
         /\ y.cursig \in StopSigs /\ r.siga[y.cursig] = "DFL"
  BY DEF Touch, SameBasis
<1> QED  BY <1>1, <1>2, <1>3, <1>4, <1>5 DEF Touch

\* Live is kept.
LEMMA TouchLives ==
  ASSUME NEW r, NEW x, Touch(r, x)
  PROVE  /\ Live(x) <=> Live(r)
         /\ x.stat = "IDL" <=> r.stat = "IDL"
         /\ x.stat = "FREE" <=> r.stat = "FREE"
         /\ x.stat = "ZOMB" <=> r.stat = "ZOMB"
BY DEF Touch, Live

\* The signals of an entry after psignal.
LEMMA PendingType ==
  ASSUME NEW r \in Slots, NEW s \in AllSigs
  PROVE  Pending(r, s) \in SUBSET AllSigs
BY DEF Pending, Slots, AllSigs, StopSigs

LEMMA PostedType ==
  ASSUME NEW r, EntryOK(r), NEW s \in AllSigs
  PROVE  /\ Posted(r, s) \in Slots
         /\ SameBasis(r, Posted(r, s))
         /\ Posted(r, s).tsl = r.tsl /\ Posted(r, s).ssel = r.ssel
<1> DEFINE x == Posted(r, s)
<1> SUFFICES x \in Slots /\ SameBasis(r, x) /\ x.tsl = r.tsl /\ x.ssel = r.ssel
  OBVIOUS
<1>1. CASE ~Live(r) \/ r.siga[s] = "IGN"
  BY <1>1 DEF Posted, EntryOK, SameBasis
<1>2. CASE Live(r) /\ r.siga[s] = "HOLD"
  <2> DEFINE P == Pending([r EXCEPT !.stat = "RUN"], s)
  <2>1. P \in SUBSET AllSigs
    <3>1. [r EXCEPT !.stat = "RUN"] \in Slots
      BY DEF EntryOK, Slots
    <3> QED  BY <3>1, PendingType
  <2>2. x = [r EXCEPT !.sig = P]
    BY <1>2 DEF Posted
  <2> HIDE DEF P, x
  <2>3. r \in Slots
    BY DEF EntryOK
  <2> QED  BY <2>1, <2>2, <2>3 DEF Slots, SameBasis
<1>3. CASE Live(r) /\ r.siga[s] \notin {"IGN", "HOLD"}
  <2> DEFINE P == Pending(r, s)
             C == IF StopsAtOnce(r, s) THEN s ELSE r.cursig
             W == IF Leaves(r, s) THEN NoChan ELSE r.wchan
             S == IF Runs(r, s) THEN "RUN"
                   ELSE IF StopsAtOnce(r, s) THEN "STOP"
                   ELSE IF r.stat = "STOP" /\ s = "CONT" THEN "SLEEP"
                   ELSE r.stat
             T == r.swted /\ ~StopsAtOnce(r, s)
  <2>1. P \in SUBSET AllSigs
    BY PendingType DEF EntryOK
  <2>2. x = [r EXCEPT !.sig = P, !.cursig = C, !.wchan = W, !.stat = S, !.swted = T]
    BY <1>3 DEF Posted
  <2>3. /\ r \in Slots /\ C \in AllSigs \cup {NoSig} /\ W \in Chans /\ T \in BOOLEAN
        /\ S \in {"FREE", "IDL", "RUN", "SLEEP", "STOP", "ZOMB"}
    BY DEF EntryOK, Slots, Chans
  <2> HIDE DEF P, C, W, S, T, x
  <2> QED  BY <2>1, <2>2, <2>3 DEF Slots, SameBasis
<1> QED  BY <1>1, <1>2, <1>3

\* psignal.
LEMMA PostedTouches ==
  ASSUME NEW r, EntryOK(r), NEW s \in AllSigs
  PROVE  Touch(r, Posted(r, s))
<1> DEFINE x == Posted(r, s)
<1> SUFFICES Touch(r, x)
  OBVIOUS
<1>1. x \in Slots /\ SameBasis(r, x) /\ x.tsl = r.tsl /\ x.ssel = r.ssel
  BY PostedType
<1>2. CASE ~Live(r) \/ r.siga[s] = "IGN"
  <2>1. x = r
    BY <1>2 DEF Posted
  <2> HIDE DEF x
  <2> QED  BY <2>1, TouchSame
<1>3. CASE Live(r) /\ r.siga[s] = "HOLD"
  <2> DEFINE y == [r EXCEPT !.stat = "RUN"]
             P == Pending(y, s)
  <2>1. y.stat = "RUN" /\ y.sig = r.sig /\ y.siga = r.siga
    BY DEF EntryOK, Slots
  <2>2. Held(r, [r EXCEPT !.sig = P])
    <3>1. [r EXCEPT !.sig = P].sig = P
      BY DEF EntryOK, Slots
    <3>2. ~DefaultStop(y, s) /\ ~DefaultChild(y, s) /\ ~Taken(y, s)
      BY <2>1 DEF DefaultStop, DefaultChild, Taken, Interrupted
    <3> HIDE DEF y
    <3> QED  BY <2>1, <3>1, <3>2 DEF Held, Pending, StopSigs
  <2>3. x = [r EXCEPT !.sig = P]
    BY <1>3 DEF Posted
  <2>4. r \in Slots
    BY DEF EntryOK
  <2> HIDE DEF P, x, y
  <2>5. x.wchan = r.wchan /\ x.stat = r.stat /\ x.cursig = r.cursig
    BY <2>3, <2>4 DEF Slots
  <2>6. Live(r)
    BY <1>3
  <2>7. EntryOK(x)
    BY <1>1, <2>5 DEF EntryOK
  <2> QED  BY <1>1, <2>2, <2>3, <2>5, <2>6, <2>7 DEF Touch
<1>4. CASE Live(r) /\ r.siga[s] \notin {"IGN", "HOLD"}
  <2> DEFINE P == Pending(r, s)
             C == IF StopsAtOnce(r, s) THEN s ELSE r.cursig
             W == IF Leaves(r, s) THEN NoChan ELSE r.wchan
             S == IF Runs(r, s) THEN "RUN"
                   ELSE IF StopsAtOnce(r, s) THEN "STOP"
                   ELSE IF r.stat = "STOP" /\ s = "CONT" THEN "SLEEP"
                   ELSE r.stat
             T == r.swted /\ ~StopsAtOnce(r, s)
  <2>1. x = [r EXCEPT !.sig = P, !.cursig = C, !.wchan = W, !.stat = S, !.swted = T]
    BY <1>4 DEF Posted
  <2>2. r \in Slots
    BY DEF EntryOK
  <2>3. Held(r, [sig |-> P])
    <3>1. ~Taken(r, "HUP") /\ (r.siga["CHLD"] = "HOLD" => ~Taken(r, "CHLD"))
      BY DEF Taken, DefaultStop, DefaultChild, StopSigs
    <3> QED  BY <3>1 DEF Held, Pending, StopSigs
  <2>4. \/ S = r.stat
        \/ r.stat \in {"SLEEP", "STOP"} /\ S \in {"RUN", "SLEEP", "STOP"}
    BY DEF Runs, Interrupted, StopsAtOnce, DefaultStop, Interrupted
  <2>5. \/ C = r.cursig
        \/ r.stat = "SLEEP" /\ C \in StopSigs /\ r.siga[C] = "DFL"
    BY DEF StopsAtOnce, DefaultStop, Interrupted
  <2>6. W # NoChan => S \in {"SLEEP", "STOP"}
    <3>1. r.wchan # NoChan => r.stat \in {"SLEEP", "STOP"}
      BY DEF EntryOK
    <3>2. W # NoChan => W = r.wchan /\ ~Runs(r, s)
      BY DEF Leaves
    <3> QED  BY <3>1, <3>2
  <2>7. S = "SLEEP" => W # NoChan
    <3>1. CASE r.stat = "SLEEP"
      BY <3>1 DEF EntryOK, Leaves, Unstuck
    <3>2. CASE r.stat = "STOP" /\ s = "CONT" /\ ~Runs(r, s)
      <4>1. r.wchan # NoChan
        BY <3>2 DEF Runs
      <4>2. ~Leaves(r, s)
        BY <3>2 DEF Leaves, Unstuck
      <4> QED  BY <4>1, <4>2
    <3>3. S = "SLEEP" => \/ r.stat = "SLEEP"
                         \/ r.stat = "STOP" /\ s = "CONT" /\ ~Runs(r, s)
      OBVIOUS
    <3> QED  BY <3>1, <3>2, <3>3
  <2>8. W \in {r.wchan, NoChan}
    OBVIOUS
  <2> HIDE DEF P, C, W, S, T, x
  <2>9. x.sig = P /\ x.cursig = C /\ x.wchan = W /\ x.stat = S
    BY <2>1, <2>2 DEF Slots
  <2>10. EntryOK(x)
    BY <1>1, <2>6, <2>7, <2>9 DEF EntryOK
  <2>11. Held(r, x)
    BY <2>3, <2>9 DEF Held
  <2> QED  BY <1>1, <1>4, <2>4, <2>5, <2>8, <2>9, <2>10, <2>11 DEF Touch
<1> QED  BY <1>2, <1>3, <1>4

\* wakeup and setrun.
LEMMA WakeupTouches ==
  ASSUME NEW t, Table(t), NEW c
  PROVE  Touched(t, Wakeup(t, c))
<1>1. ASSUME NEW q \in Procs
      PROVE  Touch(t[q], Wakeup(t, c)[q])
  <2> DEFINE r == t[q]
             x == Wakeup(t, c)[q]
  <2> SUFFICES Touch(r, x)
    OBVIOUS
  <2>1. EntryOK(r) /\ r \in Slots
    BY DEF Table, EntryOK
  <2>2. CASE r.wchan # c
    <3>1. x = r
      BY <2>2 DEF Wakeup
    <3> HIDE DEF r, x
    <3> QED  BY <2>1, <3>1, TouchSame
  <2>3. CASE r.wchan = c
    <3> DEFINE S == IF r.stat = "SLEEP" THEN "RUN" ELSE r.stat
    <3>1. x = [r EXCEPT !.wchan = NoChan, !.tsl = 0, !.stat = S]
      BY <2>3 DEF Wakeup
    <3>2. S \in {"FREE", "IDL", "RUN", "SLEEP", "STOP", "ZOMB"} /\ S # "SLEEP"
      BY <2>1 DEF Slots
    <3>3. S = r.stat \/ (r.stat = "SLEEP" /\ S = "RUN")
      OBVIOUS
    <3> HIDE DEF r, x, S
    <3>4. x \in Slots
      <4>1. NoChan \in Chans /\ 0 \in 0..MaxSecs
        BY ConstantsOK DEF Chans
      <4> QED  BY <2>1, <3>1, <3>2, <4>1 DEF Slots
    <3>5. /\ x.wchan = NoChan /\ x.stat = S /\ x.sig = r.sig /\ x.cursig = r.cursig
          /\ x.ssel = r.ssel /\ SameBasis(r, x)
      BY <2>1, <3>1 DEF Slots, SameBasis
    <3>6. Held(r, x)
      BY <3>5 DEF Held
    <3>7. EntryOK(x)
      BY <3>2, <3>4, <3>5 DEF EntryOK
    <3> QED  BY <3>3, <3>5, <3>6, <3>7 DEF Touch
  <2> QED  BY <2>2, <2>3
<1>2. Wakeup(t, c) = [q \in Procs |-> Wakeup(t, c)[q]]
  BY DEF Wakeup
<1>3. \A q \in Procs : Wakeup(t, c)[q] \in Slots
  BY <1>1 DEF Touch, EntryOK
<1>4. Wakeup(t, c) \in [Procs -> Slots]
  BY <1>2, <1>3, Zenon
<1> QED  BY <1>1, <1>4 DEF Touched

LEMMA TouchedSame == ASSUME NEW t, Table(t) PROVE Touched(t, t)
BY TouchSame DEF Table, Touched

LEMMA TouchedAgain ==
  ASSUME NEW t, NEW u, NEW v, Table(t), Touched(t, u), Touched(u, v)
  PROVE  Touched(t, v)
<1>1. ASSUME NEW q \in Procs
      PROVE  Touch(t[q], v[q])
  BY TouchAgain DEF Table, Touched
<1> QED  BY <1>1 DEF Touched

LEMMA TouchedTable ==
  ASSUME NEW t, NEW u, Touched(t, u)
  PROVE  Table(u)
BY DEF Table, Touched, Touch

\* One entry touched.
LEMMA OneTouched ==
  ASSUME NEW t, Table(t), NEW q \in Procs, NEW x, Touch(t[q], x)
  PROVE  Touched(t, [t EXCEPT ![q] = x])
<1>1. x \in Slots
  BY DEF Touch, EntryOK
<1>2. [t EXCEPT ![q] = x] \in [Procs -> Slots]
  BY <1>1 DEF Table
<1>3. ASSUME NEW p \in Procs
      PROVE  Touch(t[p], [t EXCEPT ![q] = x][p])
  BY TouchSame DEF Table
<1> QED  BY <1>2, <1>3 DEF Touched

LEMMA PostedAtTouches ==
  ASSUME NEW t, Table(t), NEW q, NEW s \in AllSigs
  PROVE  Touched(t, [t EXCEPT ![q] = Posted(@, s)])
<1>1. CASE q \in Procs
  <2>1. Touch(t[q], Posted(t[q], s))
    BY <1>1, PostedTouches DEF Table
  <2>2. [t EXCEPT ![q] = Posted(@, s)] = [t EXCEPT ![q] = Posted(t[q], s)]
    OBVIOUS
  <2> HIDE DEF Posted
  <2> QED  BY <1>1, <2>1, <2>2, OneTouched
<1>2. CASE q \notin Procs
  <2>1. [t EXCEPT ![q] = Posted(@, s)] = t
    BY <1>2 DEF Table
  <2> QED  BY <2>1, TouchedSame
<1> QED  BY <1>1, <1>2

\* stop's message to the parent.
LEMMA ToldParentTouches ==
  ASSUME NEW t, Table(t), NEW p \in Procs
  PROVE  Touched(t, ToldParent(t, p))
<1> DEFINE q == t[p].pptr
           w == Wakeup(t, q)
<1>1. Touched(t, w)
  BY WakeupTouches
<1>2. Table(w)
  BY <1>1, TouchedTable
<1>3. Touched(w, [w EXCEPT ![q] = Posted(@, "CHLD")])
  <2> HIDE DEF w, q
  <2>1. "CHLD" \in AllSigs
    BY DEF AllSigs
  <2> QED  BY <1>2, <2>1, PostedAtTouches
<1>4. ToldParent(t, p) = [w EXCEPT ![q] = Posted(@, "CHLD")]
  BY DEF ToldParent
<1> HIDE DEF w, q
<1> QED  BY <1>1, <1>3, <1>4, TouchedAgain

LEMMA PsignalTouches ==
  ASSUME NEW t, Table(t), NEW p \in Procs, NEW s \in AllSigs
  PROVE  Touched(t, Psignal(t, p, s))
<1> DEFINE u == [t EXCEPT ![p] = Posted(@, s)]
<1>1. Touched(t, u) /\ Table(u)
  BY PostedAtTouches, TouchedTable
<1>2. Touched(u, ToldParent(u, p))
  <2> HIDE DEF u
  <2> QED  BY <1>1, ToldParentTouches
<1>3. Psignal(t, p, s) \in {u, ToldParent(u, p)}
  BY DEF Psignal
<1> HIDE DEF u
<1> QED  BY <1>1, <1>2, <1>3, TouchedAgain

\* selwakeup.
LEMMA SelwakeupTouches ==
  ASSUME NEW t, Table(t), NEW e
  PROVE  Touched(t, Selwakeup(t, e))
<1> DEFINE w == IF e \in coll THEN Wakeup(t, SelWait) ELSE t
           v == Selwakeup(t, e)
<1>1. Touched(t, w)
  BY WakeupTouches, TouchedSame
<1>2. Table(w)
  BY <1>1, TouchedTable
<1>3. v = [q \in Procs |-> IF q # rsel[e] THEN w[q]
                           ELSE IF w[q].wchan = SelWait THEN Setrun(w[q])
                           ELSE [w[q] EXCEPT !.ssel = FALSE]]
  BY DEF Selwakeup
<1> HIDE DEF w, v
<1>4. ASSUME NEW q \in Procs
      PROVE  Touch(w[q], v[q])
  <2> DEFINE r == w[q]
             x == v[q]
  <2> SUFFICES Touch(r, x)
    OBVIOUS
  <2>1. EntryOK(r) /\ r \in Slots
    BY <1>2 DEF Table, EntryOK
  <2>2. \/ x = r
        \/ r.wchan = SelWait /\ x = Setrun(r)
        \/ x = [r EXCEPT !.ssel = FALSE]
    BY <1>3
  <2> HIDE DEF r, x
  <2>3. CASE x = r
    BY <2>1, <2>3, TouchSame
  <2>4. CASE r.wchan = SelWait /\ x = Setrun(r)
    <3>1. /\ x \in Slots /\ x.wchan = NoChan /\ x.stat = "RUN" /\ x.sig = r.sig
          /\ x.cursig = r.cursig /\ x.ssel = r.ssel /\ SameBasis(r, x)
      <4>1. NoChan \in Chans
        BY DEF Chans
      <4>2. x = [r EXCEPT !.wchan = NoChan, !.stat = "RUN"]
        BY <2>4 DEF Setrun
      <4> QED  BY <2>1, <4>1, <4>2 DEF Slots, SameBasis
    <3>2. r.stat \in {"SLEEP", "STOP"}
      BY <2>1, <2>4, ConstantsOK DEF EntryOK
    <3>3. EntryOK(x) /\ Held(r, x)
      BY <3>1 DEF EntryOK, Held
    <3> QED  BY <3>1, <3>2, <3>3 DEF Touch, Live
  <2>5. CASE x = [r EXCEPT !.ssel = FALSE]
    <3>1. /\ x \in Slots /\ x.wchan = r.wchan /\ x.stat = r.stat /\ x.sig = r.sig
          /\ x.cursig = r.cursig /\ x.ssel = FALSE /\ SameBasis(r, x) /\ x.tsl = r.tsl
      BY <2>1, <2>5 DEF Slots, SameBasis
    <3>2. EntryOK(x) /\ Held(r, x)
      BY <2>1, <3>1 DEF EntryOK, Held
    <3> QED  BY <3>1, <3>2 DEF Touch
  <2> QED  BY <2>2, <2>3, <2>4, <2>5
<1>5. v \in [Procs -> Slots]
  <2>1. \A q \in Procs : v[q] \in Slots
    BY <1>4 DEF Touch, EntryOK
  <2>2. v = [q \in Procs |-> v[q]]
    BY <1>3
  <2> QED  BY <2>1, <2>2, Zenon
<1>6. Touched(w, v)
  BY <1>4, <1>5 DEF Touched
<1> QED  BY <1>1, <1>6, TouchedAgain DEF v

\* What exit does with child q, after q has got its new parent.
Adopted(t, q) == [t EXCEPT ![q].pptr = InitP]

LEMMA AdoptedTable ==
  ASSUME NEW t, Table(t), NEW q \in Procs
  PROVE  /\ Table(Adopted(t, q))
         /\ Adopted(t, q)[q] = [t[q] EXCEPT !.pptr = InitP]
         /\ \A r \in Procs \ {q} : Adopted(t, q)[r] = t[r]
<1> DEFINE u == Adopted(t, q)
<1>1. u = [t EXCEPT ![q] = [t[q] EXCEPT !.pptr = InitP]] /\ t \in [Procs -> Slots]
  BY DEF Adopted, Table
<1> HIDE DEF u
<1>2. [t[q] EXCEPT !.pptr = InitP] \in Slots
  BY <1>1, ConstantsOK DEF Slots
<1>3. /\ u \in [Procs -> Slots] /\ u[q] = [t[q] EXCEPT !.pptr = InitP]
      /\ \A r \in Procs \ {q} : u[r] = t[r]
  BY <1>1, <1>2
<1>4. u[q].wchan = t[q].wchan /\ u[q].stat = t[q].stat
  BY <1>1, <1>3 DEF Slots
<1>5. ASSUME NEW r \in Procs
      PROVE  EntryOK(u[r])
  BY <1>3, <1>4 DEF Table, EntryOK
<1> QED  BY <1>3, <1>5 DEF Table, u

LEMMA OrphanedTouches ==
  ASSUME NEW t, Table(t), NEW q \in Procs
  PROVE  Touched(Adopted(t, q), Orphaned(t, q))
<1> DEFINE a == Adopted(t, q)
           u == Wakeup(a, InitP)
           v == IF u[q].stat # "STOP" THEN u
                ELSE Psignal(Psignal(u, q, "HUP"), q, "CONT")
           F == Family(v, q)
<1> SUFFICES Touched(a, Orphaned(t, q))
  OBVIOUS
<1>1. Table(a)
  BY AdoptedTable
<1>2. Orphaned(t, q) = [r \in Procs |-> IF r \notin F THEN v[r]
                                        ELSE [v[r] EXCEPT !.sig = @ \ {"TSTP"}]]
  BY DEF Orphaned, Adopted
<1> HIDE DEF a, F
<1>3. Touched(a, u) /\ Table(u)
  BY <1>1, WakeupTouches, TouchedTable
<1>4. Touched(u, v)
  <2> HIDE DEF u
  <2>1. "HUP" \in AllSigs /\ "CONT" \in AllSigs
    BY DEF AllSigs
  <2> DEFINE x == Psignal(u, q, "HUP")
             y == Psignal(x, q, "CONT")
  <2>2. Touched(u, x) /\ Table(x)
    BY <1>3, <2>1, PsignalTouches, TouchedTable
  <2> HIDE DEF x
  <2>3. Touched(x, y)
    BY <2>1, <2>2, PsignalTouches
  <2>4. v \in {u, y}
    BY DEF x
  <2> HIDE DEF y, v
  <2> QED  BY <1>3, <2>2, <2>3, <2>4, TouchedSame, TouchedAgain
<1> HIDE DEF u
<1>5. Touched(a, v) /\ Table(v)
  <2> HIDE DEF v
  <2> QED  BY <1>1, <1>3, <1>4, TouchedAgain, TouchedTable
<1> HIDE DEF v
<1> DEFINE o == Orphaned(t, q)
<1>6. o = [r \in Procs |-> IF r \notin F THEN v[r]
                           ELSE [v[r] EXCEPT !.sig = @ \ {"TSTP"}]]
  BY <1>2
<1> HIDE DEF o
<1>7. ASSUME NEW r \in Procs
      PROVE  Touch(v[r], o[r])
  <2> DEFINE y == v[r]
             x == o[r]
  <2> SUFFICES Touch(y, x)
    OBVIOUS
  <2>1. EntryOK(y) /\ y \in Slots
    BY <1>5 DEF Table, EntryOK
  <2>2. x = y \/ x = [y EXCEPT !.sig = @ \ {"TSTP"}]
    BY <1>6
  <2> HIDE DEF y, x
  <2>3. CASE x = y
    BY <2>1, <2>3, TouchSame
  <2>4. CASE x = [y EXCEPT !.sig = @ \ {"TSTP"}]
    <3>1. /\ x \in Slots /\ x.wchan = y.wchan /\ x.stat = y.stat
          /\ x.sig = y.sig \ {"TSTP"} /\ x.cursig = y.cursig /\ x.ssel = y.ssel
          /\ SameBasis(y, x) /\ x.tsl = y.tsl
      BY <2>1, <2>4 DEF Slots, SameBasis
    <3>2. EntryOK(x) /\ Held(y, x)
      BY <2>1, <3>1 DEF EntryOK, Held
    <3> QED  BY <3>1, <3>2 DEF Touch
  <2> QED  BY <2>2, <2>3, <2>4
<1>8. o \in [Procs -> Slots]
  <2>1. \A r \in Procs : o[r] \in Slots
    BY <1>7 DEF Touch, EntryOK
  <2>2. o = [r \in Procs |-> o[r]]
    BY <1>6
  <2> QED  BY <2>1, <2>2, Zenon
<1>9. Touched(v, o)
  BY <1>7, <1>8 DEF Touched
<1>10. Touched(a, o)
  BY <1>1, <1>5, <1>9, TouchedAgain
<1> QED  BY <1>10 DEF o

-----------------------------------------------------------------------------
(***************************************************************************)
(* issig.                                                                  *)
(***************************************************************************)
\* The signal that comes first.
LEMMA LeastSignal ==
  ASSUME NEW S \in SUBSET AllSigs, S # {}
  PROVE  \E x \in S : \A y \in S : Rank(x) <= Rank(y)
<1>1. /\ Rank("KILL") = 0 /\ Rank("HUP") = 1 /\ Rank("STOP") = 17
      /\ Rank("TSTP") = 18 /\ Rank("CONT") = 19 /\ Rank("CHLD") = 20
  BY DEF Rank
<1>2. AllSigs = {"KILL", "HUP", "STOP", "TSTP", "CONT", "CHLD"}
  BY DEF AllSigs, StopSigs
<1> HIDE DEF Rank
<1>3. CASE "KILL" \in S
  BY <1>1, <1>2, <1>3
<1>4. CASE "KILL" \notin S /\ "HUP" \in S
  BY <1>1, <1>2, <1>4
<1>5. CASE "KILL" \notin S /\ "HUP" \notin S /\ "STOP" \in S
  BY <1>1, <1>2, <1>5
<1>6. CASE "KILL" \notin S /\ "HUP" \notin S /\ "STOP" \notin S /\ "TSTP" \in S
  BY <1>1, <1>2, <1>6
<1>7. CASE /\ "KILL" \notin S /\ "HUP" \notin S /\ "STOP" \notin S /\ "TSTP" \notin S
           /\ "CONT" \in S
  BY <1>1, <1>2, <1>7
<1>8. CASE /\ "KILL" \notin S /\ "HUP" \notin S /\ "STOP" \notin S /\ "TSTP" \notin S
           /\ "CONT" \notin S
  <2>1. S = {"CHLD"}
    BY <1>2, <1>8
  <2> QED  BY <1>1, <2>1
<1> QED  BY <1>3, <1>4, <1>5, <1>6, <1>7, <1>8

\* What issig does not touch.
LookKeeps(r, x) ==
  /\ SameBasis(r, x) /\ x.wchan = r.wchan /\ x.intr = r.intr /\ x.tsl = r.tsl
  /\ x.timo = r.timo /\ x.ssel = r.ssel

\* The outcome of issig: nothing, a signal for psig that is not ignored or
\* held, or a stop by a signal whose action is the default.
LEMMA LookDoes ==
  ASSUME NEW p, NEW r \in Slots
  PROVE  LET o == Look(p, r)
         IN  /\ o.what \in {"none", "send", "stop"}
             /\ o.r \in Slots /\ LookKeeps(r, o.r) /\ Held(r, o.r)
             /\ o.what # "stop" => o.r.stat = r.stat
             /\ o.what = "none" => o.r.cursig = NoSig
             /\ o.what = "send" =>
                  /\ o.r.cursig \in AllSigs
                  /\ \/ o.r.cursig = "KILL"
                     \/ usig[p][o.r.cursig] \notin {"IGN", "HOLD"}
             /\ o.what = "stop" =>
                  /\ o.r.stat = "STOP" /\ o.r.cursig \in StopSigs
                  /\ usig[p][o.r.cursig] = "DFL"
<1> DEFINE o == Look(p, r)
           T == Seen(r) \ Forgotten(p, r)
           s == CHOOSE x \in T : \A y \in T : Rank(x) <= Rank(y)
           left == r.sig \ {x \in Seen(r) : Rank(x) <= Rank(s)}
           stops == s \in StopSigs /\ usig[p][s] = "DFL"
           none == [r EXCEPT !.sig = @ \ Seen(r), !.cursig = NoSig]
           kill == [r EXCEPT !.sig = left \ {"KILL"}, !.cursig = "KILL"]
           stop == Stopped([r EXCEPT !.sig = left, !.cursig = s])
           send == [r EXCEPT !.sig = left, !.cursig = s]
<1>1. o = IF T = {} THEN [what |-> "none", r |-> none]
          ELSE IF stops /\ s # "STOP" /\ r.pptr = InitP
          THEN [what |-> "send", r |-> kill]
          ELSE IF stops THEN [what |-> "stop", r |-> stop]
          ELSE [what |-> "send", r |-> send]
  BY DEF Look
<1>2. T \subseteq Seen(r) /\ Seen(r) \subseteq r.sig /\ r.sig \subseteq AllSigs
  BY DEF Seen, Slots
<1>3. \A x \in T : usig[p][x] \notin {"IGN", "HOLD"}
  BY DEF Forgotten
<1>4. T # {} => s \in T
  <2> HIDE DEF T
  <2> QED  BY <1>2, LeastSignal
<1>5. left \subseteq r.sig /\ \A x \in r.sig : r.siga[x] = "HOLD" => x \in left
  BY DEF Seen
<1>6. \A x \in r.sig : r.siga[x] = "HOLD" => x \in r.sig \ Seen(r)
  BY DEF Seen
<1>7. T # {} => s \in AllSigs /\ usig[p][s] \notin {"IGN", "HOLD"}
  BY <1>2, <1>3, <1>4
<1>8. /\ none = [r EXCEPT !.sig = r.sig \ Seen(r), !.cursig = NoSig]
      /\ stop = [r EXCEPT !.sig = left, !.cursig = s, !.stat = "STOP", !.swted = FALSE]
  BY DEF Stopped, Slots
<1> HIDE DEF T, s, left, stops, o
<1>9. none \in Slots /\ LookKeeps(r, none) /\ Held(r, none) /\ none.stat = r.stat
      /\ none.cursig = NoSig
  <2> DEFINE N == r.sig \ Seen(r)
  <2>1. N \in SUBSET AllSigs /\ none = [r EXCEPT !.sig = N, !.cursig = NoSig]
    BY <1>2, <1>8
  <2> HIDE DEF N, none
  <2>2. /\ none \in Slots /\ LookKeeps(r, none) /\ none.stat = r.stat
        /\ none.cursig = NoSig /\ none.sig = N
    BY <2>1 DEF Slots, LookKeeps, SameBasis
  <2> QED  BY <1>6, <2>2 DEF N, Held
<1>10. kill \in Slots /\ LookKeeps(r, kill) /\ Held(r, kill) /\ kill.stat = r.stat
       /\ kill.cursig = "KILL"
  <2> DEFINE N == left \ {"KILL"}
  <2>1. N \in SUBSET AllSigs /\ kill = [r EXCEPT !.sig = N, !.cursig = "KILL"]
        /\ "KILL" \in AllSigs
    BY <1>2, <1>5 DEF AllSigs
  <2> HIDE DEF N, kill
  <2>2. /\ kill \in Slots /\ LookKeeps(r, kill) /\ kill.stat = r.stat
        /\ kill.cursig = "KILL" /\ kill.sig = N
    BY <2>1 DEF Slots, LookKeeps, SameBasis
  <2> QED  BY <1>5, <2>2 DEF N, Held
<1>11. s \in AllSigs => /\ stop \in Slots /\ LookKeeps(r, stop) /\ Held(r, stop)
                        /\ stop.stat = "STOP" /\ stop.cursig = s
  <2> HAVE s \in AllSigs
  <2>1. left \in SUBSET AllSigs
    BY <1>2, <1>5
  <2> HIDE DEF stop
  <2>2. /\ stop \in Slots /\ LookKeeps(r, stop) /\ stop.stat = "STOP"
        /\ stop.cursig = s /\ stop.sig = left
    BY <1>8, <2>1 DEF Slots, LookKeeps, SameBasis
  <2> QED  BY <1>5, <2>2 DEF Held
<1>12. s \in AllSigs => /\ send \in Slots /\ LookKeeps(r, send) /\ Held(r, send)
                        /\ send.stat = r.stat /\ send.cursig = s
  <2> HAVE s \in AllSigs
  <2>1. left \in SUBSET AllSigs
    BY <1>2, <1>5
  <2>2. /\ send \in Slots /\ LookKeeps(r, send) /\ send.stat = r.stat
        /\ send.cursig = s /\ send.sig = left
    BY <2>1 DEF Slots, LookKeeps, SameBasis
  <2> QED  BY <1>5, <2>2 DEF Held
<1> HIDE DEF none, kill, stop, send
<1>13. "KILL" \in AllSigs
  BY DEF AllSigs
<1> SUFFICES /\ o.what \in {"none", "send", "stop"}
             /\ o.r \in Slots /\ LookKeeps(r, o.r) /\ Held(r, o.r)
             /\ o.what # "stop" => o.r.stat = r.stat
             /\ o.what = "none" => o.r.cursig = NoSig
             /\ o.what = "send" =>
                  /\ o.r.cursig \in AllSigs
                  /\ \/ o.r.cursig = "KILL"
                     \/ usig[p][o.r.cursig] \notin {"IGN", "HOLD"}
             /\ o.what = "stop" =>
                  /\ o.r.stat = "STOP" /\ o.r.cursig \in StopSigs
                  /\ usig[p][o.r.cursig] = "DFL"
  BY DEF o
<1>14. CASE T = {}
  BY <1>1, <1>9, <1>14
<1>15. CASE T # {} /\ stops /\ s # "STOP" /\ r.pptr = InitP
  BY <1>1, <1>10, <1>13, <1>15
<1>16. CASE T # {} /\ stops /\ ~(s # "STOP" /\ r.pptr = InitP)
  BY <1>1, <1>7, <1>11, <1>16 DEF stops
<1>17. CASE T # {} /\ ~stops
  BY <1>1, <1>7, <1>12, <1>17
<1> QED  BY <1>14, <1>15, <1>16, <1>17

-----------------------------------------------------------------------------
(***************************************************************************)
(* What is true of the table stays true when entries are touched.          *)
(***************************************************************************)
LEMMA TouchKeeps ==
  ASSUME NEW r, NEW x, NEW pl, NEW us, NEW cl, NEW tm,
         ProcOK(r, pl, us, cl, tm), Touch(r, x)
  PROVE  ProcOK(x, pl, us, cl, tm)
<1>1. EntryOK(x)
  BY DEF Touch
<1>2. Suits(pl, x.stat)
  BY DEF ProcOK, Touch, Suits
<1>3. x.siga = r.siga
  BY DEF Touch, SameBasis
<1>4. pl \notin {"none", "orphaning"} => \A s \in AllSigs : Matches(x.siga[s], us[s])
  BY <1>3 DEF ProcOK
<1>5. r.stat \in {"SLEEP", "STOP"} => pl \in {"asleep", "sleepstop", "retstop"}
  BY DEF ProcOK, Suits
<1>6. \/ x.cursig = r.cursig
      \/ /\ r.stat \in {"SLEEP", "STOP"}
         /\ x.cursig \in AllSigs /\ us[x.cursig] \notin {"IGN", "HOLD"}
  <2>1. CASE x.cursig = r.cursig
    BY <2>1
  <2>2. CASE /\ r.stat \in {"SLEEP", "STOP"}
             /\ x.cursig \in StopSigs /\ r.siga[x.cursig] = "DFL"
    <3>1. x.cursig \in AllSigs
      BY <2>2 DEF AllSigs
    <3>2. Matches(r.siga[x.cursig], us[x.cursig])
      BY <1>5, <2>2, <3>1 DEF ProcOK
    <3> QED  BY <2>2, <3>1, <3>2 DEF Matches
  <2> QED  BY <2>1, <2>2 DEF Touch
<1>7. pl \notin Gone => /\ us["KILL"] = "DFL" /\ us["STOP"] = "DFL"
                        /\ x.cursig # NoSig => us[x.cursig] \notin {"IGN", "HOLD"}
  BY <1>6 DEF ProcOK
<1>8. pl = "user" \/ x.stat = "IDL" => x.cursig = NoSig
  <2>1. pl = "user" \/ x.stat = "IDL" => r.stat \notin {"SLEEP", "STOP"} /\ x.cursig = r.cursig
    BY <1>5, <1>6, TouchLives
  <2>2. pl = "user" \/ x.stat = "IDL" => r.cursig = NoSig
    BY TouchLives DEF ProcOK
  <2> QED  BY <2>1, <2>2
<1>9. x.stat = "FREE" => x.sig = {}
  <2>1. x.stat = "FREE" => r.stat = "FREE" /\ ~Live(r)
    BY TouchLives DEF Live
  <2> QED  BY <2>1 DEF ProcOK, Touch
<1>10. x.wchan # NoChan /\ Timed(cl) => tm # "out" /\ (tm = "on" => x.tsl > 0)
  <2>1. x.wchan # NoChan => r.wchan # NoChan /\ x.tsl = r.tsl
    BY DEF Touch
  <2> QED  BY <2>1 DEF ProcOK
<1>11. pl \in InCall => cl # "none"
  BY DEF ProcOK
<1> QED  BY <1>1, <1>2, <1>4, <1>7, <1>8, <1>9, <1>10, <1>11 DEF ProcOK

LEMMA TouchedForking ==
  ASSUME NEW t, NEW u, NEW pl, Touched(t, u), ForkingIn(t, pl)
  PROVE  ForkingIn(u, pl)
<1>1. \A q \in Procs : /\ u[q].stat = "IDL" <=> t[q].stat = "IDL"
                       /\ u[q].siga = t[q].siga /\ u[q].pptr = t[q].pptr
  BY TouchLives DEF Touched, Touch, SameBasis
<1> QED  BY <1>1 DEF ForkingIn

LEMMA TouchedOrphans ==
  ASSUME NEW t, NEW u, NEW pl, NEW td, Touched(t, u), OrphansIn(t, pl, td)
  PROVE  OrphansIn(u, pl, td)
<1>1. \A q \in Procs : /\ u[q].stat = "FREE" <=> t[q].stat = "FREE"
                       /\ u[q].pptr = t[q].pptr
  BY TouchLives DEF Touched, Touch, SameBasis
<1> QED  BY <1>1 DEF OrphansIn

LEMMA TouchedParents ==
  ASSUME NEW t, NEW u, NEW pl, NEW td, Touched(t, u), ParentsIn(t, pl, td)
  PROVE  ParentsIn(u, pl, td)
<1>1. \A q \in Procs : /\ u[q].stat = "FREE" <=> t[q].stat = "FREE"
                       /\ Live(u[q]) <=> Live(t[q])
                       /\ u[q].pptr = t[q].pptr
  BY TouchLives DEF Touched, Touch, SameBasis
<1> QED  BY <1>1 DEF ParentsIn

LEMMA TouchedRemembered ==
  ASSUME NEW t, NEW u, NEW pl, NEW rd \in SUBSET Streams, NEW rs, NEW co, NEW st,
         Touched(t, u), RememberedIn(t, pl, rd, rs, co, st)
  PROVE  RememberedIn(u, pl, rd, rs, co, st)
<1>1. \A q \in Procs : u[q].wchan \in {t[q].wchan, NoChan} /\ (u[q].ssel => t[q].ssel)
  BY DEF Touched, Touch
<1>2. NoChan \notin Streams /\ NoChan # SelWait
  BY ConstantsOK
<1>3. \A q \in Procs : OnSelect(u[q], pl[q], q \notin st) => OnSelect(t[q], pl[q], q \notin st)
  BY <1>1, <1>2 DEF OnSelect
<1> QED  BY <1>1, <1>2, <1>3 DEF RememberedIn

\* The table may be touched at any time.
LEMMA TouchedTableOK ==
  ASSUME NEW t, Touched(t, proc'), RestTypeOK',
         \A q \in Procs : ProcOK(t[q], pc'[q], usig'[q], call'[q], timer'[q]),
         OneCPU', ForkingIn(t, pc'), OrphansIn(t, pc', todo'),
         ParentsIn(t, pc', todo'), pc'[InitP] \notin Gone
  PROVE  TableOK'
<1>1. proc' \in [Procs -> Slots]
  BY DEF Touched
<1>2. \A q \in Procs : ProcOK(proc'[q], pc'[q], usig'[q], call'[q], timer'[q])
  BY TouchKeeps DEF Touched
<1>3. Entries'
  BY <1>1, <1>2 DEF Entries
<1>4. ForkingIn(proc', pc') /\ OrphansIn(proc', pc', todo') /\ ParentsIn(proc', pc', todo')
  BY TouchedForking, TouchedOrphans, TouchedParents
<1> QED  BY <1>3, <1>4 DEF TableOK

\* A held signal stays pending, as long as it is held and the process lives.
StaysHeld(r, x) ==
  \A s \in {"HUP", "CHLD"} :
     s \in r.sig /\ r.siga[s] = "HOLD" /\ Live(x) /\ x.siga[s] = "HOLD" => s \in x.sig
HeldStep == \A p \in Procs : StaysHeld(proc[p], proc'[p])

LEMMA TouchHolds ==
  ASSUME NEW r, NEW x, NEW y, StaysHeld(r, x), Touch(x, y)
  PROVE  StaysHeld(r, y)
<1>1. y.siga = x.siga /\ (Live(y) <=> Live(x)) /\ Held(x, y)
  BY TouchLives DEF Touch, SameBasis
<1> QED  BY <1>1 DEF StaysHeld, Held

LEMMA EntriesTable == ASSUME Entries PROVE Table(proc)
BY DEF Entries, Table, ProcOK

\* Process p, which has the CPU, goes from one place to another and makes its
\* entry x; that may touch others.
Working == PCs \ {"none", "forking", "orphaning"}
OthersStay(p) ==
  \A q \in Procs \ {p} : /\ pc'[q] = pc[q] /\ usig'[q] = usig[q] /\ call'[q] = call[q]
                         /\ timer'[q] = timer[q] /\ todo'[q] = todo[q]

LEMMA OwnTable ==
  ASSUME TableOK, NEW p \in Procs, Running(p), pc[p] \in Working,
         NEW x, ProcOK(x, pc'[p], usig'[p], call'[p], timer'[p]),
         x.pptr = proc[p].pptr, StaysHeld(proc[p], x),
         Touched([proc EXCEPT ![p] = x], proc'), RestTypeOK',
         pc'[p] \in Working, p = InitP => pc'[p] # "exiting", OthersStay(p)
  PROVE  TableOK' /\ HeldStep
<1> DEFINE t == [proc EXCEPT ![p] = x]
<1>1. /\ t[p] = x /\ \A q \in Procs \ {p} : t[q] = proc[q]
      /\ \A q \in Procs : t[q].pptr = proc[q].pptr
  BY DEF TableOK, Entries
<1>2. Touched(t, proc')
  OBVIOUS
<1> HIDE DEF t
<1>3. \A q \in Procs : ProcOK(t[q], pc'[q], usig'[q], call'[q], timer'[q])
  BY <1>1 DEF TableOK, Entries, OthersStay
<1>4. Live(proc[p]) /\ proc[p].stat # "IDL" /\ Live(x) /\ x.stat # "IDL"
  <2>1. proc[p].stat = "RUN"
    BY DEF Running
  <2>2. Suits(pc'[p], x.stat)
    BY DEF ProcOK
  <2>3. x.stat \in {"RUN", "SLEEP", "STOP"}
    BY <2>2 DEF Suits, Working
  <2> QED  BY <2>1, <2>3 DEF Live
<1>5. OneCPU'
  <2>1. \A q \in Procs \ {p} : pc'[q] \notin OnCPU
    BY DEF Running, OthersStay
  <2> QED  BY <2>1 DEF OneCPU
<1>6. ForkingIn(t, pc')
  <2> SUFFICES ASSUME NEW q \in Procs, t[q].stat = "IDL"
               PROVE  LET a == t[q].pptr IN
                      /\ a \in Procs /\ pc'[a] = "forking" /\ t[q].siga = t[a].siga
                      /\ \A r \in Procs : t[r].stat = "IDL" /\ t[r].pptr = a => r = q
    BY DEF ForkingIn
  <2>1. q # p /\ proc[q].stat = "IDL" /\ \A r \in Procs : t[r].stat = "IDL" => proc[r].stat = "IDL"
    BY <1>1, <1>4
  <2>2. LET a == proc[q].pptr IN
        /\ a \in Procs /\ pc[a] = "forking" /\ proc[q].siga = proc[a].siga
        /\ \A r \in Procs : proc[r].stat = "IDL" /\ proc[r].pptr = a => r = q
    BY <2>1 DEF TableOK, ForkingIn
  <2>3. proc[q].pptr # p
    BY <2>2 DEF Working
  <2> QED  BY <1>1, <2>1, <2>2, <2>3 DEF OthersStay
<1>7. OrphansIn(t, pc', todo')
  <2> SUFFICES ASSUME NEW a \in Procs, NEW q \in Procs, pc'[a] = "orphaning", q \in todo'[a]
               PROVE  t[q].pptr = a /\ t[q].stat # "FREE"
    BY DEF OrphansIn
  <2>1. a # p
    BY DEF Working
  <2>2. pc[a] = "orphaning" /\ q \in todo[a]
    BY <2>1 DEF OthersStay
  <2>3. proc[q].pptr = a /\ proc[q].stat # "FREE"
    BY <2>2 DEF TableOK, OrphansIn
  <2> QED  BY <1>1, <1>4, <2>3 DEF Live
<1>8. ParentsIn(t, pc', todo')
  <2> SUFFICES ASSUME NEW q \in Procs \ {InitP}, t[q].stat # "FREE"
               PROVE  LET a == t[q].pptr IN
                      a \in Procs /\ (Live(t[a]) \/ (pc'[a] = "orphaning" /\ q \in todo'[a]))
    BY DEF ParentsIn
  <2>1. proc[q].stat # "FREE"
    BY <1>1, <1>4 DEF Live
  <2>2. LET a == proc[q].pptr IN
        a \in Procs /\ (Live(proc[a]) \/ (pc[a] = "orphaning" /\ q \in todo[a]))
    BY <2>1 DEF TableOK, ParentsIn
  <2>3. CASE proc[q].pptr = p
    BY <1>1, <1>4, <2>2, <2>3
  <2>4. CASE proc[q].pptr # p
    BY <1>1, <2>2, <2>4 DEF OthersStay
  <2> QED  BY <2>3, <2>4
<1>9. pc'[InitP] \notin Gone
  BY ConstantsOK DEF TableOK, OthersStay, Working, Gone
<1>10. TableOK'
  BY <1>2, <1>3, <1>5, <1>6, <1>7, <1>8, <1>9, TouchedTableOK
<1>11. ASSUME NEW q \in Procs
       PROVE  StaysHeld(proc[q], proc'[q])
  <2>1. StaysHeld(proc[q], t[q])
    BY <1>1 DEF StaysHeld
  <2>2. Touch(t[q], proc'[q])
    BY <1>2 DEF Touched
  <2> QED  BY <2>1, <2>2, TouchHolds
<1> QED  BY <1>10, <1>11 DEF HeldStep

\* The same for what is remembered, in all steps but those of select and of
\* a stream.
LEMMA OwnEvents ==
  ASSUME IInv, NEW p \in Procs, NEW x,
         Touched([proc EXCEPT ![p] = x], proc'),
         \A q \in Procs \ {p} : pc'[q] = pc[q],
         ready' \subseteq ready, UNCHANGED <<rsel, coll, stale>>,
         x.wchan \notin ready,
         OnSelect(x, pc'[p], p \notin stale) => OnSelect(proc[p], pc[p], p \notin stale)
  PROVE  RememberedIn(proc, pc, ready, rsel, coll, stale)'
<1> DEFINE t == [proc EXCEPT ![p] = x]
<1>1. t[p] = x /\ \A q \in Procs \ {p} : t[q] = proc[q]
  BY DEF IInv, TableOK, Entries
<1>2. Touched(t, proc')
  OBVIOUS
<1> HIDE DEF t
<1>3. RememberedIn(proc, pc, ready, rsel, coll, stale)
  BY DEF IInv
<1>4. \A q \in Procs : /\ t[q].wchan \notin ready
                       /\ OnSelect(t[q], pc'[q], q \notin stale) =>
                             OnSelect(proc[q], pc[q], q \notin stale)
  BY <1>1, <1>3 DEF RememberedIn
<1>5. RememberedIn(t, pc', ready', rsel, coll, stale)
  BY <1>3, <1>4 DEF RememberedIn
<1>6. ready' \in SUBSET Streams
  BY DEF IInv, TableOK, RestTypeOK
<1>7. RememberedIn(proc', pc', ready', rsel, coll, stale)
  BY <1>2, <1>5, <1>6, TouchedRemembered
<1> QED  BY <1>7

-----------------------------------------------------------------------------
(***************************************************************************)
(* sleep and tsleep.                                                       *)
(***************************************************************************)
\* The entry of the process that has the CPU.
LEMMA AtWork ==
  ASSUME TableOK, NEW p \in Procs, Running(p)
  PROVE  /\ proc[p] \in Slots /\ EntryOK(proc[p])
         /\ proc[p].stat = "RUN" /\ proc[p].wchan = NoChan
         /\ pc[p] \in PCs \ {"none", "orphaning"}
         /\ \A s \in AllSigs : Matches(proc[p].siga[s], usig[p][s])
         /\ pc[p] # "exiting" =>
              /\ usig[p]["KILL"] = "DFL" /\ usig[p]["STOP"] = "DFL"
              /\ proc[p].cursig # NoSig => usig[p][proc[p].cursig] \notin {"IGN", "HOLD"}
         /\ pc[p] = "user" => proc[p].cursig = NoSig
         /\ pc[p] \in InCall => call[p] # "none"
<1>1. ProcOK(proc[p], pc[p], usig[p], call[p], timer[p]) /\ proc[p].stat = "RUN"
  BY DEF TableOK, Entries, Running
<1>2. pc[p] \in PCs \ {"none", "orphaning"}
  BY <1>1 DEF ProcOK, Suits, TableOK, RestTypeOK
<1>3. proc[p] \in Slots /\ EntryOK(proc[p]) /\ proc[p].wchan = NoChan
  BY <1>1 DEF ProcOK, EntryOK
<1> QED  BY <1>1, <1>2, <1>3 DEF ProcOK, Gone

\* Where a process goes on after a sleep.
LEMMA ContinueGoes ==
  ASSUME TableOK, NEW p \in Procs, call[p] # "none", NEW v \in {"OK", "SIG", "TIME"},
         NEW tm \in [Procs -> {"off", "on", "out"}],
         \A q \in Procs \ {p} : tm[q] = timer[q],
         UNCHANGED usig, Continue(p, v, tm)
  PROVE  /\ pc'[p] \in {"ret", "drain", "scan", "selscan", "test"}
         /\ pc' \in [Procs -> PCs]
         /\ call' \in [Procs -> AllCalls \cup {"none", "drain"}] /\ call'[p] # "none"
         /\ todo' \in [Procs -> SUBSET Procs]
         /\ timer' \in [Procs -> {"off", "on", "out"}]
         /\ OthersStay(p)
<1> DEFINE c == call[p]
           ends == Ends(c, v)
           place == CASE ends -> "ret"
                      [] ~ends /\ call'[p] = "drain" -> "drain"
                      [] ~ends /\ c = "wait" -> "scan"
                      [] ~ends /\ c = "select" -> "selscan"
                      [] ~ends /\ c \in {"read", "io", "ioctl"} -> "test"
                      [] ~ends /\ c = "accept" /\ v = "OK" -> "test"
           kids == IF c = "wait" /\ ~ends THEN Children(p) ELSE {}
           next == IF c = "accept" /\ v # "OK" THEN "drain" ELSE c
           tm1 == IF Timed(c) THEN (IF tm[p] = "on" THEN "off" ELSE tm[p]) ELSE tm[p]
<1>1. /\ pc' = [pc EXCEPT ![p] = place]
      /\ todo' = [todo EXCEPT ![p] = kids]
      /\ call' = [call EXCEPT ![p] = next]
      /\ timer' = [tm EXCEPT ![p] = tm1]
  BY DEF Continue, Goto
<1>2. /\ pc \in [Procs -> PCs] /\ call \in [Procs -> AllCalls \cup {"none", "drain"}]
      /\ todo \in [Procs -> SUBSET Procs]
  BY DEF TableOK, RestTypeOK
<1>3. c \in AllCalls \cup {"drain"} /\ next \in AllCalls \cup {"drain"}
  BY <1>2 DEF AllCalls
<1>4. call'[p] = next
  BY <1>1, <1>2
<1>5. place \in {"ret", "drain", "scan", "selscan", "test"}
  <2>1. v = "SIG" => (ends <=> c \notin {"accept", "drain"})
    BY DEF Ends
  <2> HIDE DEF ends
  <2> QED  BY <1>3, <1>4, <2>1 DEF AllCalls
<1>6. kids \in SUBSET Procs /\ tm1 \in {"off", "on", "out"}
  BY DEF Children
<1> HIDE DEF place, kids, next, tm1
<1>7. \A q \in Procs \ {p} : /\ pc'[q] = pc[q] /\ call'[q] = call[q]
                             /\ timer'[q] = timer[q] /\ todo'[q] = todo[q]
  BY <1>1, <1>2
<1>8. OthersStay(p)
  BY <1>7 DEF OthersStay
<1>9. {"ret", "drain", "scan", "selscan", "test"} \subseteq PCs
  BY DEF PCs
<1>10. next \in AllCalls \cup {"none", "drain"} /\ next # "none"
  BY <1>3 DEF AllCalls
<1> QED  BY <1>1, <1>2, <1>5, <1>6, <1>8, <1>9, <1>10

\* The sleeper turns to a signal: a longjmp or TS_SIG, or a stop.
LEMMA InterruptKeeps ==
  ASSUME IInv, NEW p \in Procs, Running(p), pc[p] \in InCall,
         NEW y \in Slots, SameBasis(proc[p], y), y.sig = proc[p].sig, y.stat = "RUN",
         y.wchan \notin ready,
         y.wchan = SelWait => OnSelect(proc[p], pc[p], p \notin stale),
         NEW tm \in [Procs -> {"off", "on", "out"}],
         \A q \in Procs \ {p} : tm[q] = timer[q],
         y.wchan # NoChan /\ Timed(call[p]) => tm[p] # "out" /\ (tm[p] = "on" => y.tsl > 0),
         NEW w, Interrupt(p, [proc EXCEPT ![p] = w], Look(p, y), tm),
         UNCHANGED <<usig, f, selVars, used>>
  PROVE  IInv' /\ HeldStep
<1> DEFINE o == Look(p, y)
           t == [proc EXCEPT ![p] = w]
<1>1. /\ o.what \in {"none", "send", "stop"}
      /\ o.r \in Slots /\ LookKeeps(y, o.r) /\ Held(y, o.r)
      /\ o.what # "stop" => o.r.stat = y.stat
      /\ o.what = "none" => o.r.cursig = NoSig
      /\ o.what = "send" =>
           /\ o.r.cursig \in AllSigs
           /\ \/ o.r.cursig = "KILL"
              \/ usig[p][o.r.cursig] \notin {"IGN", "HOLD"}
      /\ o.what = "stop" =>
           /\ o.r.stat = "STOP" /\ o.r.cursig \in StopSigs
           /\ usig[p][o.r.cursig] = "DFL"
  BY LookDoes
<1>2. Interrupt(p, t, o, tm)
  OBVIOUS
<1> HIDE DEF o
<1>3. TableOK /\ proc \in [Procs -> Slots] /\ RestTypeOK /\ ready \subseteq Streams
  BY DEF IInv, TableOK, Entries, RestTypeOK
<1>4. \A z : [t EXCEPT ![p] = z] = [proc EXCEPT ![p] = z]
  BY <1>3
<1> HIDE DEF t
<1>5. /\ pc[p] \in Working /\ call[p] # "none"
      /\ \A s \in AllSigs : Matches(proc[p].siga[s], usig[p][s])
      /\ usig[p]["KILL"] = "DFL" /\ usig[p]["STOP"] = "DFL"
  BY <1>3, AtWork DEF InCall, Working, PCs
<1>6. p = InitP => pc[p] # "exiting"
  BY DEF InCall
<1>7. o.r.siga = proc[p].siga /\ o.r.pptr = proc[p].pptr /\ o.r.wchan = y.wchan
      /\ o.r.tsl = y.tsl
  BY <1>1 DEF LookKeeps, SameBasis
<1>8. NoChan \notin ready /\ NoChan # SelWait /\ NoChan \in Chans
  BY <1>3, ConstantsOK DEF Chans
<1>9. CASE /\ o.what = "send"
           /\ proc' = [t EXCEPT ![p] = [o.r EXCEPT !.wchan = NoChan,
                                                   !.timo = @ /\ ~Timed(call[p])]]
           /\ Continue(p, "SIG", tm)
  <2> DEFINE x == [o.r EXCEPT !.wchan = NoChan, !.timo = @ /\ ~Timed(call[p])]
  <2>1. /\ pc'[p] \in {"ret", "drain", "scan", "selscan", "test"}
        /\ pc' \in [Procs -> PCs]
        /\ call' \in [Procs -> AllCalls \cup {"none", "drain"}] /\ call'[p] # "none"
        /\ todo' \in [Procs -> SUBSET Procs]
        /\ timer' \in [Procs -> {"off", "on", "out"}]
        /\ OthersStay(p)
    BY <1>3, <1>5, <1>9, ContinueGoes
  <2>2. /\ x \in Slots /\ x.wchan = NoChan /\ x.stat = "RUN" /\ x.siga = proc[p].siga
        /\ x.pptr = proc[p].pptr /\ x.cursig = o.r.cursig /\ x.sig = o.r.sig
    <3> DEFINE T == o.r.timo /\ ~Timed(call[p])
    <3>1. T \in BOOLEAN /\ x = [o.r EXCEPT !.wchan = NoChan, !.timo = T]
      BY <1>1
    <3> HIDE DEF T, x
    <3>2. o.r \in Slots /\ o.r.stat = "RUN"
      BY <1>1, <1>9
    <3> QED  BY <1>7, <1>8, <3>1, <3>2 DEF Slots
  <2>3. proc' = [proc EXCEPT ![p] = x]
    BY <1>4, <1>9
  <2> HIDE DEF x
  <2>4. EntryOK(x)
    BY <2>2 DEF EntryOK
  <2>5. ProcOK(x, pc'[p], usig'[p], call'[p], timer'[p])
    <3>1. Suits(pc'[p], x.stat)
      BY <2>1, <2>2 DEF Suits
    <3>2. usig' = usig
      OBVIOUS
    <3>3. x.cursig # NoSig => usig[p][x.cursig] \notin {"IGN", "HOLD"}
      BY <1>1, <1>5, <1>9, <2>2
    <3>4. pc'[p] # "user" /\ x.stat \notin {"IDL", "FREE"} /\ x.wchan = NoChan
      BY <2>1, <2>2
    <3> QED  BY <1>5, <2>1, <2>2, <2>4, <3>1, <3>2, <3>3, <3>4 DEF ProcOK
  <2>6. Touched([proc EXCEPT ![p] = x], proc')
    <3>1. Table(proc)
      BY <1>3, EntriesTable DEF TableOK
    <3>2. Table([proc EXCEPT ![p] = x])
      BY <2>2, <2>4, <3>1 DEF Table
    <3> QED  BY <2>3, <3>2, TouchedSame
  <2>7. StaysHeld(proc[p], x)
    BY <1>1, <2>2 DEF StaysHeld, Held, SameBasis
  <2>8. RestTypeOK'
    BY <1>3, <2>1 DEF RestTypeOK, selVars
  <2>9. pc'[p] \in Working /\ pc'[p] # "exiting"
    BY <2>1 DEF Working, PCs
  <2>10. TableOK' /\ HeldStep
    BY <1>3, <1>5, <2>1, <2>2, <2>5, <2>6, <2>7, <2>8, <2>9, OwnTable
  <2>11. RememberedIn(proc, pc, ready, rsel, coll, stale)'
    <3>1. x.wchan \notin ready /\ ~OnSelect(x, pc'[p], p \notin stale)
      BY <1>8, <2>1, <2>2 DEF OnSelect
    <3>2. \A q \in Procs \ {p} : pc'[q] = pc[q]
      BY <2>1 DEF OthersStay
    <3>3. ready' \subseteq ready /\ UNCHANGED <<rsel, coll, stale>>
      BY DEF selVars
    <3> QED  BY <2>6, <3>1, <3>2, <3>3, OwnEvents
  <2> QED  BY <2>10, <2>11 DEF IInv
<1>10. CASE /\ o.what = "stop"
            /\ proc' = ToldParent([t EXCEPT ![p] = o.r], p)
            /\ Goto(p, "sleepstop") /\ timer' = tm
            /\ UNCHANGED <<call, todo>>
  <2> DEFINE x == o.r
             u == [proc EXCEPT ![p] = x]
  <2>1. /\ x \in Slots /\ x.wchan = y.wchan /\ x.stat = "STOP" /\ x.siga = proc[p].siga
        /\ x.pptr = proc[p].pptr /\ x.tsl = y.tsl
        /\ x.cursig \in StopSigs /\ usig[p][x.cursig] = "DFL"
    BY <1>1, <1>7, <1>10
  <2>2. proc' = ToldParent(u, p)
    BY <1>4, <1>10
  <2>3. StaysHeld(proc[p], x)
    BY <1>1 DEF StaysHeld, Held, SameBasis
  <2> HIDE DEF x
  <2>4. EntryOK(x)
    BY <2>1 DEF EntryOK
  <2>5. pc' = [pc EXCEPT ![p] = "sleepstop"] /\ pc'[p] = "sleepstop"
    BY <1>3, <1>10 DEF Goto, RestTypeOK
  <2>6. ProcOK(x, pc'[p], usig'[p], call'[p], timer'[p])
    <3>1. Suits(pc'[p], x.stat)
      BY <2>1, <2>5 DEF Suits
    <3>2. usig' = usig /\ call'[p] = call[p] /\ timer'[p] = tm[p]
      BY <1>10
    <3>3. x.wchan # NoChan /\ Timed(call'[p]) =>
             timer'[p] # "out" /\ (timer'[p] = "on" => x.tsl > 0)
      BY <2>1, <3>2
    <3>4. pc'[p] # "user" /\ x.stat \notin {"IDL", "FREE"}
      BY <2>1, <2>5
    <3> QED  BY <1>5, <2>1, <2>4, <3>1, <3>2, <3>3, <3>4 DEF ProcOK
  <2>7. Touched(u, proc')
    <3>1. Table(proc)
      BY <1>3, EntriesTable DEF TableOK
    <3>2. Table(u)
      BY <2>1, <2>4, <3>1 DEF Table
    <3> HIDE DEF u
    <3> QED  BY <2>2, <3>2, ToldParentTouches
  <2>8. OthersStay(p)
    BY <1>3, <1>10, <2>5 DEF OthersStay, RestTypeOK
  <2>9. RestTypeOK'
    <3>1. pc' \in [Procs -> PCs]
      BY <1>3, <2>5 DEF RestTypeOK, PCs
    <3> QED  BY <1>3, <1>10, <3>1 DEF RestTypeOK, selVars
  <2>10. TableOK' /\ HeldStep
    <3>1. pc'[p] \in Working /\ pc'[p] # "exiting"
      BY <2>5 DEF Working, PCs
    <3> QED  BY <1>3, <1>5, <2>1, <2>3, <2>6, <2>7, <2>8, <2>9, <3>1, OwnTable
  <2>11. RememberedIn(proc, pc, ready, rsel, coll, stale)'
    <3>1. x.wchan \notin ready
      BY <2>1
    <3>2. OnSelect(x, pc'[p], p \notin stale) => OnSelect(proc[p], pc[p], p \notin stale)
      BY <2>1, <2>5 DEF OnSelect
    <3>3. \A q \in Procs \ {p} : pc'[q] = pc[q]
      BY <2>8 DEF OthersStay
    <3>4. ready' \subseteq ready /\ UNCHANGED <<rsel, coll, stale>>
      BY DEF selVars
    <3> QED  BY <2>7, <3>1, <3>2, <3>3, <3>4, OwnEvents
  <2> QED  BY <2>10, <2>11 DEF IInv
<1> QED  BY <1>2, <1>9, <1>10 DEF Interrupt

\* sleep and tsleep.  y is the entry of the caller; only select changes it
\* before it sleeps.
LEMMA SleepKeeps ==
  ASSUME IInv, NEW p \in Procs, Running(p), pc[p] \in InCall,
         NEW y \in Slots, SameBasis(proc[p], y), y.sig = proc[p].sig, y.stat = "RUN",
         y.cursig = proc[p].cursig,
         NEW c \in Chans \ {NoChan}, c \notin ready,
         c = SelWait => OnSelect(proc[p], pc[p], p \notin stale),
         NEW intr \in BOOLEAN, NEW secs \in 0..MaxSecs,
         Sleep(p, [proc EXCEPT ![p] = y], c, intr, secs),
         UNCHANGED <<usig, f, selVars, used>>
  PROVE  IInv' /\ HeldStep
<1> DEFINE t == [proc EXCEPT ![p] = y]
           n == IF Timed(call[p]) THEN secs ELSE y.tsl
           r == [y EXCEPT !.wchan = c, !.intr = intr, !.tsl = n]
           o == IF intr /\ r.sig # {} THEN Look(p, r) ELSE [what |-> "none", r |-> r]
           tm == IF Timed(call[p])
                 THEN [timer EXCEPT ![p] = IF secs = 0 THEN "off" ELSE "on"]
                 ELSE timer
<1>1. TableOK /\ proc \in [Procs -> Slots] /\ RestTypeOK
  BY DEF IInv, TableOK, Entries
<1>2. t[p] = y
  BY <1>1
<1>3. \/ /\ o.what = "none"
         /\ proc' = [t EXCEPT ![p] = [o.r EXCEPT !.stat = "SLEEP"]]
         /\ Goto(p, "asleep") /\ timer' = tm
         /\ UNCHANGED <<call, todo>>
      \/ Interrupt(p, t, o, tm)
  <2>1. Sleep(p, t, c, intr, secs)
    OBVIOUS
  <2>2. r = [t[p] EXCEPT !.wchan = c, !.intr = intr,
                         !.tsl = IF Timed(call[p]) THEN secs ELSE @]
    BY <1>2
  <2> HIDE DEF t
  <2> QED  BY <2>1, <2>2 DEF Sleep
<1>4. n \in 0..MaxSecs
  BY DEF Slots
<1>5. /\ tm \in [Procs -> {"off", "on", "out"}] /\ \A q \in Procs \ {p} : tm[q] = timer[q]
      /\ Timed(call[p]) => tm[p] # "out" /\ (tm[p] = "on" => n > 0)
  BY <1>1 DEF RestTypeOK
<1> HIDE DEF n, tm
<1>6. /\ r \in Slots /\ SameBasis(proc[p], r) /\ r.sig = proc[p].sig /\ r.stat = "RUN"
      /\ r.cursig = proc[p].cursig /\ r.wchan = c /\ r.tsl = n
  BY <1>4 DEF Slots, SameBasis
<1>7. \A z : [t EXCEPT ![p] = z] = [proc EXCEPT ![p] = z]
  BY <1>1
<1> HIDE DEF r
<1>8. CASE Interrupt(p, t, o, tm)
  <2>1. intr /\ r.sig # {}
    <3>1. o.what \in {"send", "stop"}
      BY <1>8 DEF Interrupt
    <3> QED  BY <3>1
  <2>2. o = Look(p, r)
    BY <2>1
  <2>3. Interrupt(p, [proc EXCEPT ![p] = y], Look(p, r), tm)
    BY <1>8, <2>2
  <2> HIDE DEF o, t
  <2> QED  BY <1>5, <1>6, <2>3, InterruptKeeps
<1>9. CASE /\ o.what = "none"
           /\ proc' = [t EXCEPT ![p] = [o.r EXCEPT !.stat = "SLEEP"]]
           /\ Goto(p, "asleep") /\ timer' = tm
           /\ UNCHANGED <<call, todo>>
  <2> DEFINE x == [o.r EXCEPT !.stat = "SLEEP"]
  <2>1. /\ o.r \in Slots /\ LookKeeps(r, o.r) /\ Held(r, o.r)
        /\ o.r.cursig = NoSig \/ o.r.cursig = r.cursig
    <3>1. CASE intr /\ r.sig # {}
      <4>1. o = Look(p, r)
        BY <3>1
      <4> QED  BY <1>6, <1>9, <4>1, LookDoes
    <3>2. CASE ~(intr /\ r.sig # {})
      <4>1. o.r = r
        BY <3>2
      <4> QED  BY <1>6, <4>1 DEF LookKeeps, SameBasis, Held
    <3> QED  BY <3>1, <3>2
  <2> HIDE DEF o
  <2>2. /\ x \in Slots /\ SameBasis(proc[p], x) /\ x.stat = "SLEEP" /\ x.wchan = c
        /\ x.tsl = n /\ x.sig = o.r.sig /\ x.cursig \in {NoSig, proc[p].cursig}
    BY <1>6, <2>1 DEF Slots, LookKeeps, SameBasis
  <2>3. proc' = [proc EXCEPT ![p] = x]
    BY <1>7, <1>9
  <2>4. StaysHeld(proc[p], x)
    BY <1>6, <2>1, <2>2 DEF StaysHeld, Held, SameBasis
  <2> HIDE DEF x, t
  <2>5. EntryOK(x)
    BY <2>2 DEF EntryOK
  <2>6. pc' = [pc EXCEPT ![p] = "asleep"] /\ pc'[p] = "asleep"
    BY <1>1, <1>9 DEF Goto, RestTypeOK
  <2>7. /\ pc[p] \in Working /\ call[p] # "none"
        /\ \A s \in AllSigs : Matches(x.siga[s], usig[p][s])
        /\ usig[p]["KILL"] = "DFL" /\ usig[p]["STOP"] = "DFL"
        /\ x.cursig # NoSig => usig[p][x.cursig] \notin {"IGN", "HOLD"}
    BY <1>1, <2>2, AtWork DEF InCall, Working, PCs, SameBasis
  <2>8. ProcOK(x, pc'[p], usig'[p], call'[p], timer'[p])
    <3>1. Suits(pc'[p], x.stat)
      BY <2>2, <2>6 DEF Suits
    <3>2. usig' = usig /\ call'[p] = call[p] /\ timer'[p] = tm[p]
      BY <1>9
    <3>3. x.wchan # NoChan /\ Timed(call'[p]) =>
             timer'[p] # "out" /\ (timer'[p] = "on" => x.tsl > 0)
      BY <1>5, <2>2, <3>2
    <3>4. pc'[p] # "user" /\ x.stat \notin {"IDL", "FREE"}
      BY <2>2, <2>6
    <3> QED  BY <2>5, <2>7, <3>1, <3>2, <3>3, <3>4 DEF ProcOK
  <2>9. Touched([proc EXCEPT ![p] = x], proc')
    <3>1. Table(proc)
      BY <1>1, EntriesTable DEF TableOK
    <3>2. Table([proc EXCEPT ![p] = x])
      BY <2>2, <2>5, <3>1 DEF Table
    <3> QED  BY <2>3, <3>2, TouchedSame
  <2>10. OthersStay(p)
    <3>1. \A q \in Procs \ {p} : pc'[q] = pc[q]
      BY <1>1, <2>6 DEF RestTypeOK
    <3> QED  BY <1>5, <1>9, <3>1 DEF OthersStay
  <2>11. RestTypeOK'
    <3>1. pc' \in [Procs -> PCs]
      BY <1>1, <2>6 DEF RestTypeOK, PCs
    <3>2. timer' \in [Procs -> {"off", "on", "out"}] /\ UNCHANGED <<call, todo>>
      BY <1>5, <1>9
    <3> QED  BY <1>1, <3>1, <3>2 DEF RestTypeOK, selVars
  <2>12. TableOK' /\ HeldStep
    <3>1. pc'[p] \in Working /\ pc'[p] # "exiting" /\ x.pptr = proc[p].pptr
      BY <2>2, <2>6 DEF Working, PCs, SameBasis
    <3> QED  BY <1>1, <2>4, <2>7, <2>8, <2>9, <2>10, <2>11, <3>1, OwnTable
  <2>13. RememberedIn(proc, pc, ready, rsel, coll, stale)'
    <3>1. x.wchan \notin ready
      BY <2>2
    <3>2. OnSelect(x, pc'[p], p \notin stale) => OnSelect(proc[p], pc[p], p \notin stale)
      BY <2>2, <2>6 DEF OnSelect
    <3>3. \A q \in Procs \ {p} : pc'[q] = pc[q]
      BY <2>10 DEF OthersStay
    <3>4. ready' \subseteq ready /\ UNCHANGED <<rsel, coll, stale>>
      BY DEF selVars
    <3> QED  BY <2>9, <3>1, <3>2, <3>3, <3>4, OwnEvents
  <2> QED  BY <2>12, <2>13 DEF IInv
<1> QED  BY <1>3, <1>8, <1>9

\* A step of p in which only p's entry changes, to x, and nothing is touched.
LEMMA QuietStep ==
  ASSUME IInv, NEW p \in Procs, Running(p), pc[p] \in Working,
         NEW x \in Slots, proc' = [proc EXCEPT ![p] = x],
         ProcOK(x, pc'[p], usig'[p], call'[p], timer'[p]),
         x.pptr = proc[p].pptr, StaysHeld(proc[p], x), RestTypeOK',
         pc'[p] \in Working, p = InitP => pc'[p] # "exiting", OthersStay(p),
         ready' \subseteq ready, UNCHANGED <<rsel, coll, stale>>,
         x.wchan = NoChan, pc'[p] # "selsleep"
  PROVE  IInv' /\ HeldStep
<1>1. TableOK /\ proc \in [Procs -> Slots] /\ RestTypeOK
  BY DEF IInv, TableOK, Entries
<1>2. Touched([proc EXCEPT ![p] = x], proc')
  <2>1. Table(proc)
    BY <1>1, EntriesTable DEF TableOK
  <2>2. Table([proc EXCEPT ![p] = x])
    BY <2>1 DEF Table, ProcOK
  <2> QED  BY <2>2, TouchedSame
<1>3. TableOK' /\ HeldStep
  BY <1>1, <1>2, OwnTable
<1>4. RememberedIn(proc, pc, ready, rsel, coll, stale)'
  <2>1. x.wchan \notin ready /\ ~OnSelect(x, pc'[p], p \notin stale)
    BY <1>1, ConstantsOK DEF RestTypeOK, OnSelect
  <2>2. \A q \in Procs \ {p} : pc'[q] = pc[q]
    BY DEF OthersStay
  <2> QED  BY <1>2, <2>1, <2>2, OwnEvents
<1> QED  BY <1>3, <1>4 DEF IInv

\* p goes from one place to another, leaves its entry alone and at most
\* touches others.
LEMMA TouchGoes ==
  ASSUME IInv, NEW p \in Procs, Running(p), pc[p] \in Working \ {"exiting"},
         Touched(proc, proc'), UNCHANGED usig,
         NEW pl \in {"ret", "test", "scan", "selscan"}, pc'[p] = pl,
         pl \in InCall => call'[p] # "none",
         OthersStay(p), RestTypeOK',
         ready' \subseteq ready, UNCHANGED <<rsel, coll, stale>>
  PROVE  IInv' /\ HeldStep
<1> DEFINE x == proc[p]
<1>1. TableOK /\ proc \in [Procs -> Slots]
  BY DEF IInv, TableOK, Entries
<1>2. /\ x \in Slots /\ EntryOK(x) /\ x.stat = "RUN" /\ x.wchan = NoChan
      /\ \A s \in AllSigs : Matches(x.siga[s], usig[p][s])
      /\ usig[p]["KILL"] = "DFL" /\ usig[p]["STOP"] = "DFL"
      /\ x.cursig # NoSig => usig[p][x.cursig] \notin {"IGN", "HOLD"}
  BY <1>1, AtWork
<1>3. [proc EXCEPT ![p] = x] = proc
  BY <1>1
<1>4. x.pptr = proc[p].pptr /\ StaysHeld(proc[p], x)
  BY DEF StaysHeld
<1> HIDE DEF x
<1>5. Touched([proc EXCEPT ![p] = x], proc')
  BY <1>3
<1>6. ProcOK(x, pc'[p], usig'[p], call'[p], timer'[p])
  <2>1. Suits(pc'[p], x.stat)
    BY <1>2 DEF Suits
  <2>2. usig' = usig /\ pc'[p] # "user"
    OBVIOUS
  <2> QED  BY <1>2, <2>1, <2>2 DEF ProcOK
<1>7. pc'[p] \in Working /\ pc'[p] # "exiting" /\ pc'[p] # "selsleep"
  BY DEF Working, PCs
<1>8. TableOK' /\ HeldStep
  BY <1>1, <1>4, <1>5, <1>6, <1>7, OwnTable
<1>9. RememberedIn(proc, pc, ready, rsel, coll, stale)'
  <2>1. x.wchan \notin ready /\ ~OnSelect(x, pc'[p], p \notin stale)
    BY <1>1, <1>2, <1>7, ConstantsOK DEF TableOK, RestTypeOK, OnSelect
  <2>2. \A q \in Procs \ {p} : pc'[q] = pc[q]
    BY DEF OthersStay
  <2> QED  BY <1>5, <2>1, <2>2, OwnEvents
<1> QED  BY <1>8, <1>9 DEF IInv

LEMMA JustGoes ==
  ASSUME IInv, NEW p \in Procs, Running(p), pc[p] \in Working \ {"exiting"},
         UNCHANGED <<proc, usig>>,
         NEW pl \in {"ret", "test", "scan", "selscan"}, pc'[p] = pl,
         pl \in InCall => call'[p] # "none",
         OthersStay(p), RestTypeOK',
         ready' \subseteq ready, UNCHANGED <<rsel, coll, stale>>
  PROVE  IInv' /\ HeldStep
<1>1. Table(proc)
  BY EntriesTable DEF IInv, TableOK
<1>2. Touched(proc, proc')
  BY <1>1, TouchedSame
<1> QED  BY <1>2, TouchGoes

-----------------------------------------------------------------------------
(***************************************************************************)
(* The steps, one by one.                                                  *)
(***************************************************************************)
LEMMA TheParts ==
  ASSUME IInv
  PROVE  TableOK /\ RestTypeOK /\ proc \in [Procs -> Slots]
BY DEF IInv, TableOK, Entries

LEMMA AwakeKeeps ==
  ASSUME IInv, NEW p \in Procs, Awake(p)
  PROVE  IInv' /\ HeldStep
<1> DEFINE r == proc[p]
           looks == pc[p] = "sleepstop" \/ (r.intr /\ r.sig # {})
           o == IF looks THEN Look(p, r) ELSE [what |-> "none", r |-> r]
           v == IF Timed(call[p]) /\ r.timo THEN "TIME" ELSE "OK"
           x == [o.r EXCEPT !.timo = @ /\ ~Timed(call[p])]
<1>1. /\ Running(p) /\ pc[p] \in {"asleep", "sleepstop"}
      /\ UNCHANGED <<usig, f, selVars, used>>
      /\ \/ /\ o.what = "none"
            /\ proc' = [proc EXCEPT ![p] = x]
            /\ Continue(p, v, timer)
         \/ Interrupt(p, proc, o, timer)
  BY DEF Awake
<1>2. /\ r \in Slots /\ EntryOK(r) /\ r.stat = "RUN" /\ r.wchan = NoChan
      /\ \A s \in AllSigs : Matches(r.siga[s], usig[p][s])
      /\ usig[p]["KILL"] = "DFL" /\ usig[p]["STOP"] = "DFL"
      /\ r.cursig # NoSig => usig[p][r.cursig] \notin {"IGN", "HOLD"}
      /\ call[p] # "none"
  BY <1>1, TheParts, AtWork DEF InCall
<1>3. timer \in [Procs -> {"off", "on", "out"}]
  BY TheParts DEF RestTypeOK
<1>4. pc[p] \in InCall /\ pc[p] \in Working
  BY <1>1 DEF InCall, Working, PCs
<1>5. CASE Interrupt(p, proc, o, timer)
  <2>1. looks
    <3>1. o.what \in {"send", "stop"}
      BY <1>5 DEF Interrupt
    <3> QED  BY <3>1
  <2>2. o = Look(p, r)
    BY <2>1
  <2>3. proc = [proc EXCEPT ![p] = r]
    BY TheParts
  <2>4. Interrupt(p, [proc EXCEPT ![p] = r], Look(p, r), timer)
    BY <1>5, <2>2, <2>3
  <2>5. SameBasis(proc[p], r) /\ r.sig = proc[p].sig
    BY DEF SameBasis
  <2>6. r.wchan \notin ready /\ r.wchan # SelWait
    BY <1>2, TheParts, ConstantsOK DEF RestTypeOK
  <2> HIDE DEF o, r, looks
  <2> QED  BY <1>1, <1>2, <1>3, <1>4, <2>4, <2>5, <2>6, InterruptKeeps
<1>6. CASE /\ o.what = "none"
           /\ proc' = [proc EXCEPT ![p] = x]
           /\ Continue(p, v, timer)
  <2>1. /\ o.r \in Slots /\ LookKeeps(r, o.r) /\ Held(r, o.r) /\ o.r.stat = r.stat
        /\ o.r.cursig = NoSig \/ o.r.cursig = r.cursig
    <3>1. CASE looks
      <4>1. o = Look(p, r)
        BY <3>1
      <4> HIDE DEF o, r
      <4> QED  BY <1>2, <1>6, <4>1, LookDoes
    <3>2. CASE ~looks
      <4>1. o.r = r
        BY <3>2
      <4> QED  BY <1>2, <4>1 DEF LookKeeps, SameBasis, Held
    <3> QED  BY <3>1, <3>2
  <2>2. v \in {"OK", "SIG", "TIME"}
    OBVIOUS
  <2> HIDE DEF v, o
  <2>3. /\ pc'[p] \in {"ret", "drain", "scan", "selscan", "test"}
        /\ pc' \in [Procs -> PCs]
        /\ call' \in [Procs -> AllCalls \cup {"none", "drain"}] /\ call'[p] # "none"
        /\ todo' \in [Procs -> SUBSET Procs]
        /\ timer' \in [Procs -> {"off", "on", "out"}]
        /\ OthersStay(p)
    BY <1>1, <1>2, <1>3, <1>6, <2>2, TheParts, ContinueGoes
  <2>4. /\ x \in Slots /\ x.wchan = NoChan /\ x.stat = "RUN" /\ SameBasis(r, x)
        /\ x.cursig \in {NoSig, r.cursig} /\ x.sig = o.r.sig
    <3> DEFINE T == o.r.timo /\ ~Timed(call[p])
    <3>1. T \in BOOLEAN /\ x = [o.r EXCEPT !.timo = T]
      BY <2>1 DEF Slots
    <3> HIDE DEF T, x, r
    <3> QED  BY <1>2, <2>1, <3>1 DEF Slots, LookKeeps, SameBasis
  <2>5. proc' = [proc EXCEPT ![p] = x]
    BY <1>6
  <2>6. StaysHeld(proc[p], x)
    BY <2>1, <2>4 DEF StaysHeld, Held, SameBasis
  <2>7. x.siga = r.siga /\ x.pptr = proc[p].pptr
    BY <2>4 DEF SameBasis
  <2> HIDE DEF x, r
  <2>8. ProcOK(x, pc'[p], usig'[p], call'[p], timer'[p])
    <3>1. Suits(pc'[p], x.stat) /\ EntryOK(x)
      BY <2>3, <2>4 DEF Suits, EntryOK
    <3>2. usig' = usig
      BY <1>1
    <3>3. x.cursig # NoSig => usig[p][x.cursig] \notin {"IGN", "HOLD"}
      BY <1>2, <2>4
    <3>4. pc'[p] # "user" /\ x.stat \notin {"IDL", "FREE"} /\ x.wchan = NoChan
      BY <2>3, <2>4
    <3> QED  BY <1>2, <2>3, <2>7, <3>1, <3>2, <3>3, <3>4 DEF ProcOK
  <2>9. RestTypeOK'
    BY <1>1, <2>3, TheParts DEF RestTypeOK, selVars
  <2>10. pc'[p] \in Working /\ pc'[p] # "exiting" /\ pc'[p] # "selsleep"
    BY <2>3 DEF Working, PCs
  <2>11. ready' \subseteq ready /\ UNCHANGED <<rsel, coll, stale>>
    BY <1>1 DEF selVars
  <2> QED
    BY <1>1, <1>4, <2>3, <2>4, <2>5, <2>6, <2>7, <2>8, <2>9, <2>10, <2>11, QuietStep
<1> QED  BY <1>1, <1>5, <1>6

\* The sleeps that change nothing before.
LEMMA PlainSleepKeeps ==
  ASSUME IInv, NEW p \in Procs, Running(p), pc[p] \in InCall,
         NEW c \in Chans \ {NoChan, SelWait}, c \notin ready,
         NEW intr \in BOOLEAN, NEW secs \in 0..MaxSecs,
         Sleep(p, proc, c, intr, secs), UNCHANGED <<usig, f, selVars, used>>
  PROVE  IInv' /\ HeldStep
<1> DEFINE y == proc[p]
<1>1. /\ y \in Slots /\ SameBasis(proc[p], y) /\ y.sig = proc[p].sig /\ y.stat = "RUN"
      /\ y.cursig = proc[p].cursig
  BY TheParts, AtWork DEF SameBasis
<1>2. proc = [proc EXCEPT ![p] = y]
  BY TheParts
<1>3. Sleep(p, [proc EXCEPT ![p] = y], c, intr, secs)
  BY <1>2
<1> HIDE DEF y
<1> QED  BY <1>1, <1>3, SleepKeeps

LEMMA AwaitKeeps ==
  ASSUME IInv, NEW p \in Procs, NEW e \in Streams, NEW secs \in 0..MaxSecs, Await(p, e, secs)
  PROVE  IInv' /\ HeldStep
<1>1. /\ pc[p] \in InCall /\ Running(p) /\ e \notin ready
      /\ Sleep(p, proc, e, call[p] # "io", secs)
      /\ UNCHANGED <<usig, f, selVars, used>>
  BY DEF Await, InCall
<1>2. e \in Chans \ {NoChan, SelWait}
  BY ConstantsOK DEF Chans
<1>3. (call[p] # "io") \in BOOLEAN
  OBVIOUS
<1> QED  BY <1>1, <1>2, <1>3, PlainSleepKeeps

LEMMA DrainOutputKeeps ==
  ASSUME IInv, NEW p \in Procs, DrainOutput(p)
  PROVE  IInv' /\ HeldStep
<1>1. /\ pc[p] \in InCall /\ Running(p) /\ Sleep(p, proc, Drain, TRUE, 1)
      /\ UNCHANGED <<usig, f, selVars, used>>
  BY DEF DrainOutput, InCall
<1>2. Drain \in Chans \ {NoChan, SelWait} /\ Drain \notin ready /\ 1 \in 0..MaxSecs
  BY TheParts, ConstantsOK DEF Chans, RestTypeOK
<1> QED  BY <1>1, <1>2, PlainSleepKeeps

LEMMA WaitSleepKeeps ==
  ASSUME IInv, NEW p \in Procs, WaitSleep(p)
  PROVE  IInv' /\ HeldStep
<1>1. /\ pc[p] \in InCall /\ Running(p) /\ Sleep(p, proc, p, TRUE, 0)
      /\ UNCHANGED <<usig, f, selVars, used>>
  BY DEF WaitSleep, InCall
<1>2. p \in Chans \ {NoChan, SelWait} /\ p \notin ready /\ 0 \in 0..MaxSecs
  BY TheParts, ConstantsOK DEF Chans, RestTypeOK
<1> QED  BY <1>1, <1>2, PlainSleepKeeps

LEMMA SelSleepKeeps ==
  ASSUME IInv, NEW p \in Procs, NEW secs \in 1..MaxSecs, SelSleep(p, secs)
  PROVE  IInv' /\ HeldStep
<1> DEFINE y == [proc[p] EXCEPT !.ssel = FALSE]
<1>1. /\ pc[p] = "selsleep" /\ Running(p)
      /\ UNCHANGED <<usig, f, selVars, used>>
      /\ \/ /\ proc' = [proc EXCEPT ![p] = y] /\ Goto(p, "selscan")
            /\ UNCHANGED <<call, todo, timer>>
         \/ /\ proc[p].ssel /\ p \notin stale
            /\ Sleep(p, [proc EXCEPT ![p] = y], SelWait, TRUE, secs)
  <2>1. [proc EXCEPT ![p].ssel = FALSE] = [proc EXCEPT ![p] = y]
    OBVIOUS
  <2> QED  BY <2>1 DEF SelSleep
<1>2. /\ proc[p] \in Slots /\ proc[p].stat = "RUN" /\ proc[p].wchan = NoChan
      /\ \A s \in AllSigs : Matches(proc[p].siga[s], usig[p][s])
      /\ usig[p]["KILL"] = "DFL" /\ usig[p]["STOP"] = "DFL"
      /\ proc[p].cursig # NoSig => usig[p][proc[p].cursig] \notin {"IGN", "HOLD"}
      /\ call[p] # "none"
  BY <1>1, TheParts, AtWork DEF InCall
<1>3. /\ y \in Slots /\ SameBasis(proc[p], y) /\ y.sig = proc[p].sig /\ y.stat = "RUN"
      /\ y.cursig = proc[p].cursig /\ y.wchan = NoChan
  BY <1>2 DEF Slots, SameBasis
<1> HIDE DEF y
<1>4. CASE /\ proc[p].ssel /\ p \notin stale
           /\ Sleep(p, [proc EXCEPT ![p] = y], SelWait, TRUE, secs)
  <2>1. OnSelect(proc[p], pc[p], p \notin stale)
    BY <1>1, <1>4 DEF OnSelect
  <2>2. /\ SelWait \in Chans \ {NoChan} /\ SelWait \notin ready /\ TRUE \in BOOLEAN
        /\ secs \in 0..MaxSecs /\ pc[p] \in InCall
    BY <1>1, TheParts, ConstantsOK DEF Chans, RestTypeOK, InCall
  <2>3. Sleep(p, [proc EXCEPT ![p] = y], SelWait, TRUE, secs)
    BY <1>4
  <2> QED  BY <1>1, <1>3, <2>1, <2>2, <2>3, SleepKeeps
<1>5. CASE /\ proc' = [proc EXCEPT ![p] = y] /\ Goto(p, "selscan")
           /\ UNCHANGED <<call, todo, timer>>
  <2>1. pc' = [pc EXCEPT ![p] = "selscan"] /\ pc \in [Procs -> PCs]
    BY <1>5, TheParts DEF Goto, RestTypeOK
  <2>2. pc'[p] = "selscan" /\ \A q \in Procs \ {p} : pc'[q] = pc[q]
    BY <2>1
  <2>3. pc' \in [Procs -> PCs]
    BY <2>1 DEF PCs
  <2>4. OthersStay(p)
    BY <1>1, <1>5, <2>2 DEF OthersStay
  <2>5. RestTypeOK'
    BY <1>1, <1>5, <2>3, TheParts DEF RestTypeOK, selVars
  <2>6. ProcOK(y, pc'[p], usig'[p], call'[p], timer'[p])
    <3>1. EntryOK(y) /\ Suits(pc'[p], y.stat)
      BY <1>3, <2>2 DEF EntryOK, Suits
    <3>2. usig' = usig /\ call' = call /\ y.siga = proc[p].siga
      BY <1>1, <1>3, <1>5 DEF SameBasis
    <3> QED  BY <1>2, <1>3, <2>2, <3>1, <3>2 DEF ProcOK
  <2>7. y.pptr = proc[p].pptr /\ StaysHeld(proc[p], y)
    BY <1>3 DEF SameBasis, StaysHeld
  <2>8. /\ pc[p] \in Working /\ pc'[p] \in Working
        /\ pc'[p] # "exiting" /\ pc'[p] # "selsleep"
    BY <1>1, <2>2 DEF Working, PCs
  <2>9. ready' \subseteq ready /\ UNCHANGED <<rsel, coll, stale>>
    BY <1>1 DEF selVars
  <2> QED  BY <1>1, <1>3, <1>5, <2>4, <2>5, <2>6, <2>7, <2>8, <2>9, QuietStep
<1> QED  BY <1>1, <1>4, <1>5

\* Goto of a process that has the CPU.
LEMMA GoneTo ==
  ASSUME RestTypeOK, NEW p \in Procs, NEW pl \in PCs, Goto(p, pl)
  PROVE  pc' \in [Procs -> PCs] /\ pc'[p] = pl /\ \A q \in Procs \ {p} : pc'[q] = pc[q]
BY DEF Goto, RestTypeOK

\* The steps to the end of the call.
LEMMA EndKeeps ==
  ASSUME IInv, NEW p \in Procs, Running(p), pc[p] \in Working \ {"exiting"},
         Goto(p, "ret"), UNCHANGED <<tabVars, call, f, timer, rsel, coll, stale, used>>,
         ready' \subseteq ready,
         todo' \in [Procs -> SUBSET Procs], \A q \in Procs \ {p} : todo'[q] = todo[q]
  PROVE  IInv' /\ HeldStep
<1>1. pc' \in [Procs -> PCs] /\ pc'[p] = "ret" /\ \A q \in Procs \ {p} : pc'[q] = pc[q]
  <2>1. "ret" \in PCs
    BY DEF PCs
  <2> QED  BY <2>1, TheParts, GoneTo
<1>2. OthersStay(p) /\ UNCHANGED <<proc, usig>>
  BY <1>1 DEF OthersStay, tabVars
<1>3. RestTypeOK'
  BY <1>1, <1>2, TheParts DEF RestTypeOK
<1>4. "ret" \in {"ret", "test", "scan", "selscan"} /\ "ret" \notin InCall
  BY DEF InCall
<1> QED  BY <1>1, <1>2, <1>3, <1>4, JustGoes

LEMMA EndsKeep ==
  ASSUME IInv, NEW p \in Procs,
         \/ SelOver(p) \/ DrainEnd(p) \/ WaitNoChild(p) \/ Trap(p)
         \/ \E e \in Streams : Take(p, e)
  PROVE  IInv' /\ HeldStep
<1>1. /\ Running(p) /\ pc[p] \in {"selsleep", "drain", "scan", "user", "test"}
      /\ Goto(p, "ret") /\ UNCHANGED <<tabVars, call, f, timer, rsel, coll, stale, used>>
      /\ ready' \subseteq ready /\ todo' = todo
  BY DEF SelOver, DrainEnd, WaitNoChild, Trap, Take, selVars
<1>2. pc[p] \in Working \ {"exiting"}
  BY <1>1 DEF Working, PCs
<1>3. todo' \in [Procs -> SUBSET Procs]
  BY <1>1, TheParts DEF RestTypeOK
<1> QED  BY <1>1, <1>2, <1>3, EndKeeps

LEMMA CallKeeps ==
  ASSUME IInv, NEW p \in Procs, NEW c \in AllCalls, Call(p, c)
  PROVE  IInv' /\ HeldStep
<1> DEFINE pl == CASE c = "wait" -> "scan" [] c = "select" -> "selscan"
                   [] OTHER -> "test"
<1>1. /\ pc[p] = "user" /\ Running(p)
      /\ call' = [call EXCEPT ![p] = c]
      /\ timer' = [timer EXCEPT ![p] = "off"]
      /\ Goto(p, pl)
      /\ todo' = [todo EXCEPT ![p] = IF c = "wait" THEN Children(p) ELSE {}]
      /\ f' = [f EXCEPT ![p] = FALSE]
      /\ UNCHANGED <<tabVars, selVars>>
      /\ used' = used \/ Use("calls", MaxCalls)
  BY DEF Call
<1>2. RestTypeOK
  BY TheParts
<1>3. used' \in [Bounded -> Nat]
  BY <1>1, <1>2 DEF RestTypeOK, Use
<1>4. pl \in {"test", "scan", "selscan"} /\ pl \in PCs
  BY DEF PCs
<1> HIDE DEF pl
<1>5. pc' \in [Procs -> PCs] /\ pc'[p] = pl /\ \A q \in Procs \ {p} : pc'[q] = pc[q]
  BY <1>1, <1>2, <1>4, GoneTo
<1>6. c # "none" /\ call'[p] = c /\ call' \in [Procs -> AllCalls \cup {"none", "drain"}]
  BY <1>1, <1>2 DEF RestTypeOK, AllCalls
<1>7. timer' \in [Procs -> {"off", "on", "out"}]
  BY <1>1, <1>2 DEF RestTypeOK
<1>8. todo' \in [Procs -> SUBSET Procs]
  BY <1>1, <1>2 DEF RestTypeOK, Children
<1>9. f' \in [Procs -> BOOLEAN]
  BY <1>1, <1>2 DEF RestTypeOK
<1>10. UNCHANGED <<proc, usig>> /\ UNCHANGED <<ready, rsel, coll, stale>>
  BY <1>1 DEF tabVars, selVars
<1>11. OthersStay(p)
  <2>1. \A q \in Procs \ {p} : call'[q] = call[q]
    BY <1>1, <1>2 DEF RestTypeOK
  <2>2. \A q \in Procs \ {p} : timer'[q] = timer[q]
    BY <1>1, <1>2 DEF RestTypeOK
  <2>3. \A q \in Procs \ {p} : todo'[q] = todo[q]
    BY <1>1, <1>2 DEF RestTypeOK
  <2> QED  BY <1>5, <1>10, <2>1, <2>2, <2>3 DEF OthersStay
<1>12. RestTypeOK'
  BY <1>2, <1>3, <1>5, <1>6, <1>7, <1>8, <1>9, <1>10 DEF RestTypeOK
<1>13. pc[p] \in Working \ {"exiting"}
  BY <1>1 DEF Working, PCs
<1>14. ready' \subseteq ready
  BY <1>10
<1> QED  BY <1>1, <1>4, <1>5, <1>6, <1>10, <1>11, <1>12, <1>13, <1>14, JustGoes

\* wait1 frees the entry of a zombie.  Nobody exits meanwhile, so the zombie
\* has no children any more.
LEMMA ZombieFreed ==
  ASSUME IInv, NEW p \in Procs, Running(p), pc[p] = "scan",
         NEW q \in Procs, proc[q].stat = "ZOMB",
         proc' = [proc EXCEPT ![q] = FreeSlot], Goto(p, "ret"),
         UNCHANGED <<usig, call, timer, selVars>>,
         OthersStay(p), RestTypeOK'
  PROVE  IInv' /\ HeldStep
<1>1. TableOK /\ RestTypeOK /\ proc \in [Procs -> Slots]
  BY TheParts
<1>2. /\ FreeSlot \in Slots /\ EntryOK(FreeSlot) /\ FreeSlot.stat = "FREE"
      /\ FreeSlot.wchan = NoChan /\ FreeSlot.sig = {} /\ FreeSlot.ssel = FALSE
      /\ FreeSlot.cursig = NoSig
  <2>1. \A s \in AllSigs : "DFL" \in Actions
    BY DEF Actions
  <2>2. [s \in AllSigs |-> "DFL"] \in [AllSigs -> Actions]
    BY <2>1
  <2>3. 0 \in 0..MaxSecs /\ NoChan \in Chans
    BY ConstantsOK DEF Chans
  <2>4. FreeSlot \in Slots
    BY <2>2, <2>3 DEF FreeSlot, Slots
  <2> QED  BY <2>4 DEF FreeSlot, EntryOK
<1>3. pc'[p] = "ret" /\ \A a \in Procs \ {p} : pc'[a] = pc[a]
  <2>1. "ret" \in PCs
    BY DEF PCs
  <2> QED  BY <1>1, <2>1, GoneTo
<1>4. /\ proc'[q] = FreeSlot /\ \A a \in Procs \ {q} : proc'[a] = proc[a]
      /\ proc' \in [Procs -> Slots]
  BY <1>1, <1>2
<1>5. proc[p].stat = "RUN" /\ q # p
  BY DEF Running
<1>6. pc[q] = "none" /\ pc'[q] = "none"
  <2>1. Suits(pc[q], proc[q].stat)
    BY <1>1 DEF TableOK, Entries, ProcOK
  <2>2. pc[q] \notin OnCPU
    BY <1>5 DEF Running
  <2>3. pc[q] = "none"
    BY <1>1, <2>1, <2>2 DEF Suits, OnCPU
  <2> QED  BY <1>3, <1>5, <2>3
<1>7. q # InitP
  BY <1>1, <1>6 DEF TableOK, Gone
<1>8. \A a \in Procs : pc'[a] # "orphaning" /\ pc[a] # "orphaning"
  BY <1>3 DEF Running, OnCPU
<1>9. Entries'
  <2>1. ProcOK(FreeSlot, pc'[q], usig'[q], call'[q], timer'[q])
    BY <1>2, <1>6 DEF ProcOK, Suits, Gone, InCall
  <2>2. ProcOK(proc[p], pc'[p], usig'[p], call'[p], timer'[p])
    <3>1. ProcOK(proc[p], pc[p], usig[p], call[p], timer[p])
      BY <1>1 DEF TableOK, Entries
    <3> QED  BY <1>3, <3>1 DEF ProcOK, Suits, Gone, InCall
  <2>3. ASSUME NEW a \in Procs \ {p, q}
        PROVE  ProcOK(proc[a], pc'[a], usig'[a], call'[a], timer'[a])
    BY <1>1, <1>3 DEF TableOK, Entries
  <2> QED  BY <1>4, <1>5, <2>1, <2>2, <2>3 DEF Entries
<1>10. OneCPU'
  BY <1>3 DEF Running, OneCPU
<1>11. ForkingIn(proc', pc')
  <2> SUFFICES ASSUME NEW b \in Procs, proc'[b].stat = "IDL"
               PROVE  LET a == proc'[b].pptr IN
                      /\ a \in Procs /\ pc'[a] = "forking" /\ proc'[b].siga = proc'[a].siga
                      /\ \A r \in Procs : proc'[r].stat = "IDL" /\ proc'[r].pptr = a => r = b
    BY DEF ForkingIn
  <2>1. b # q /\ proc[b].stat = "IDL"
    BY <1>2, <1>4
  <2>2. LET a == proc[b].pptr IN
        /\ a \in Procs /\ pc[a] = "forking" /\ proc[b].siga = proc[a].siga
        /\ \A r \in Procs : proc[r].stat = "IDL" /\ proc[r].pptr = a => r = b
    BY <1>1, <2>1 DEF TableOK, ForkingIn
  <2>3. proc[b].pptr # p /\ proc[b].pptr # q
    BY <1>6, <2>2
  <2>4. \A r \in Procs : proc'[r].stat = "IDL" => proc[r].stat = "IDL" /\ proc'[r] = proc[r]
    BY <1>2, <1>4
  <2> QED  BY <1>3, <1>4, <2>1, <2>2, <2>3, <2>4
<1>12. OrphansIn(proc', pc', todo')
  BY <1>8 DEF OrphansIn
<1>13. ParentsIn(proc', pc', todo')
  <2> SUFFICES ASSUME NEW b \in Procs \ {InitP}, proc'[b].stat # "FREE"
               PROVE  proc'[b].pptr \in Procs /\ Live(proc'[proc'[b].pptr])
    BY DEF ParentsIn
  <2>1. b # q /\ proc'[b] = proc[b]
    BY <1>2, <1>4
  <2>2. proc[b].pptr \in Procs /\ Live(proc[proc[b].pptr])
    BY <1>1, <1>8, <2>1 DEF TableOK, ParentsIn
  <2>3. proc[b].pptr # q
    BY <2>2 DEF Live
  <2> QED  BY <1>4, <2>1, <2>2, <2>3
<1>14. pc'[InitP] \notin Gone
  BY <1>1, <1>3, ConstantsOK DEF TableOK, Gone
<1>15. TableOK'
  BY <1>9, <1>10, <1>11, <1>12, <1>13, <1>14 DEF TableOK
<1>16. RememberedIn(proc', pc', ready, rsel, coll, stale)
  <2>1. RememberedIn(proc, pc, ready, rsel, coll, stale)
    BY DEF IInv
  <2>2. NoChan \notin ready /\ NoChan # SelWait
    BY <1>1, ConstantsOK DEF RestTypeOK
  <2>3. ~OnSelect(proc'[q], pc'[q], q \notin stale)
    BY <1>2, <1>4, <1>6, <2>2 DEF OnSelect
  <2>4. \A a \in Procs : OnSelect(proc'[a], pc'[a], a \notin stale) =>
                            OnSelect(proc[a], pc[a], a \notin stale)
    BY <1>3, <1>4, <2>3 DEF OnSelect
  <2>5. \A a \in Procs : proc'[a].wchan \notin ready
    BY <1>2, <1>4, <2>1, <2>2 DEF RememberedIn
  <2> QED  BY <2>1, <2>4, <2>5 DEF RememberedIn
<1>17. HeldStep
  BY <1>2, <1>4 DEF HeldStep, StaysHeld, Live
<1> QED  BY <1>15, <1>16, <1>17 DEF IInv, selVars

LEMMA WaitLookKeeps ==
  ASSUME IInv, NEW p \in Procs, NEW q \in Procs, WaitLook(p, q)
  PROVE  IInv' /\ HeldStep
<1>1. /\ pc[p] = "scan" /\ Running(p) /\ f' = [f EXCEPT ![p] = TRUE]
      /\ UNCHANGED <<usig, call, timer, selVars, used>>
  BY DEF WaitLook
<1>2. RestTypeOK /\ Table(proc) /\ proc \in [Procs -> Slots]
  BY TheParts, EntriesTable DEF TableOK
<1>3. f' \in [Procs -> BOOLEAN]
  BY <1>1, <1>2 DEF RestTypeOK
<1>4. UNCHANGED <<ready, rsel, coll, stale>>
  BY <1>1 DEF selVars
<1>5. pc[p] \in Working \ {"exiting"}
  BY <1>1 DEF Working, PCs
<1>6. ASSUME Goto(p, "ret"), todo' = [todo EXCEPT ![p] = {}]
      PROVE  pc'[p] = "ret" /\ OthersStay(p) /\ RestTypeOK'
  <2>1. pc' \in [Procs -> PCs] /\ pc'[p] = "ret" /\ \A a \in Procs \ {p} : pc'[a] = pc[a]
    <3>1. "ret" \in PCs
      BY DEF PCs
    <3> QED  BY <1>2, <1>6, <3>1, GoneTo
  <2>2. todo' \in [Procs -> SUBSET Procs] /\ \A a \in Procs \ {p} : todo'[a] = todo[a]
    BY <1>2, <1>6 DEF RestTypeOK
  <2> QED  BY <1>1, <1>2, <1>3, <1>4, <2>1, <2>2 DEF RestTypeOK, OthersStay
<1>7. CASE /\ proc[q].stat = "ZOMB"
           /\ proc' = [proc EXCEPT ![q] = FreeSlot]
           /\ Goto(p, "ret") /\ todo' = [todo EXCEPT ![p] = {}]
  <2>1. OthersStay(p) /\ RestTypeOK'
    BY <1>6, <1>7
  <2>2. UNCHANGED <<usig, call, timer, selVars>>
    BY <1>1
  <2> QED  BY <1>1, <1>7, <2>1, <2>2, ZombieFreed
<1>8. CASE /\ proc' = [proc EXCEPT ![q].swted = TRUE]
           /\ Goto(p, "ret") /\ todo' = [todo EXCEPT ![p] = {}]
  <2> DEFINE x == [proc[q] EXCEPT !.swted = TRUE]
  <2>1. proc' = [proc EXCEPT ![q] = x]
    BY <1>8
  <2>2. Touch(proc[q], x)
    <3> DEFINE r == proc[q]
    <3>1. r \in Slots /\ EntryOK(r) /\ x = [r EXCEPT !.swted = TRUE]
      BY <1>2 DEF Table
    <3> HIDE DEF r, x
    <3>2. /\ x \in Slots /\ SameBasis(r, x) /\ x.wchan = r.wchan /\ x.tsl = r.tsl
          /\ x.stat = r.stat /\ x.cursig = r.cursig /\ x.ssel = r.ssel /\ x.sig = r.sig
      BY <3>1 DEF Slots, SameBasis
    <3>3. EntryOK(x) /\ Held(r, x)
      BY <3>1, <3>2 DEF EntryOK, Held
    <3>4. Touch(r, x)
      BY <3>2, <3>3 DEF Touch
    <3> QED  BY <3>4 DEF r
  <2> HIDE DEF x
  <2>3. Touched(proc, proc')
    BY <1>2, <2>1, <2>2, OneTouched
  <2>4. pc'[p] = "ret" /\ OthersStay(p) /\ RestTypeOK'
    BY <1>6, <1>8
  <2>5. "ret" \in {"ret", "test", "scan", "selscan"} /\ "ret" \notin InCall
    BY DEF InCall
  <2>6. UNCHANGED usig /\ UNCHANGED <<rsel, coll, stale>> /\ ready' \subseteq ready
    BY <1>1, <1>4
  <2> QED  BY <1>1, <1>5, <2>3, <2>4, <2>5, <2>6, TouchGoes
<1>9. CASE todo' = [todo EXCEPT ![p] = @ \ {q}] /\ UNCHANGED <<proc, pc>>
  <2>1. todo' \in [Procs -> SUBSET Procs] /\ \A a \in Procs \ {p} : todo'[a] = todo[a]
    BY <1>2, <1>9 DEF RestTypeOK
  <2>2. OthersStay(p) /\ RestTypeOK' /\ pc'[p] = "scan"
    BY <1>1, <1>2, <1>3, <1>4, <1>9, <2>1 DEF RestTypeOK, OthersStay
  <2>3. call'[p] # "none"
    BY <1>1, TheParts, AtWork DEF InCall
  <2>4. "scan" \in {"ret", "test", "scan", "selscan"}
    OBVIOUS
  <2>5. UNCHANGED <<proc, usig>> /\ UNCHANGED <<rsel, coll, stale>> /\ ready' \subseteq ready
    BY <1>1, <1>4, <1>9
  <2> QED  BY <1>1, <1>5, <2>2, <2>3, <2>4, <2>5, JustGoes
<1> QED  BY <1>7, <1>8, <1>9 DEF WaitLook

\* The scan of select.  Whoever sleeps in select already shares the streams
\* he has registered for.
LEMMA SelScanKeeps ==
  ASSUME IInv, NEW p \in Procs, SelScan(p)
  PROVE  IInv' /\ HeldStep
<1> DEFINE y == [proc[p] EXCEPT !.ssel = TRUE]
<1>1. /\ pc[p] = "selscan" /\ Running(p) /\ stale' = stale \ {p}
      /\ proc' = [proc EXCEPT ![p] = y]
      /\ UNCHANGED <<usig, call, todo, f, timer, ready, used>>
  BY DEF SelScan
<1>2. PICK S \in SUBSET Streams, pl \in {"ret", "selsleep"} :
         /\ Register(p, S) /\ Goto(p, pl)
         /\ pl = "selsleep" => ready = {} /\ S = Streams
  BY DEF SelScan
<1>3. TableOK /\ RestTypeOK /\ proc \in [Procs -> Slots] /\ Table(proc)
  BY TheParts, EntriesTable DEF TableOK
<1>4. /\ proc[p] \in Slots /\ proc[p].stat = "RUN" /\ proc[p].wchan = NoChan
      /\ \A s \in AllSigs : Matches(proc[p].siga[s], usig[p][s])
      /\ usig[p]["KILL"] = "DFL" /\ usig[p]["STOP"] = "DFL"
      /\ proc[p].cursig # NoSig => usig[p][proc[p].cursig] \notin {"IGN", "HOLD"}
      /\ call[p] # "none"
  BY <1>1, <1>3, AtWork DEF InCall
<1>5. /\ y \in Slots /\ SameBasis(proc[p], y) /\ y.sig = proc[p].sig /\ y.stat = "RUN"
      /\ y.cursig = proc[p].cursig /\ y.wchan = NoChan /\ y.ssel = TRUE
  BY <1>4 DEF Slots, SameBasis
<1> HIDE DEF y
<1>6. pc' \in [Procs -> PCs] /\ pc'[p] = pl /\ \A q \in Procs \ {p} : pc'[q] = pc[q]
  <2>1. pl \in PCs
    BY DEF PCs
  <2> QED  BY <1>2, <1>3, <2>1, GoneTo
<1>7. /\ coll' = coll \cup Shared(S)
      /\ rsel' = [e \in Streams |-> IF e \in S \ Shared(S) THEN p ELSE rsel[e]]
  BY <1>2 DEF Register
<1>8. Shared(S) \subseteq S
  BY DEF Shared
<1>9. RestTypeOK'
  <2>1. coll' \in SUBSET Streams /\ stale' \in SUBSET Procs
    BY <1>1, <1>3, <1>7, <1>8 DEF RestTypeOK
  <2>2. rsel' \in [Streams -> Procs \cup {NoProc}]
    BY <1>3, <1>7 DEF RestTypeOK
  <2> QED  BY <1>1, <1>3, <1>6, <2>1, <2>2 DEF RestTypeOK
<1>10. ProcOK(y, pc'[p], usig'[p], call'[p], timer'[p])
  <2>1. EntryOK(y) /\ Suits(pc'[p], y.stat)
    BY <1>5, <1>6 DEF EntryOK, Suits
  <2>2. usig' = usig /\ call' = call /\ y.siga = proc[p].siga
    BY <1>1, <1>5 DEF SameBasis
  <2> QED  BY <1>4, <1>5, <1>6, <2>1, <2>2 DEF ProcOK
<1>11. Touched([proc EXCEPT ![p] = y], proc')
  <2>1. Table([proc EXCEPT ![p] = y])
    BY <1>3, <1>5, <1>10 DEF Table, ProcOK
  <2> QED  BY <1>1, <2>1, TouchedSame
<1>12. TableOK' /\ HeldStep
  <2>1. y.pptr = proc[p].pptr /\ StaysHeld(proc[p], y)
    BY <1>5 DEF SameBasis, StaysHeld
  <2>2. OthersStay(p)
    BY <1>1, <1>6 DEF OthersStay
  <2>3. pc[p] \in Working /\ pc'[p] \in Working /\ pc'[p] # "exiting"
    BY <1>1, <1>6 DEF Working, PCs
  <2> QED  BY <1>1, <1>3, <1>9, <1>10, <1>11, <2>1, <2>2, <2>3, OwnTable
<1>13. /\ proc'[p] = y /\ \A q \in Procs \ {p} : proc'[q] = proc[q]
  BY <1>1, <1>3
<1>14. RememberedIn(proc, pc, ready, rsel, coll, stale)
  BY DEF IInv
<1>15. RememberedIn(proc', pc', ready, rsel', coll', stale')
  <2>1. \A q \in Procs : proc'[q].wchan \notin ready
    BY <1>3, <1>5, <1>13, <1>14, ConstantsOK DEF RememberedIn, RestTypeOK
  <2>2. \A e \in coll' : rsel'[e] # NoProc
    <3>1. \A e \in Shared(S) : rsel[e] # NoProc
      BY DEF Shared
    <3>2. \A e \in Streams : rsel'[e] = p \/ rsel'[e] = rsel[e]
      BY <1>7
    <3>3. \A e \in coll' : e \in Streams /\ (e \in coll \/ e \in Shared(S))
      BY <1>3, <1>7, <1>8 DEF RestTypeOK
    <3> QED  BY <1>14, <3>1, <3>2, <3>3, ConstantsOK DEF RememberedIn
  <2>3. ASSUME NEW q \in Procs, OnSelect(proc'[q], pc'[q], q \notin stale')
        PROVE  ready = {} /\ \A e \in Streams : rsel'[e] = q \/ e \in coll'
    <3>1. CASE q = p
      <4>1. pl = "selsleep"
        BY <1>5, <1>6, <1>13, <2>3, <3>1, ConstantsOK DEF OnSelect
      <4>2. ready = {} /\ S = Streams
        BY <1>2, <4>1
      <4> QED  BY <1>7, <3>1, <4>2
    <3>2. CASE q # p
      <4>1. proc'[q] = proc[q] /\ pc'[q] = pc[q] /\ (q \notin stale' <=> q \notin stale)
        BY <1>1, <1>6, <1>13, <3>2
      <4>2. pc[q] # "selsleep"
        BY <1>1, <3>2 DEF Running, OnCPU
      <4>3. proc[q].wchan = SelWait
        BY <2>3, <4>1, <4>2 DEF OnSelect
      <4>4. ready = {} /\ \A e \in Streams : rsel[e] = q \/ e \in coll
        BY <1>14, <4>3 DEF RememberedIn, OnSelect
      <4>5. \A e \in S : rsel[e] = q => e \in Shared(S)
        BY <4>3, ConstantsOK DEF Shared
      <4> QED  BY <1>7, <4>4, <4>5
    <3> QED  BY <3>1, <3>2
  <2> QED  BY <2>1, <2>2, <2>3 DEF RememberedIn
<1> QED  BY <1>1, <1>12, <1>15 DEF IInv

-----------------------------------------------------------------------------
(***************************************************************************)
(* Signals at the end of a call, exit, fork, signal, kill.                 *)
(***************************************************************************)
\* exit, up to where nothing gets through any more.
LEMMA ExitBeginKeeps ==
  ASSUME IInv, NEW p \in Procs, Running(p), pc[p] \in Working,
         NEW r \in Slots, SameBasis(proc[p], r), r.stat = "RUN", r.wchan = NoChan,
         NEW n \in AllSigs \cup {NoSig, "exit"},
         ExitBegin(p, r, n), call' \in [Procs -> AllCalls \cup {"none", "drain"}],
         \A q \in Procs \ {p} : call'[q] = call[q],
         UNCHANGED <<todo, f, timer, selVars, used>>
  PROVE  IInv' /\ HeldStep
<1> DEFINE ign == [s \in AllSigs |-> "IGN"]
           x == [r EXCEPT !.siga = ign, !.code = n]
<1>1. /\ p # InitP /\ proc' = [proc EXCEPT ![p] = x]
      /\ usig' = [usig EXCEPT ![p] = ign] /\ Goto(p, "exiting")
  BY DEF ExitBegin, Doomed
<1>2. TableOK /\ RestTypeOK /\ proc \in [Procs -> Slots]
  BY TheParts
<1>3. /\ ign \in [AllSigs -> Actions] /\ ign \in [AllSigs -> Actions \cup {"DEFER"}]
      /\ \A s \in AllSigs : ign[s] = "IGN"
  BY DEF Actions
<1> HIDE DEF ign
<1>4. /\ x \in Slots /\ x.siga = ign /\ x.stat = "RUN" /\ x.wchan = NoChan
      /\ x.pptr = proc[p].pptr
  BY <1>3 DEF Slots, SameBasis
<1> HIDE DEF x
<1>5. pc' \in [Procs -> PCs] /\ pc'[p] = "exiting" /\ \A q \in Procs \ {p} : pc'[q] = pc[q]
  <2>1. "exiting" \in PCs
    BY DEF PCs
  <2> QED  BY <1>1, <1>2, <2>1, GoneTo
<1>6. /\ usig' \in [Procs -> [AllSigs -> Actions \cup {"DEFER"}]]
      /\ usig'[p] = ign /\ \A q \in Procs \ {p} : usig'[q] = usig[q]
  BY <1>1, <1>2, <1>3 DEF RestTypeOK
<1>7. ProcOK(x, pc'[p], usig'[p], call'[p], timer'[p])
  <2>1. \A s \in AllSigs : Matches(x.siga[s], usig'[p][s])
    BY <1>3, <1>4, <1>6 DEF Matches
  <2>2. Suits(pc'[p], x.stat) /\ EntryOK(x)
    BY <1>4, <1>5 DEF Suits, EntryOK
  <2> QED  BY <1>4, <1>5, <2>1, <2>2 DEF ProcOK, Gone, InCall
<1>8. StaysHeld(proc[p], x)
  <2>1. "HUP" \in AllSigs /\ "CHLD" \in AllSigs
    BY DEF AllSigs
  <2> QED  BY <1>3, <1>4, <2>1 DEF StaysHeld
<1>9. RestTypeOK' /\ OthersStay(p)
  BY <1>2, <1>5, <1>6 DEF RestTypeOK, OthersStay, selVars
<1>10. pc'[p] \in Working /\ pc'[p] # "selsleep"
  BY <1>5 DEF Working, PCs
<1>11. ready' \subseteq ready /\ UNCHANGED <<rsel, coll, stale>>
  BY DEF selVars
<1> QED  BY <1>1, <1>4, <1>7, <1>8, <1>9, <1>10, <1>11, QuietStep

LEMMA ExitKeeps ==
  ASSUME IInv, NEW p \in Procs, Exit(p)
  PROVE  IInv' /\ HeldStep
<1>1. /\ pc[p] = "user" /\ Running(p) /\ ExitBegin(p, proc[p], "exit")
      /\ UNCHANGED <<call, todo, f, timer, selVars, used>>
  BY DEF Exit
<1>2. pc[p] \in Working
  BY <1>1 DEF Working, PCs
<1>3. /\ proc[p] \in Slots /\ SameBasis(proc[p], proc[p])
      /\ proc[p].stat = "RUN" /\ proc[p].wchan = NoChan
  BY <1>1, TheParts, AtWork DEF SameBasis
<1>4. call' \in [Procs -> AllCalls \cup {"none", "drain"}]
  BY <1>1, TheParts DEF RestTypeOK
<1> QED  BY <1>1, <1>2, <1>3, <1>4, ExitBeginKeeps

\* What psig is asked to do, or that there is nothing to do.
RetLook(p) == IF pc[p] # "retstop" /\ proc[p].cursig # NoSig
              THEN [what |-> "send", r |-> proc[p]]
              ELSE IF pc[p] # "retstop" /\ proc[p].sig = {}
              THEN [what |-> "none", r |-> proc[p]]
              ELSE Look(p, proc[p])

LEMMA RetLookDoes ==
  ASSUME IInv, NEW p \in Procs, Running(p), pc[p] \in {"ret", "forked", "retstop"}
  PROVE  /\ RetLook(p).what \in {"none", "send", "stop"}
         /\ RetLook(p).r \in Slots /\ LookKeeps(proc[p], RetLook(p).r)
         /\ Held(proc[p], RetLook(p).r)
         /\ RetLook(p).what # "stop" => RetLook(p).r.stat = "RUN"
         /\ RetLook(p).what = "none" => RetLook(p).r.cursig = NoSig
         /\ RetLook(p).what = "send" =>
              /\ RetLook(p).r.cursig \in AllSigs
              /\ usig[p][RetLook(p).r.cursig] \notin {"IGN", "HOLD"}
         /\ RetLook(p).what = "stop" =>
              /\ RetLook(p).r.stat = "STOP" /\ RetLook(p).r.cursig \in StopSigs
              /\ usig[p][RetLook(p).r.cursig] = "DFL"
<1> DEFINE r == proc[p]
           o == RetLook(p)
<1>1. /\ r \in Slots /\ r.stat = "RUN" /\ usig[p]["KILL"] = "DFL"
      /\ r.cursig # NoSig => usig[p][r.cursig] \notin {"IGN", "HOLD"}
  BY TheParts, AtWork
<1>2. CASE pc[p] # "retstop" /\ r.cursig # NoSig
  <2>1. o = [what |-> "send", r |-> r]
    BY <1>2 DEF RetLook
  <2>2. r.cursig \in AllSigs
    BY <1>1, <1>2 DEF Slots
  <2>3. LookKeeps(r, r) /\ Held(r, r)
    BY DEF LookKeeps, SameBasis, Held
  <2> HIDE DEF o, r
  <2>4. o.what = "send" /\ o.r = r
    BY <2>1
  <2> QED  BY <1>1, <1>2, <2>2, <2>3, <2>4 DEF o, r
<1>3. CASE pc[p] # "retstop" /\ r.cursig = NoSig /\ r.sig = {}
  <2>1. o = [what |-> "none", r |-> r]
    BY <1>3 DEF RetLook
  <2>2. LookKeeps(r, r) /\ Held(r, r)
    BY DEF LookKeeps, SameBasis, Held
  <2> HIDE DEF o, r
  <2>3. o.what = "none" /\ o.r = r
    BY <2>1
  <2> QED  BY <1>1, <1>3, <2>2, <2>3 DEF o, r
<1>4. CASE pc[p] = "retstop" \/ (r.cursig = NoSig /\ r.sig # {})
  <2>1. o = Look(p, r)
    BY <1>4 DEF RetLook
  <2> HIDE DEF o, r
  <2>2. /\ o.what \in {"none", "send", "stop"}
        /\ o.r \in Slots /\ LookKeeps(r, o.r) /\ Held(r, o.r)
        /\ o.what # "stop" => o.r.stat = r.stat
        /\ o.what = "none" => o.r.cursig = NoSig
        /\ o.what = "send" =>
             /\ o.r.cursig \in AllSigs
             /\ \/ o.r.cursig = "KILL"
                \/ usig[p][o.r.cursig] \notin {"IGN", "HOLD"}
        /\ o.what = "stop" =>
             /\ o.r.stat = "STOP" /\ o.r.cursig \in StopSigs
             /\ usig[p][o.r.cursig] = "DFL"
    BY <1>1, <2>1, LookDoes
  <2> QED  BY <1>1, <2>2 DEF o, r
<1> QED  BY <1>2, <1>3, <1>4

LEMMA RetKeeps ==
  ASSUME IInv, NEW p \in Procs, Ret(p)
  PROVE  IInv' /\ HeldStep
<1> DEFINE o == RetLook(p)
           x == o.r
<1>1. /\ pc[p] \in {"ret", "forked", "retstop"} /\ Running(p)
      /\ \/ /\ o.what = "none"
            /\ proc' = [proc EXCEPT ![p] = o.r]
            /\ Goto(p, "user") /\ UNCHANGED usig
         \/ o.what = "send" /\ CatchSig(p, o.r)
         \/ o.what = "send" /\ DieOfSig(p, o.r)
         \/ /\ o.what = "stop"
            /\ proc' = ToldParent([proc EXCEPT ![p] = o.r], p)
            /\ Goto(p, "retstop") /\ UNCHANGED usig
      /\ call' = [call EXCEPT ![p] = "none"]
      /\ UNCHANGED <<todo, f, timer, selVars, used>>
  BY DEF Ret, RetLook
<1>2. /\ o.what \in {"none", "send", "stop"}
      /\ x \in Slots /\ LookKeeps(proc[p], x) /\ Held(proc[p], x)
      /\ o.what # "stop" => x.stat = "RUN"
      /\ o.what = "none" => x.cursig = NoSig
      /\ o.what = "send" => x.cursig \in AllSigs /\ usig[p][x.cursig] \notin {"IGN", "HOLD"}
      /\ o.what = "stop" => /\ x.stat = "STOP" /\ x.cursig \in StopSigs
                            /\ usig[p][x.cursig] = "DFL"
  BY <1>1, RetLookDoes
<1> HIDE DEF o
<1>3. TableOK /\ RestTypeOK /\ proc \in [Procs -> Slots] /\ Table(proc)
  BY TheParts, EntriesTable DEF TableOK
<1>4. /\ proc[p].wchan = NoChan
      /\ \A s \in AllSigs : Matches(proc[p].siga[s], usig[p][s])
      /\ usig[p]["KILL"] = "DFL" /\ usig[p]["STOP"] = "DFL"
  BY <1>1, <1>3, AtWork
<1>5. x.siga = proc[p].siga /\ x.pptr = proc[p].pptr /\ x.wchan = NoChan
      /\ SameBasis(proc[p], x)
  BY <1>2, <1>4 DEF LookKeeps, SameBasis
<1>6. /\ call' \in [Procs -> AllCalls \cup {"none", "drain"}]
      /\ call'[p] = "none" /\ \A q \in Procs \ {p} : call'[q] = call[q]
  BY <1>1, <1>3 DEF RestTypeOK
<1>7. pc[p] \in Working
  BY <1>1 DEF Working, PCs
<1>8. ASSUME NEW pl \in {"user", "retstop"}, Goto(p, pl)
      PROVE  /\ pc' \in [Procs -> PCs] /\ pc'[p] = pl
             /\ \A q \in Procs \ {p} : pc'[q] = pc[q]
             /\ pc'[p] \in Working /\ pc'[p] \notin {"exiting", "selsleep"} \cup InCall \cup Gone
  <2>1. pl \in PCs
    BY DEF PCs
  <2>2. /\ pc' \in [Procs -> PCs] /\ pc'[p] = pl
        /\ \A q \in Procs \ {p} : pc'[q] = pc[q]
    BY <1>3, <1>8, <2>1, GoneTo
  <2> QED  BY <2>2 DEF Working, PCs, InCall, Gone
<1>9. ready' \subseteq ready /\ UNCHANGED <<rsel, coll, stale>> /\ UNCHANGED <<f, used, ready>>
  BY <1>1 DEF selVars
<1>10. StaysHeld(proc[p], x)
  BY <1>2, <1>5 DEF StaysHeld, Held
<1>11. CASE /\ o.what = "none"
            /\ proc' = [proc EXCEPT ![p] = x]
            /\ Goto(p, "user") /\ UNCHANGED usig
  <2>1. OthersStay(p) /\ RestTypeOK'
    BY <1>1, <1>3, <1>6, <1>8, <1>9, <1>11 DEF OthersStay, RestTypeOK
  <2> HIDE DEF x
  <2>2. pc'[p] = "user"
    BY <1>8, <1>11
  <2>3. ProcOK(x, pc'[p], usig'[p], call'[p], timer'[p])
    <3>1. x.stat = "RUN" /\ x.cursig = NoSig
      BY <1>2, <1>11
    <3>2. EntryOK(x) /\ Suits(pc'[p], x.stat)
      BY <1>2, <1>5, <2>2, <3>1 DEF EntryOK, Suits
    <3> QED  BY <1>4, <1>5, <1>6, <1>11, <2>2, <3>1, <3>2 DEF ProcOK, InCall
  <2> QED
    BY <1>1, <1>2, <1>5, <1>7, <1>8, <1>9, <1>10, <1>11, <2>1, <2>2, <2>3, QuietStep
<1>12. CASE o.what = "send" /\ CatchSig(p, x)
  <2> DEFINE s == x.cursig
             u == IF usig[p][s] = "DEFER" THEN "HOLD" ELSE "DFL"
             a == IF usig[p][s] = "DEFER" THEN "HOLD" ELSE x.siga[s]
             us == [usig[p] EXCEPT ![s] = u]
             z == [x EXCEPT !.cursig = NoSig, !.siga = [x.siga EXCEPT ![s] = a]]
  <2>1. /\ usig[p][s] \in {"CATCH", "DEFER"} /\ usig' = [usig EXCEPT ![p] = us]
        /\ proc' = [proc EXCEPT ![p] = z] /\ Goto(p, "user")
    <3>1. /\ usig[p][s] \in {"CATCH", "DEFER"}
          /\ usig' = [usig EXCEPT ![p][s] = IF @ = "DEFER" THEN "HOLD" ELSE "DFL"]
          /\ proc' = [proc EXCEPT ![p] =
                       [x EXCEPT !.cursig = NoSig,
                                 !.siga[s] = IF usig[p][s] = "DEFER" THEN "HOLD" ELSE @]]
          /\ Goto(p, "user")
      BY <1>12 DEF CatchSig
    <3> HIDE DEF x
    <3>2. [usig EXCEPT ![p][s] = IF @ = "DEFER" THEN "HOLD" ELSE "DFL"] = [usig EXCEPT ![p] = us]
      OBVIOUS
    <3>3. [x EXCEPT !.cursig = NoSig,
                    !.siga[s] = IF usig[p][s] = "DEFER" THEN "HOLD" ELSE @] = z
      OBVIOUS
    <3> QED  BY <3>1, <3>2, <3>3
  <2>2. s \in AllSigs /\ s \notin {"KILL", "STOP"}
    BY <1>2, <1>4, <1>12, <2>1
  <2>3. usig[p] \in [AllSigs -> Actions \cup {"DEFER"}] /\ x.siga \in [AllSigs -> Actions]
    BY <1>2, <1>3 DEF RestTypeOK, Slots
  <2>4. a \in Actions /\ u \in Actions
    BY <2>2, <2>3 DEF Actions
  <2>5. /\ us \in [AllSigs -> Actions \cup {"DEFER"}] /\ us[s] = u
        /\ \A e \in AllSigs \ {s} : us[e] = usig[p][e]
    BY <2>2, <2>3, <2>4
  <2>6. Matches(a, u)
    <3>1. Matches(x.siga[s], usig[p][s])
      BY <1>4, <1>5, <2>2
    <3> QED  BY <2>1, <3>1 DEF Matches
  <2> HIDE DEF a, u, us
  <2> DEFINE A == [x.siga EXCEPT ![s] = a]
  <2>7. A \in [AllSigs -> Actions] /\ A[s] = a /\ \A e \in AllSigs \ {s} : A[e] = x.siga[e]
    BY <2>2, <2>3, <2>4
  <2>8. z = [x EXCEPT !.cursig = NoSig, !.siga = A]
    OBVIOUS
  <2> HIDE DEF A, z
  <2>9. /\ z \in Slots /\ z.cursig = NoSig /\ z.siga = A /\ z.stat = "RUN"
        /\ z.wchan = NoChan /\ z.pptr = proc[p].pptr /\ z.sig = x.sig
    <3>1. x \in Slots /\ x.stat = "RUN" /\ x.wchan = NoChan /\ x.pptr = proc[p].pptr
      BY <1>2, <1>5, <1>12
    <3> HIDE DEF x
    <3> QED  BY <2>7, <2>8, <3>1 DEF Slots
  <2>10. /\ usig' \in [Procs -> [AllSigs -> Actions \cup {"DEFER"}]]
         /\ usig'[p] = us /\ \A q \in Procs \ {p} : usig'[q] = usig[q]
    BY <1>3, <2>1, <2>5 DEF RestTypeOK
  <2>11. pc'[p] = "user"
    BY <1>8, <2>1
  <2>12. OthersStay(p) /\ RestTypeOK'
    BY <1>1, <1>3, <1>6, <1>8, <1>9, <2>1, <2>10 DEF OthersStay, RestTypeOK
  <2>13. ProcOK(z, pc'[p], usig'[p], call'[p], timer'[p])
    <3>1. \A e \in AllSigs : Matches(z.siga[e], us[e])
      <4>1. \A e \in AllSigs \ {s} : Matches(x.siga[e], usig[p][e])
        BY <1>4, <1>5
      <4> QED  BY <2>5, <2>6, <2>7, <2>9, <4>1
    <3>2. us["KILL"] = "DFL" /\ us["STOP"] = "DFL"
      <4>1. "KILL" \in AllSigs /\ "STOP" \in AllSigs
        BY DEF AllSigs, StopSigs
      <4> QED  BY <1>4, <2>2, <2>5, <4>1
    <3>3. EntryOK(z) /\ Suits(pc'[p], z.stat)
      BY <2>9, <2>11 DEF EntryOK, Suits
    <3> QED  BY <2>9, <2>10, <2>11, <3>1, <3>2, <3>3 DEF ProcOK, InCall
  <2>14. StaysHeld(proc[p], z)
    <3>1. "HUP" \in AllSigs /\ "CHLD" \in AllSigs
      BY DEF AllSigs
    <3> QED  BY <1>2, <2>9, <3>1 DEF StaysHeld, Held
  <2> QED
    BY <1>1, <1>7, <1>8, <1>9, <2>1, <2>9, <2>11, <2>12, <2>13, <2>14, QuietStep
<1>13. CASE o.what = "send" /\ DieOfSig(p, x)
  <2>1. ExitBegin(p, x, x.cursig) /\ x.stat = "RUN" /\ x.cursig \in AllSigs
    BY <1>2, <1>13 DEF DieOfSig
  <2>2. UNCHANGED <<todo, f, timer, selVars, used>>
    BY <1>1
  <2> HIDE DEF x
  <2> QED  BY <1>1, <1>2, <1>5, <1>6, <1>7, <2>1, <2>2, ExitBeginKeeps
<1>14. CASE /\ o.what = "stop"
            /\ proc' = ToldParent([proc EXCEPT ![p] = x], p)
            /\ Goto(p, "retstop") /\ UNCHANGED usig
  <2> HIDE DEF x
  <2>1. OthersStay(p) /\ RestTypeOK'
    BY <1>1, <1>3, <1>6, <1>8, <1>9, <1>14 DEF OthersStay, RestTypeOK
  <2>2. pc'[p] = "retstop"
    BY <1>8, <1>14
  <2>3. x.stat = "STOP" /\ x.cursig \in StopSigs /\ usig[p][x.cursig] = "DFL"
    BY <1>2, <1>14
  <2>4. ProcOK(x, pc'[p], usig'[p], call'[p], timer'[p])
    <3>1. EntryOK(x) /\ Suits(pc'[p], x.stat)
      BY <1>2, <1>5, <2>2, <2>3 DEF EntryOK, Suits
    <3> QED  BY <1>4, <1>5, <1>14, <2>2, <2>3, <3>1 DEF ProcOK, InCall
  <2>5. Touched([proc EXCEPT ![p] = x], proc')
    <3>1. Table([proc EXCEPT ![p] = x])
      BY <1>2, <1>3, <2>4 DEF Table, ProcOK
    <3> QED  BY <1>14, <3>1, ToldParentTouches
  <2>6. TableOK' /\ HeldStep
    BY <1>1, <1>3, <1>5, <1>7, <1>8, <1>10, <1>14, <2>1, <2>2, <2>4, <2>5, OwnTable
  <2>7. RememberedIn(proc, pc, ready, rsel, coll, stale)'
    <3>1. x.wchan \notin ready /\ ~OnSelect(x, pc'[p], p \notin stale)
      BY <1>3, <1>5, <2>2, ConstantsOK DEF RestTypeOK, OnSelect
    <3>2. \A q \in Procs \ {p} : pc'[q] = pc[q]
      BY <2>1 DEF OthersStay
    <3> QED  BY <1>9, <2>5, <3>1, <3>2, OwnEvents
  <2> QED  BY <2>6, <2>7 DEF IInv
<1> QED  BY <1>1, <1>11, <1>12, <1>13, <1>14

\* A bound is used up a little more.
LEMMA UseType ==
  ASSUME RestTypeOK, NEW x \in Bounded, NEW max, Use(x, max)
  PROVE  used' \in [Bounded -> Nat]
BY DEF Use, RestTypeOK

LEMMA SsigKeeps ==
  ASSUME IInv, NEW p \in Procs, NEW s \in AllSigs \ {"KILL", "STOP"},
         NEW a \in Actions \cup {"DEFER"}, Ssig(p, s, a)
  PROVE  IInv' /\ HeldStep
<1> DEFINE r == proc[p]
           b == IF a = "DEFER" THEN "CATCH" ELSE a
           S == IF usig[p][s] = "IGN" THEN r.sig \ {s} ELSE r.sig
           A == [r.siga EXCEPT ![s] = b]
           us == [usig[p] EXCEPT ![s] = a]
           x == [r EXCEPT !.sig = S, !.siga = A]
<1>1. /\ pc[p] = "user" /\ Running(p) /\ p # InitP
      /\ Use("sets", MaxSets) /\ Goto(p, "ret")
      /\ UNCHANGED <<call, todo, f, timer, selVars>>
  BY DEF Ssig
<1>2. usig' = [usig EXCEPT ![p] = us] /\ proc' = [proc EXCEPT ![p] = x]
  <2>1. /\ usig' = [usig EXCEPT ![p][s] = a]
        /\ proc' = [proc EXCEPT
                      ![p].sig = IF usig[p][s] = "IGN" THEN @ \ {s} ELSE @,
                      ![p].siga[s] = IF a = "DEFER" THEN "CATCH" ELSE a]
    BY DEF Ssig
  <2>2. proc \in [Procs -> Slots]
    BY TheParts
  <2> DEFINE t == [proc EXCEPT ![p] = [r EXCEPT !.sig = S]]
  <2>3. proc' = [t EXCEPT ![p].siga[s] = b]
    BY <2>1, <2>2
  <2>4. t[p] = [r EXCEPT !.sig = S]
    BY <2>2
  <2>5. t[p].siga = r.siga
    BY <2>2, <2>4 DEF Slots
  <2>6. proc' = [t EXCEPT ![p] = [[r EXCEPT !.sig = S] EXCEPT !.siga = A]]
    <3> HIDE DEF S, b
    <3>1. [t EXCEPT ![p].siga[s] = b] = [t EXCEPT ![p] = [t[p] EXCEPT !.siga = [t[p].siga EXCEPT ![s] = b]]]
      BY <2>4
    <3> QED  BY <2>3, <2>4, <2>5, <3>1
  <2>7. [[r EXCEPT !.sig = S] EXCEPT !.siga = A] = x
    OBVIOUS
  <2> HIDE DEF S, A, b, x
  <2> QED  BY <2>1, <2>6, <2>7 DEF us
<1>3. TableOK /\ RestTypeOK /\ proc \in [Procs -> Slots]
  BY TheParts
<1>4. /\ r \in Slots /\ EntryOK(r) /\ r.stat = "RUN" /\ r.wchan = NoChan
      /\ \A e \in AllSigs : Matches(r.siga[e], usig[p][e])
      /\ usig[p]["KILL"] = "DFL" /\ usig[p]["STOP"] = "DFL" /\ r.cursig = NoSig
  BY <1>1, <1>3, AtWork
<1>5. /\ r.siga \in [AllSigs -> Actions] /\ r.sig \in SUBSET AllSigs
      /\ usig[p] \in [AllSigs -> Actions \cup {"DEFER"}]
  BY <1>3, <1>4 DEF Slots, RestTypeOK
<1>6. b \in Actions /\ S \in SUBSET AllSigs /\ Matches(b, a)
  BY <1>5 DEF Actions, Matches
<1>7. \A e \in {"HUP", "CHLD"} : e \in r.sig /\ r.siga[e] = "HOLD" => e \in S
  BY <1>4, <1>5 DEF Matches
<1> HIDE DEF b, S
<1>8. /\ A \in [AllSigs -> Actions] /\ A[s] = b
      /\ \A e \in AllSigs \ {s} : A[e] = r.siga[e]
  BY <1>5, <1>6
<1>9. /\ us \in [AllSigs -> Actions \cup {"DEFER"}] /\ us[s] = a
      /\ \A e \in AllSigs \ {s} : us[e] = usig[p][e]
  BY <1>5
<1> HIDE DEF A, us
<1>10. /\ x \in Slots /\ x.sig = S /\ x.siga = A /\ x.stat = "RUN" /\ x.wchan = NoChan
       /\ x.cursig = NoSig /\ x.pptr = r.pptr
  BY <1>4, <1>6, <1>8 DEF Slots
<1> HIDE DEF x
<1>11. /\ usig' \in [Procs -> [AllSigs -> Actions \cup {"DEFER"}]]
       /\ usig'[p] = us /\ \A q \in Procs \ {p} : usig'[q] = usig[q]
  BY <1>2, <1>3, <1>9 DEF RestTypeOK
<1>12. pc' \in [Procs -> PCs] /\ pc'[p] = "ret" /\ \A q \in Procs \ {p} : pc'[q] = pc[q]
  <2>1. "ret" \in PCs
    BY DEF PCs
  <2> QED  BY <1>1, <1>3, <2>1, GoneTo
<1>13. used' \in [Bounded -> Nat]
  BY <1>1, <1>3, UseType DEF Bounded
<1>14. RestTypeOK' /\ OthersStay(p)
  BY <1>1, <1>3, <1>11, <1>12, <1>13 DEF RestTypeOK, OthersStay, selVars
<1>15. ProcOK(x, pc'[p], usig'[p], call'[p], timer'[p])
  <2>1. \A e \in AllSigs : Matches(x.siga[e], us[e])
    BY <1>4, <1>6, <1>8, <1>9, <1>10
  <2>2. us["KILL"] = "DFL" /\ us["STOP"] = "DFL"
    <3>1. "KILL" \in AllSigs /\ "STOP" \in AllSigs
      BY DEF AllSigs, StopSigs
    <3> QED  BY <1>4, <1>9, <3>1
  <2>3. EntryOK(x) /\ Suits(pc'[p], x.stat)
    BY <1>10, <1>12 DEF EntryOK, Suits
  <2> QED  BY <1>10, <1>11, <1>12, <2>1, <2>2, <2>3 DEF ProcOK, InCall
<1>16. StaysHeld(r, x)
  BY <1>7, <1>10 DEF StaysHeld
<1>17. pc[p] \in Working /\ pc'[p] \in Working /\ pc'[p] \notin {"exiting", "selsleep"}
  BY <1>1, <1>12 DEF Working, PCs
<1>18. ready' \subseteq ready /\ UNCHANGED <<rsel, coll, stale>>
  BY <1>1 DEF selVars
<1> QED
  BY <1>1, <1>2, <1>10, <1>14, <1>15, <1>16, <1>17, <1>18, QuietStep

LEMMA KillKeeps ==
  ASSUME IInv, NEW p \in Procs, NEW q \in Procs, NEW s \in Sigs, Kill(p, q, s)
  PROVE  IInv' /\ HeldStep
<1>1. /\ pc[p] = "user" /\ Running(p) /\ Use("kills", MaxKills)
      /\ proc' = Psignal(proc, q, s) /\ Goto(p, "ret")
      /\ UNCHANGED <<usig, call, todo, f, timer, selVars>>
  BY DEF Kill
<1>2. TableOK /\ RestTypeOK /\ Table(proc) /\ s \in AllSigs
  BY TheParts, EntriesTable, ConstantsOK DEF TableOK
<1>3. Touched(proc, proc')
  BY <1>1, <1>2, PsignalTouches
<1>4. pc' \in [Procs -> PCs] /\ pc'[p] = "ret" /\ \A a \in Procs \ {p} : pc'[a] = pc[a]
  <2>1. "ret" \in PCs
    BY DEF PCs
  <2> QED  BY <1>1, <1>2, <2>1, GoneTo
<1>5. used' \in [Bounded -> Nat]
  BY <1>1, <1>2, UseType DEF Bounded
<1>6. RestTypeOK' /\ OthersStay(p)
  BY <1>1, <1>2, <1>4, <1>5 DEF RestTypeOK, OthersStay, selVars
<1>7. pc[p] \in Working \ {"exiting"} /\ "ret" \notin InCall
  BY <1>1 DEF Working, PCs, InCall
<1>8. UNCHANGED <<usig, ready, rsel, coll, stale>>
  BY <1>1 DEF selVars
<1> QED  BY <1>1, <1>3, <1>4, <1>6, <1>7, <1>8, TouchGoes

\* newproc takes an entry.
LEMMA ForkKeeps ==
  ASSUME IInv, NEW p \in Procs, NEW q \in Procs, Fork(p, q)
  PROVE  IInv' /\ HeldStep
<1> DEFINE z == [FreeSlot EXCEPT !.stat = "IDL", !.pptr = p, !.siga = proc[p].siga]
<1>1. /\ pc[p] = "user" /\ Running(p) /\ p # InitP /\ proc[q].stat = "FREE"
      /\ Use("forks", MaxForks) /\ Goto(p, "forking")
      /\ proc' = [proc EXCEPT ![q] = z]
      /\ UNCHANGED <<usig, call, todo, f, timer, selVars>>
  BY DEF Fork
<1>2. TableOK /\ RestTypeOK /\ proc \in [Procs -> Slots]
  BY TheParts
<1>3. /\ z \in Slots /\ EntryOK(z) /\ z.stat = "IDL" /\ z.pptr = p /\ z.siga = proc[p].siga
      /\ z.wchan = NoChan /\ z.sig = {} /\ z.ssel = FALSE /\ z.cursig = NoSig
  <2>1. proc[p].siga \in [AllSigs -> Actions]
    BY <1>2 DEF Slots
  <2>2. 0 \in 0..MaxSecs /\ NoChan \in Chans
    BY ConstantsOK DEF Chans
  <2>3. /\ z.stat = "IDL" /\ z.pptr = p /\ z.siga = proc[p].siga
        /\ z.wchan = NoChan /\ z.sig = {} /\ z.ssel = FALSE /\ z.cursig = NoSig
    BY DEF FreeSlot
  <2>4. z \in Slots
    BY <2>1, <2>2 DEF FreeSlot, Slots
  <2> HIDE DEF z
  <2> QED  BY <2>3, <2>4 DEF EntryOK
<1> HIDE DEF z
<1>4. /\ pc' \in [Procs -> PCs] /\ pc'[p] = "forking"
      /\ \A a \in Procs \ {p} : pc'[a] = pc[a]
  <2>1. "forking" \in PCs
    BY DEF PCs
  <2> QED  BY <1>1, <1>2, <2>1, GoneTo
<1>5. /\ proc'[q] = z /\ \A a \in Procs \ {q} : proc'[a] = proc[a]
      /\ proc' \in [Procs -> Slots]
  BY <1>1, <1>2, <1>3
<1>6. proc[p].stat = "RUN" /\ q # p
  BY <1>1 DEF Running
<1>7. pc[q] = "none" /\ pc'[q] = "none"
  <2>1. Suits(pc[q], proc[q].stat)
    BY <1>2 DEF TableOK, Entries, ProcOK
  <2> QED  BY <1>1, <1>4, <1>6, <2>1 DEF Suits
<1>8. \A a \in Procs : pc'[a] # "orphaning" /\ pc[a] # "orphaning"
  BY <1>1, <1>4 DEF Running, OnCPU
<1>9. RestTypeOK'
  <2>1. used' \in [Bounded -> Nat]
    BY <1>1, <1>2, UseType DEF Bounded
  <2> QED  BY <1>1, <1>2, <1>4, <2>1 DEF RestTypeOK, selVars
<1>10. Entries'
  <2>1. ProcOK(z, pc'[q], usig'[q], call'[q], timer'[q])
    BY <1>3, <1>7 DEF ProcOK, Suits, Gone, InCall
  <2>2. ProcOK(proc[p], pc'[p], usig'[p], call'[p], timer'[p])
    <3>1. ProcOK(proc[p], pc[p], usig[p], call[p], timer[p])
      BY <1>2 DEF TableOK, Entries
    <3> QED  BY <1>1, <1>4, <3>1 DEF ProcOK, Suits, Gone, InCall
  <2>3. ASSUME NEW a \in Procs \ {p, q}
        PROVE  ProcOK(proc[a], pc'[a], usig'[a], call'[a], timer'[a])
    BY <1>1, <1>2, <1>4 DEF TableOK, Entries
  <2> QED  BY <1>5, <1>6, <2>1, <2>2, <2>3 DEF Entries
<1>11. OneCPU'
  BY <1>1, <1>4 DEF Running, OneCPU, OnCPU
<1>12. ForkingIn(proc', pc')
  <2> SUFFICES ASSUME NEW b \in Procs, proc'[b].stat = "IDL"
               PROVE  LET a == proc'[b].pptr IN
                      /\ a \in Procs /\ pc'[a] = "forking" /\ proc'[b].siga = proc'[a].siga
                      /\ \A r \in Procs : proc'[r].stat = "IDL" /\ proc'[r].pptr = a => r = b
    BY DEF ForkingIn
  <2>1. ASSUME NEW r \in Procs, proc[r].stat = "IDL"
        PROVE  LET a == proc[r].pptr IN
               /\ a \in Procs \ {p, q} /\ pc[a] = "forking" /\ proc[r].siga = proc[a].siga
               /\ \A c \in Procs : proc[c].stat = "IDL" /\ proc[c].pptr = a => c = r
    BY <1>1, <1>2, <1>7, <2>1 DEF TableOK, ForkingIn
  <2>2. CASE b = q
    BY <1>3, <1>4, <1>5, <1>6, <2>1, <2>2
  <2>3. CASE b # q
    BY <1>3, <1>4, <1>5, <2>1, <2>3
  <2> QED  BY <2>2, <2>3
<1>13. OrphansIn(proc', pc', todo')
  BY <1>8 DEF OrphansIn
<1>14. ParentsIn(proc', pc', todo')
  <2> SUFFICES ASSUME NEW b \in Procs \ {InitP}, proc'[b].stat # "FREE"
               PROVE  proc'[b].pptr \in Procs /\ Live(proc'[proc'[b].pptr])
    BY DEF ParentsIn
  <2>1. CASE b = q
    BY <1>3, <1>5, <1>6, <2>1 DEF Live
  <2>2. CASE b # q
    <3>1. proc[b].pptr \in Procs /\ Live(proc[proc[b].pptr])
      BY <1>2, <1>5, <1>8, <2>2 DEF TableOK, ParentsIn
    <3>2. proc[b].pptr # q
      BY <1>1, <3>1 DEF Live
    <3> QED  BY <1>5, <2>2, <3>1, <3>2
  <2> QED  BY <2>1, <2>2
<1>15. pc'[InitP] \notin Gone
  BY <1>1, <1>2, <1>4, ConstantsOK DEF TableOK
<1>16. RememberedIn(proc', pc', ready, rsel, coll, stale)
  <2>1. RememberedIn(proc, pc, ready, rsel, coll, stale)
    BY DEF IInv
  <2>2. NoChan \notin ready /\ NoChan # SelWait
    BY <1>2, ConstantsOK DEF RestTypeOK
  <2>3. ~OnSelect(proc'[q], pc'[q], q \notin stale)
    BY <1>3, <1>5, <1>7, <2>2 DEF OnSelect
  <2>4. \A a \in Procs : OnSelect(proc'[a], pc'[a], a \notin stale) =>
                            OnSelect(proc[a], pc[a], a \notin stale)
    BY <1>4, <1>5, <2>3 DEF OnSelect
  <2>5. \A a \in Procs : proc'[a].wchan \notin ready
    BY <1>3, <1>5, <2>1, <2>2 DEF RememberedIn
  <2> QED  BY <2>1, <2>4, <2>5 DEF RememberedIn
<1>17. HeldStep
  <2>1. proc[q].sig = {}
    BY <1>1, <1>2 DEF TableOK, Entries, ProcOK
  <2> QED  BY <1>5, <2>1 DEF HeldStep, StaysHeld
<1>18. TableOK'
  BY <1>9, <1>10, <1>11, <1>12, <1>13, <1>14, <1>15 DEF TableOK
<1>19. UNCHANGED <<ready, rsel, coll, stale>>
  BY <1>1 DEF selVars
<1> QED  BY <1>16, <1>17, <1>18, <1>19 DEF IInv

\* The child runs.
LEMMA ForkEndKeeps ==
  ASSUME IInv, NEW p \in Procs, NEW q \in Procs, ForkEnd(p, q)
  PROVE  IInv' /\ HeldStep
<1> DEFINE z == [proc[q] EXCEPT !.stat = "RUN"]
<1>1. /\ pc[p] = "forking" /\ Running(p)
      /\ proc[q].stat = "IDL" /\ proc[q].pptr = p
      /\ proc' = [proc EXCEPT ![q] = z]
      /\ usig' = [usig EXCEPT ![q] = usig[p]]
      /\ pc' = [pc EXCEPT ![p] = "ret", ![q] = "forked"]
      /\ timer' = [timer EXCEPT ![q] = "off"]
      /\ UNCHANGED <<call, todo, f, selVars, used>>
  BY DEF ForkEnd
<1>2. TableOK /\ RestTypeOK /\ proc \in [Procs -> Slots]
  BY TheParts
<1>3. proc[p].stat = "RUN" /\ q # p
  BY <1>1 DEF Running
<1>4. ProcOK(proc[p], pc[p], usig[p], call[p], timer[p]) /\
      ProcOK(proc[q], pc[q], usig[q], call[q], timer[q])
  BY <1>2 DEF TableOK, Entries
<1>5. pc[q] = "none"
  BY <1>1, <1>4 DEF Suits, ProcOK
<1>6. /\ proc[q].wchan = NoChan /\ proc[q].cursig = NoSig /\ proc[q].siga = proc[p].siga
      /\ \A b \in Procs : proc[b].stat = "IDL" /\ proc[b].pptr = p => b = q
  <2>1. proc[q].wchan = NoChan /\ proc[q].cursig = NoSig
    BY <1>1, <1>4 DEF ProcOK, EntryOK
  <2> QED  BY <1>1, <1>2, <2>1 DEF TableOK, ForkingIn
<1>7. /\ z \in Slots /\ z.stat = "RUN" /\ z.wchan = NoChan /\ z.cursig = NoSig
      /\ z.siga = proc[p].siga /\ z.pptr = p /\ z.sig = proc[q].sig
      /\ z.ssel = proc[q].ssel
  BY <1>1, <1>2, <1>6 DEF Slots
<1> HIDE DEF z
<1>8. /\ pc' \in [Procs -> PCs] /\ pc'[p] = "ret" /\ pc'[q] = "forked"
      /\ \A a \in Procs \ {p, q} : pc'[a] = pc[a]
  BY <1>1, <1>2, <1>3 DEF RestTypeOK, PCs
<1>9. /\ proc'[q] = z /\ \A a \in Procs \ {q} : proc'[a] = proc[a]
      /\ proc' \in [Procs -> Slots]
  BY <1>1, <1>2, <1>7
<1>10. /\ usig' \in [Procs -> [AllSigs -> Actions \cup {"DEFER"}]]
       /\ usig'[q] = usig[p] /\ \A a \in Procs \ {q} : usig'[a] = usig[a]
  BY <1>1, <1>2 DEF RestTypeOK
<1>11. /\ timer' \in [Procs -> {"off", "on", "out"}]
       /\ \A a \in Procs \ {q} : timer'[a] = timer[a]
  BY <1>1, <1>2 DEF RestTypeOK
<1>12. RestTypeOK'
  BY <1>1, <1>2, <1>8, <1>10, <1>11 DEF RestTypeOK, selVars
<1>13. \A a \in Procs : pc'[a] # "orphaning" /\ pc[a] # "orphaning"
  BY <1>1, <1>8 DEF Running, OnCPU
<1>14. Entries'
  <2>1. ProcOK(z, pc'[q], usig'[q], call'[q], timer'[q])
    <3>1. /\ \A s \in AllSigs : Matches(z.siga[s], usig[p][s])
          /\ usig[p]["KILL"] = "DFL" /\ usig[p]["STOP"] = "DFL"
      BY <1>1, <1>4, <1>7 DEF ProcOK, Gone
    <3>2. EntryOK(z) /\ Suits(pc'[q], z.stat)
      BY <1>7, <1>8 DEF EntryOK, Suits
    <3> QED  BY <1>7, <1>8, <1>10, <3>1, <3>2 DEF ProcOK, InCall
  <2>2. ProcOK(proc[p], pc'[p], usig'[p], call'[p], timer'[p])
    BY <1>1, <1>3, <1>4, <1>8, <1>10, <1>11 DEF ProcOK, Suits, Gone, InCall
  <2>3. ASSUME NEW a \in Procs \ {p, q}
        PROVE  ProcOK(proc[a], pc'[a], usig'[a], call'[a], timer'[a])
    BY <1>1, <1>2, <1>8, <1>10, <1>11 DEF TableOK, Entries
  <2> QED  BY <1>3, <1>9, <2>1, <2>2, <2>3 DEF Entries
<1>15. OneCPU'
  BY <1>1, <1>8 DEF Running, OneCPU, OnCPU
<1>16. ForkingIn(proc', pc')
  <2> SUFFICES ASSUME NEW b \in Procs, proc'[b].stat = "IDL"
               PROVE  LET a == proc'[b].pptr IN
                      /\ a \in Procs /\ pc'[a] = "forking" /\ proc'[b].siga = proc'[a].siga
                      /\ \A r \in Procs : proc'[r].stat = "IDL" /\ proc'[r].pptr = a => r = b
    BY DEF ForkingIn
  <2>1. b # q /\ proc[b].stat = "IDL"
    BY <1>7, <1>9
  <2>2. LET a == proc[b].pptr IN
        /\ a \in Procs /\ pc[a] = "forking" /\ proc[b].siga = proc[a].siga
        /\ \A r \in Procs : proc[r].stat = "IDL" /\ proc[r].pptr = a => r = b
    BY <1>2, <2>1 DEF TableOK, ForkingIn
  <2>3. proc[b].pptr # p /\ proc[b].pptr # q
    BY <1>5, <1>6, <2>1, <2>2
  <2>4. \A r \in Procs : proc'[r].stat = "IDL" => proc[r].stat = "IDL" /\ proc'[r] = proc[r]
    BY <1>7, <1>9
  <2> QED  BY <1>8, <1>9, <2>1, <2>2, <2>3, <2>4
<1>17. OrphansIn(proc', pc', todo')
  BY <1>13 DEF OrphansIn
<1>18. ParentsIn(proc', pc', todo')
  <2> SUFFICES ASSUME NEW b \in Procs \ {InitP}, proc'[b].stat # "FREE"
               PROVE  proc'[b].pptr \in Procs /\ Live(proc'[proc'[b].pptr])
    BY DEF ParentsIn
  <2>1. proc[b].stat # "FREE" /\ proc'[b].pptr = proc[b].pptr
    BY <1>1, <1>7, <1>9
  <2>2. proc[b].pptr \in Procs /\ Live(proc[proc[b].pptr])
    BY <1>2, <1>13, <2>1 DEF TableOK, ParentsIn
  <2> QED  BY <1>7, <1>9, <2>1, <2>2 DEF Live
<1>19. pc'[InitP] \notin Gone
  BY <1>2, <1>8, <1>5, ConstantsOK DEF TableOK, Gone
<1>20. RememberedIn(proc', pc', ready, rsel, coll, stale)
  <2>1. RememberedIn(proc, pc, ready, rsel, coll, stale)
    BY DEF IInv
  <2>2. \A a \in Procs : proc'[a].wchan = proc[a].wchan
    BY <1>6, <1>7, <1>9
  <2>3. \A a \in Procs : OnSelect(proc'[a], pc'[a], a \notin stale) =>
                            OnSelect(proc[a], pc[a], a \notin stale)
    BY <1>8, <1>9, <2>2 DEF OnSelect
  <2> QED  BY <2>1, <2>2, <2>3 DEF RememberedIn
<1>21. HeldStep
  BY <1>7, <1>9 DEF HeldStep, StaysHeld
<1>22. TableOK'
  BY <1>12, <1>14, <1>15, <1>16, <1>17, <1>18, <1>19 DEF TableOK
<1>23. UNCHANGED <<ready, rsel, coll, stale>>
  BY <1>1 DEF selVars
<1> QED  BY <1>20, <1>21, <1>22, <1>23 DEF IInv

\* exit becomes a zombie, and then looks for its children.
LEMMA ExitZombKeeps ==
  ASSUME IInv, NEW p \in Procs, ExitZomb(p)
  PROVE  IInv' /\ HeldStep
<1> DEFINE x == [proc[p] EXCEPT !.stat = "ZOMB"]
<1>1. /\ pc[p] = "exiting" /\ Running(p) /\ Goto(p, "orphaning")
      /\ proc' = [proc EXCEPT ![p] = x]
      /\ todo' = [todo EXCEPT ![p] = Children(p)]
      /\ UNCHANGED <<usig, call, f, timer, selVars, used>>
  BY DEF ExitZomb
<1>2. TableOK /\ RestTypeOK /\ proc \in [Procs -> Slots]
  BY TheParts
<1>3. proc[p].stat = "RUN" /\ proc[p].wchan = NoChan
  BY <1>1, <1>2, AtWork
<1>4. /\ x \in Slots /\ EntryOK(x) /\ x.stat = "ZOMB" /\ x.wchan = NoChan
      /\ x.sig = proc[p].sig /\ x.pptr = proc[p].pptr
  <2>1. /\ x \in Slots /\ x.stat = "ZOMB" /\ x.wchan = NoChan
        /\ x.sig = proc[p].sig /\ x.pptr = proc[p].pptr
    BY <1>2, <1>3 DEF Slots
  <2> HIDE DEF x
  <2> QED  BY <2>1 DEF EntryOK
<1> HIDE DEF x
<1>5. /\ pc' \in [Procs -> PCs] /\ pc'[p] = "orphaning"
      /\ \A a \in Procs \ {p} : pc'[a] = pc[a]
  <2>1. "orphaning" \in PCs
    BY DEF PCs
  <2> QED  BY <1>1, <1>2, <2>1, GoneTo
<1>6. /\ proc'[p] = x /\ \A a \in Procs \ {p} : proc'[a] = proc[a]
      /\ proc' \in [Procs -> Slots]
  BY <1>1, <1>2, <1>4
<1>7. p # InitP
  BY <1>1, <1>2 DEF TableOK, Gone
<1>8. /\ todo' \in [Procs -> SUBSET Procs] /\ todo'[p] = Children(p)
      /\ \A a \in Procs \ {p} : todo'[a] = todo[a]
  BY <1>1, <1>2 DEF RestTypeOK, Children
<1>9. \A a \in Procs : pc[a] # "orphaning"
  BY <1>1 DEF Running, OnCPU
<1>10. RestTypeOK'
  BY <1>1, <1>2, <1>5, <1>8 DEF RestTypeOK, selVars
<1>11. Entries'
  <2>1. ProcOK(x, pc'[p], usig'[p], call'[p], timer'[p])
    BY <1>4, <1>5 DEF ProcOK, Suits, Gone, InCall
  <2>2. ASSUME NEW a \in Procs \ {p}
        PROVE  ProcOK(proc[a], pc'[a], usig'[a], call'[a], timer'[a])
    BY <1>1, <1>2, <1>5 DEF TableOK, Entries
  <2> QED  BY <1>6, <2>1, <2>2 DEF Entries
<1>12. OneCPU'
  BY <1>1, <1>5 DEF Running, OneCPU
<1>13. ForkingIn(proc', pc')
  BY <1>1, <1>2, <1>4, <1>5, <1>6 DEF TableOK, ForkingIn
<1>14. OrphansIn(proc', pc', todo')
  <2> SUFFICES ASSUME NEW a \in Procs, NEW b \in todo'[a], pc'[a] = "orphaning"
               PROVE  proc'[b].pptr = a /\ proc'[b].stat # "FREE"
    BY <1>8 DEF OrphansIn
  <2>1. a = p /\ b \in Children(p)
    BY <1>5, <1>8, <1>9
  <2> QED  BY <1>4, <1>6, <2>1 DEF Children
<1>15. ParentsIn(proc', pc', todo')
  <2> SUFFICES ASSUME NEW b \in Procs \ {InitP}, proc'[b].stat # "FREE"
               PROVE  LET a == proc'[b].pptr IN
                      a \in Procs /\ (Live(proc'[a]) \/ (pc'[a] = "orphaning" /\ b \in todo'[a]))
    BY DEF ParentsIn
  <2>1. proc[b].stat # "FREE" /\ proc'[b].pptr = proc[b].pptr
    BY <1>3, <1>4, <1>6
  <2>2. proc[b].pptr \in Procs /\ Live(proc[proc[b].pptr])
    BY <1>2, <1>9, <2>1 DEF TableOK, ParentsIn
  <2>3. CASE proc[b].pptr = p
    BY <1>5, <1>8, <2>1, <2>3 DEF Children
  <2>4. CASE proc[b].pptr # p
    BY <1>6, <2>1, <2>2, <2>4
  <2> QED  BY <2>3, <2>4
<1>16. pc'[InitP] \notin Gone
  BY <1>2, <1>5, <1>7, ConstantsOK DEF TableOK
<1>17. RememberedIn(proc', pc', ready, rsel, coll, stale)
  <2>1. RememberedIn(proc, pc, ready, rsel, coll, stale)
    BY DEF IInv
  <2>2. \A a \in Procs : proc'[a].wchan = proc[a].wchan
    BY <1>3, <1>4, <1>6
  <2>3. \A a \in Procs : OnSelect(proc'[a], pc'[a], a \notin stale) =>
                            OnSelect(proc[a], pc[a], a \notin stale)
    BY <1>5, <1>6, <2>2 DEF OnSelect
  <2> QED  BY <2>1, <2>2, <2>3 DEF RememberedIn
<1>18. HeldStep
  BY <1>4, <1>6 DEF HeldStep, StaysHeld
<1>19. TableOK'
  BY <1>10, <1>11, <1>12, <1>13, <1>14, <1>15, <1>16 DEF TableOK
<1>20. UNCHANGED <<ready, rsel, coll, stale>>
  BY <1>1 DEF selVars
<1> QED  BY <1>17, <1>18, <1>19, <1>20 DEF IInv

\* What an interrupt, or exit of somebody else, may do to all.
LEMMA TouchedKeeps ==
  ASSUME IInv, Touched(proc, proc'), RestTypeOK',
         UNCHANGED <<usig, pc, call, todo, timer, ready, rsel, coll, stale>>
  PROVE  IInv' /\ HeldStep
<1>1. TableOK /\ RestTypeOK /\ RememberedIn(proc, pc, ready, rsel, coll, stale)
  BY TheParts DEF IInv
<1>2. TableOK'
  <2>1. \A q \in Procs : ProcOK(proc[q], pc'[q], usig'[q], call'[q], timer'[q])
    BY <1>1 DEF TableOK, Entries
  <2>2. /\ OneCPU' /\ ForkingIn(proc, pc') /\ OrphansIn(proc, pc', todo')
        /\ ParentsIn(proc, pc', todo') /\ pc'[InitP] \notin Gone
    BY <1>1 DEF TableOK, OneCPU
  <2> QED  BY <2>1, <2>2, TouchedTableOK
<1>3. RememberedIn(proc', pc, ready, rsel, coll, stale)
  BY <1>1, TouchedRemembered DEF RestTypeOK
<1>4. HeldStep
  <2>1. \A q \in Procs : StaysHeld(proc[q], proc[q]) /\ Touch(proc[q], proc'[q])
    BY DEF StaysHeld, Touched
  <2> QED  BY <2>1, TouchHolds DEF HeldStep
<1> QED  BY <1>2, <1>3, <1>4 DEF IInv

LEMMA TtySignalKeeps ==
  ASSUME IInv, NEW q \in Procs, NEW s \in Sigs, TtySignal(q, s)
  PROVE  IInv' /\ HeldStep
<1>1. /\ Use("tty", MaxTty) /\ proc' = Psignal(proc, q, s)
      /\ UNCHANGED <<usig, callVars, selVars>>
  BY DEF TtySignal
<1>2. RestTypeOK /\ Table(proc) /\ s \in AllSigs
  BY TheParts, EntriesTable, ConstantsOK DEF TableOK
<1>3. Touched(proc, proc')
  BY <1>1, <1>2, PsignalTouches
<1>4. used' \in [Bounded -> Nat]
  BY <1>1, <1>2, UseType DEF Bounded
<1>5. UNCHANGED <<usig, pc, call, todo, f, timer, ready, rsel, coll, stale>>
  BY <1>1 DEF callVars, selVars
<1>6. RestTypeOK'
  BY <1>2, <1>4, <1>5 DEF RestTypeOK
<1> QED  BY <1>3, <1>5, <1>6, TouchedKeeps

\* A child goes to init.
LEMMA ExitChildKeeps ==
  ASSUME IInv, NEW p \in Procs, NEW q \in Procs, ExitChild(p, q)
  PROVE  IInv' /\ HeldStep
<1> DEFINE t == Adopted(proc, q)
<1>1. /\ pc[p] = "orphaning" /\ q \in todo[p]
      /\ todo' = [todo EXCEPT ![p] = @ \ {q}] /\ proc' = Orphaned(proc, q)
      /\ UNCHANGED <<usig, pc, call, f, timer, selVars, used>>
  BY DEF ExitChild
<1>2. /\ TableOK /\ RestTypeOK /\ proc \in [Procs -> Slots] /\ Table(proc)
      /\ RememberedIn(proc, pc, ready, rsel, coll, stale)
  BY TheParts, EntriesTable DEF TableOK, IInv
<1>3. /\ Table(t) /\ t[q] = [proc[q] EXCEPT !.pptr = InitP]
      /\ \A r \in Procs \ {q} : t[r] = proc[r]
  BY <1>2, AdoptedTable
<1>4. Touched(t, proc')
  BY <1>1, <1>2, OrphanedTouches
<1> HIDE DEF t
<1>5. /\ \A r \in Procs : /\ t[r].stat = proc[r].stat /\ t[r].wchan = proc[r].wchan
                          /\ t[r].sig = proc[r].sig /\ t[r].siga = proc[r].siga
                          /\ t[r].cursig = proc[r].cursig /\ t[r].tsl = proc[r].tsl
                          /\ t[r].ssel = proc[r].ssel
      /\ t[q].pptr = InitP
  BY <1>2, <1>3 DEF Slots
<1>6. /\ todo' \in [Procs -> SUBSET Procs] /\ todo'[p] = todo[p] \ {q}
      /\ \A a \in Procs \ {p} : todo'[a] = todo[a]
  BY <1>1, <1>2 DEF RestTypeOK
<1>7. RestTypeOK'
  BY <1>1, <1>2, <1>6 DEF RestTypeOK, selVars
<1>8. \A a \in Procs : pc[a] = "orphaning" => a = p
  BY <1>1, <1>2 DEF TableOK, OneCPU, OnCPU
<1>9. proc[q].pptr = p
  BY <1>1, <1>2 DEF TableOK, OrphansIn
<1>10. \A r \in Procs : ProcOK(t[r], pc'[r], usig'[r], call'[r], timer'[r])
  <2> SUFFICES ASSUME NEW r \in Procs
               PROVE  ProcOK(t[r], pc'[r], usig'[r], call'[r], timer'[r])
    OBVIOUS
  <2>1. ProcOK(proc[r], pc[r], usig[r], call[r], timer[r])
    BY <1>2 DEF TableOK, Entries
  <2>2. EntryOK(t[r])
    BY <1>3 DEF Table
  <2> QED  BY <1>1, <1>5, <2>1, <2>2 DEF ProcOK
<1>11. ForkingIn(t, pc')
  <2> SUFFICES ASSUME NEW b \in Procs, t[b].stat = "IDL"
               PROVE  LET a == t[b].pptr IN
                      /\ a \in Procs /\ pc'[a] = "forking" /\ t[b].siga = t[a].siga
                      /\ \A r \in Procs : t[r].stat = "IDL" /\ t[r].pptr = a => r = b
    BY DEF ForkingIn
  <2>1. ASSUME NEW r \in Procs, t[r].stat = "IDL"
        PROVE  LET a == proc[r].pptr IN
               /\ a \in Procs /\ pc[a] = "forking" /\ proc[r].siga = proc[a].siga
               /\ \A c \in Procs : proc[c].stat = "IDL" /\ proc[c].pptr = a => c = r
    BY <1>2, <1>5, <2>1 DEF TableOK, ForkingIn
  <2>2. \A r \in Procs : t[r].stat = "IDL" => r # q
    BY <1>1, <1>9, <2>1
  <2> QED  BY <1>1, <1>3, <1>5, <2>1, <2>2
<1>12. OrphansIn(t, pc', todo')
  BY <1>1, <1>2, <1>3, <1>6, <1>8 DEF TableOK, OrphansIn
<1>13. ParentsIn(t, pc', todo')
  <2> SUFFICES ASSUME NEW b \in Procs \ {InitP}, t[b].stat # "FREE"
               PROVE  LET a == t[b].pptr IN
                      a \in Procs /\ (Live(t[a]) \/ (pc'[a] = "orphaning" /\ b \in todo'[a]))
    BY DEF ParentsIn
  <2>1. CASE b = q
    <3>1. ProcOK(proc[InitP], pc[InitP], usig[InitP], call[InitP], timer[InitP])
      BY <1>2, ConstantsOK DEF TableOK, Entries
    <3>2. pc[InitP] \notin {"none", "orphaning"}
      BY <1>2 DEF TableOK, Gone
    <3>3. Live(proc[InitP])
      BY <3>1, <3>2 DEF ProcOK, Suits, Live
    <3> QED  BY <1>5, <2>1, <3>3, ConstantsOK DEF Live
  <2>2. CASE b # q
    <3>1. LET a == proc[b].pptr IN
          a \in Procs /\ (Live(proc[a]) \/ (pc[a] = "orphaning" /\ b \in todo[a]))
      BY <1>2, <1>5 DEF TableOK, ParentsIn
    <3> QED  BY <1>1, <1>3, <1>5, <1>6, <1>8, <2>2, <3>1 DEF Live
  <2> QED  BY <2>1, <2>2
<1>14. TableOK'
  <2>1. OneCPU' /\ pc'[InitP] \notin Gone
    BY <1>1, <1>2 DEF TableOK, OneCPU
  <2> QED  BY <1>4, <1>7, <1>10, <1>11, <1>12, <1>13, <2>1, TouchedTableOK
<1>15. RememberedIn(t, pc, ready, rsel, coll, stale)
  BY <1>2, <1>5 DEF RememberedIn, OnSelect
<1>16. RememberedIn(proc', pc, ready, rsel, coll, stale)
  BY <1>2, <1>4, <1>15, TouchedRemembered DEF RestTypeOK
<1>17. HeldStep
  <2>1. \A r \in Procs : StaysHeld(proc[r], t[r]) /\ Touch(t[r], proc'[r])
    BY <1>4, <1>5 DEF StaysHeld, Touched
  <2> QED  BY <2>1, TouchHolds DEF HeldStep
<1>18. UNCHANGED <<pc, ready, rsel, coll, stale>>
  BY <1>1 DEF selVars
<1> QED  BY <1>14, <1>16, <1>17, <1>18 DEF IInv

\* All children are gone: the parent is told.
LEMMA ExitDoneKeeps ==
  ASSUME IInv, NEW p \in Procs, ExitDone(p)
  PROVE  IInv' /\ HeldStep
<1> DEFINE a == proc[p].pptr
<1>1. /\ pc[p] = "orphaning" /\ todo[p] = {}
      /\ proc' = Psignal(Wakeup(proc, a), a, "CHLD")
      /\ Goto(p, "none") /\ call' = [call EXCEPT ![p] = "none"]
      /\ UNCHANGED <<usig, todo, f, timer, selVars, used>>
  BY DEF ExitDone
<1>2. /\ TableOK /\ RestTypeOK /\ proc \in [Procs -> Slots] /\ Table(proc)
      /\ RememberedIn(proc, pc, ready, rsel, coll, stale)
  BY TheParts, EntriesTable DEF TableOK, IInv
<1>3. ProcOK(proc[p], pc[p], usig[p], call[p], timer[p])
  BY <1>2 DEF TableOK, Entries
<1>4. proc[p].stat = "ZOMB"
  BY <1>1, <1>3 DEF ProcOK, Suits
<1>5. p # InitP
  BY <1>1, <1>2 DEF TableOK, Gone
<1>6. a \in Procs
  BY <1>2, <1>4, <1>5 DEF TableOK, ParentsIn
<1>7. Touched(proc, proc')
  <2> HIDE DEF a
  <2>1. Touched(proc, Wakeup(proc, a))
    BY <1>2, WakeupTouches
  <2>2. Table(Wakeup(proc, a))
    BY <2>1, TouchedTable
  <2>3. "CHLD" \in AllSigs
    BY DEF AllSigs
  <2>4. Touched(Wakeup(proc, a), proc')
    BY <1>1, <1>6, <2>2, <2>3, PsignalTouches
  <2> QED  BY <1>2, <2>1, <2>4, TouchedAgain
<1>8. /\ pc' \in [Procs -> PCs] /\ pc'[p] = "none"
      /\ \A b \in Procs \ {p} : pc'[b] = pc[b]
  <2>1. "none" \in PCs
    BY DEF PCs
  <2> QED  BY <1>1, <1>2, <2>1, GoneTo
<1>9. /\ call' \in [Procs -> AllCalls \cup {"none", "drain"}]
      /\ \A b \in Procs \ {p} : call'[b] = call[b]
  BY <1>1, <1>2 DEF RestTypeOK
<1>10. RestTypeOK'
  BY <1>1, <1>2, <1>8, <1>9 DEF RestTypeOK, selVars
<1>11. \A b \in Procs : ProcOK(proc[b], pc'[b], usig'[b], call'[b], timer'[b])
  <2>1. ProcOK(proc[p], pc'[p], usig'[p], call'[p], timer'[p])
    BY <1>3, <1>4, <1>8 DEF ProcOK, EntryOK, Suits, Gone, InCall
  <2>2. ASSUME NEW b \in Procs \ {p}
        PROVE  ProcOK(proc[b], pc'[b], usig'[b], call'[b], timer'[b])
    BY <1>1, <1>2, <1>8, <1>9 DEF TableOK, Entries
  <2> QED  BY <2>1, <2>2
<1>12. OneCPU'
  BY <1>2, <1>8 DEF TableOK, OneCPU, OnCPU
<1>13. ForkingIn(proc, pc')
  BY <1>1, <1>2, <1>8 DEF TableOK, ForkingIn
<1>14. OrphansIn(proc, pc', todo')
  BY <1>1, <1>2, <1>8 DEF TableOK, OrphansIn
<1>15. ParentsIn(proc, pc', todo')
  BY <1>1, <1>2, <1>8 DEF TableOK, ParentsIn
<1>16. pc'[InitP] \notin Gone
  BY <1>2, <1>5, <1>8, ConstantsOK DEF TableOK
<1>17. TableOK'
  BY <1>7, <1>10, <1>11, <1>12, <1>13, <1>14, <1>15, <1>16, TouchedTableOK
<1>18. RememberedIn(proc, pc', ready, rsel, coll, stale)
  <2>1. \A b \in Procs : OnSelect(proc[b], pc'[b], b \notin stale) =>
                            OnSelect(proc[b], pc[b], b \notin stale)
    BY <1>8 DEF OnSelect
  <2> QED  BY <1>2, <2>1 DEF RememberedIn
<1>19. RememberedIn(proc', pc', ready, rsel, coll, stale)
  BY <1>2, <1>7, <1>18, TouchedRemembered DEF RestTypeOK
<1>20. HeldStep
  <2>1. \A r \in Procs : StaysHeld(proc[r], proc[r]) /\ Touch(proc[r], proc'[r])
    BY <1>7 DEF StaysHeld, Touched
  <2> QED  BY <2>1, TouchHolds DEF HeldStep
<1>21. UNCHANGED <<ready, rsel, coll, stale>>
  BY <1>1 DEF selVars
<1> QED  BY <1>17, <1>19, <1>20, <1>21 DEF IInv

\* Data on e with somebody in rsel: who was to be told has been.
LEMMA SelwakeupTells ==
  ASSUME Table(proc), NEW w, Touched(proc, w), NEW e \in Streams, NEW p \in Procs,
         ProcOK(proc[p], pc[p], usig[p], call[p], timer[p]),
         OnSelect(proc[p], pc[p], p \notin stale) => rsel[e] = p \/ e \in coll,
         OnSelect(Selwakeup(w, e)[p], pc[p], e \notin coll /\ p \notin stale)
  PROVE  FALSE
<1> DEFINE v == IF e \in coll THEN Wakeup(w, SelWait) ELSE w
           u == Selwakeup(w, e)
<1>1. u[p] = IF p # rsel[e] THEN v[p]
             ELSE IF v[p].wchan = SelWait THEN Setrun(v[p])
             ELSE [v[p] EXCEPT !.ssel = FALSE]
  BY DEF Selwakeup
<1>2. Table(w)
  BY TouchedTable
<1>3. Touched(w, v)
  BY <1>2, WakeupTouches, TouchedSame
<1>4. Touched(proc, v)
  BY <1>2, <1>3, TouchedAgain
<1>5. NoChan # SelWait
  BY ConstantsOK
<1>6. e \in coll => v[p].wchan # SelWait
  <2>1. \A t \in [Procs -> Slots] : Wakeup(t, SelWait)[p].wchan # SelWait
    BY <1>5 DEF Wakeup, Slots
  <2>2. w \in [Procs -> Slots]
    BY <1>2 DEF Table
  <2> QED  BY <2>1, <2>2
<1> HIDE DEF v, u
<1>7. /\ v[p] \in Slots /\ v[p].wchan \in {proc[p].wchan, NoChan}
      /\ v[p].ssel => proc[p].ssel
  BY <1>4 DEF Touched, Touch
<1>8. pc[p] = "selsleep" => proc[p].wchan = NoChan
  BY DEF ProcOK, Suits, EntryOK
<1>9. CASE p # rsel[e]
  BY <1>1, <1>5, <1>6, <1>7, <1>9 DEF OnSelect, u
<1>10. CASE p = rsel[e] /\ v[p].wchan = SelWait
  <2>1. u[p].wchan = NoChan
    BY <1>1, <1>7, <1>10 DEF Setrun, Slots
  <2> QED  BY <1>5, <1>7, <1>8, <1>10, <2>1 DEF OnSelect, u
<1>11. CASE p = rsel[e] /\ v[p].wchan # SelWait
  <2>1. u[p].wchan # SelWait /\ u[p].ssel = FALSE
    BY <1>1, <1>7, <1>11 DEF Slots
  <2> QED  BY <2>1 DEF OnSelect, u
<1> QED  BY <1>9, <1>10, <1>11

LEMMA DataKeeps ==
  ASSUME IInv, NEW e \in Streams, Data(e)
  PROVE  IInv' /\ HeldStep
<1> DEFINE w == Wakeup(proc, e)
<1>1. /\ ready' = ready \cup {e} /\ UNCHANGED <<usig, callVars, used>>
      /\ IF rsel[e] = NoProc
         THEN proc' = w /\ UNCHANGED <<rsel, coll, stale>>
         ELSE /\ proc' = Selwakeup(w, e)
              /\ stale' = IF e \in coll THEN Procs ELSE stale
              /\ rsel' = [rsel EXCEPT ![e] = NoProc] /\ coll' = coll \ {e}
  BY DEF Data
<1>2. /\ TableOK /\ RestTypeOK /\ proc \in [Procs -> Slots] /\ Table(proc)
      /\ RememberedIn(proc, pc, ready, rsel, coll, stale)
  BY TheParts, EntriesTable DEF TableOK, IInv
<1>3. /\ NoChan # SelWait /\ e # SelWait /\ e # NoChan /\ NoChan \notin Streams
      /\ SelWait \notin Streams
  BY ConstantsOK
<1>4. Touched(proc, w) /\ \A q \in Procs : w[q].wchan # e
  <2>1. \A q \in Procs : w[q].wchan # e
    BY <1>2, <1>3 DEF Wakeup, Slots
  <2> QED  BY <1>2, <2>1, WakeupTouches
<1> HIDE DEF w
<1>5. Table(w)
  BY <1>4, TouchedTable
<1>6. Touched(w, proc')
  BY <1>1, <1>5, TouchedSame, SelwakeupTouches
<1>7. Touched(proc, proc')
  BY <1>2, <1>4, <1>6, TouchedAgain
<1>8. /\ ready' \in SUBSET Streams /\ rsel' \in [Streams -> Procs \cup {NoProc}]
      /\ coll' \in SUBSET Streams /\ stale' \in SUBSET Procs
  BY <1>1, <1>2 DEF RestTypeOK
<1>9. UNCHANGED <<usig, pc, call, todo, f, timer, used>>
  BY <1>1 DEF callVars
<1>10. RestTypeOK'
  BY <1>2, <1>8, <1>9 DEF RestTypeOK
<1>11. TableOK'
  <2>1. \A q \in Procs : ProcOK(proc[q], pc'[q], usig'[q], call'[q], timer'[q])
    BY <1>2, <1>9 DEF TableOK, Entries
  <2>2. /\ OneCPU' /\ ForkingIn(proc, pc') /\ OrphansIn(proc, pc', todo')
        /\ ParentsIn(proc, pc', todo') /\ pc'[InitP] \notin Gone
    BY <1>2, <1>9 DEF TableOK, OneCPU
  <2> QED  BY <1>7, <1>10, <2>1, <2>2, TouchedTableOK
<1>12. HeldStep
  <2>1. \A q \in Procs : StaysHeld(proc[q], proc[q]) /\ Touch(proc[q], proc'[q])
    BY <1>7 DEF StaysHeld, Touched
  <2> QED  BY <2>1, TouchHolds DEF HeldStep
<1>13. \A q \in Procs : proc'[q].wchan \notin ready'
  <2> SUFFICES ASSUME NEW q \in Procs  PROVE  proc'[q].wchan \notin ready'
    OBVIOUS
  <2>1. /\ w[q].wchan \in {proc[q].wchan, NoChan} /\ proc'[q].wchan \in {w[q].wchan, NoChan}
        /\ w[q].wchan # e
    BY <1>4, <1>6 DEF Touched, Touch
  <2>2. proc[q].wchan \notin ready /\ NoChan \notin ready
    BY <1>2, <1>3 DEF RememberedIn, RestTypeOK
  <2> QED  BY <1>1, <1>3, <2>1, <2>2
<1>14. \A q \in Procs : OnSelect(proc[q], pc[q], q \notin stale) => rsel[e] = q \/ e \in coll
  BY <1>2 DEF RememberedIn
<1>15. \A q \in Procs : ~OnSelect(proc'[q], pc[q], q \notin stale')
  <2> SUFFICES ASSUME NEW q \in Procs, OnSelect(proc'[q], pc[q], q \notin stale')
               PROVE  FALSE
    OBVIOUS
  <2>1. CASE rsel[e] = NoProc
    <3>1. proc'[q].wchan \in {proc[q].wchan, NoChan} /\ (proc'[q].ssel => proc[q].ssel)
      BY <1>7 DEF Touched, Touch
    <3>2. OnSelect(proc[q], pc[q], q \notin stale)
      BY <1>1, <1>3, <2>1, <3>1 DEF OnSelect
    <3>3. e \notin coll
      BY <1>2, <2>1 DEF RememberedIn
    <3> QED  BY <1>14, <2>1, <3>2, <3>3, ConstantsOK
  <2>2. CASE rsel[e] # NoProc
    <3>1. proc' = Selwakeup(w, e) /\ stale' = IF e \in coll THEN Procs ELSE stale
      BY <1>1, <2>2
    <3>2. OnSelect(Selwakeup(w, e)[q], pc[q], e \notin coll /\ q \notin stale)
      BY <3>1 DEF OnSelect
    <3>3. ProcOK(proc[q], pc[q], usig[q], call[q], timer[q])
      BY <1>2 DEF TableOK, Entries
    <3> QED  BY <1>2, <1>4, <1>14, <3>2, <3>3, SelwakeupTells
  <2> QED  BY <2>1, <2>2
<1>16. \A a \in coll' : rsel'[a] # NoProc
  <2>1. \A a \in coll : rsel[a] # NoProc
    BY <1>2 DEF RememberedIn
  <2> QED  BY <1>1, <1>2, <2>1 DEF RestTypeOK
<1>17. RememberedIn(proc', pc', ready', rsel', coll', stale')
  BY <1>9, <1>13, <1>15, <1>16 DEF RememberedIn
<1> QED  BY <1>11, <1>12, <1>17 DEF IInv

\* The clock.
LEMMA SecondKeeps ==
  ASSUME IInv, NEW q \in Procs, Second(q)
  PROVE  IInv' /\ HeldStep
<1> DEFINE r == proc[q]
           x == Tick(r)
<1>1. /\ Live(r) /\ r.tsl > 0
      /\ proc' = [proc EXCEPT ![q] = x]
      /\ timer' = [timer EXCEPT ![q] = IF @ = "on" /\ r.tsl = 1 THEN "out" ELSE @]
      /\ UNCHANGED <<usig, pc, call, todo, f, selVars, used>>
  BY DEF Second
<1>2. /\ TableOK /\ RestTypeOK /\ proc \in [Procs -> Slots]
      /\ RememberedIn(proc, pc, ready, rsel, coll, stale)
  BY TheParts DEF IInv
<1>3. ProcOK(r, pc[q], usig[q], call[q], timer[q])
  BY <1>2 DEF TableOK, Entries
<1>4. r \in Slots /\ r.tsl \in 0..MaxSecs /\ MaxSecs \in Nat
  BY <1>2, ConstantsOK DEF Slots
<1>5. /\ x \in Slots /\ SameBasis(r, x) /\ x.sig = r.sig /\ x.cursig = r.cursig
      /\ x.ssel = r.ssel
      /\ r.tsl > 1 => x.tsl > 0 /\ x.wchan = r.wchan /\ x.stat = r.stat
      /\ r.tsl = 1 => x.wchan = NoChan /\ x.stat = IF r.stat = "SLEEP" THEN "RUN" ELSE r.stat
  <2>1. CASE r.tsl > 1
    <3>1. x = [r EXCEPT !.tsl = r.tsl - 1] /\ r.tsl - 1 \in 0..MaxSecs /\ r.tsl - 1 > 0
      BY <1>4, <2>1 DEF Tick
    <3> HIDE DEF x, r
    <3> QED  BY <1>4, <2>1, <3>1 DEF Slots, SameBasis
  <2>2. CASE r.tsl = 1
    <3> DEFINE S == IF r.stat = "SLEEP" THEN "RUN" ELSE r.stat
    <3>1. x = [r EXCEPT !.wchan = NoChan, !.timo = TRUE, !.tsl = 0, !.stat = S]
      BY <1>4, <2>2 DEF Tick, TimedOut
    <3>2. NoChan \in Chans /\ 0 \in 0..MaxSecs
      BY <1>4 DEF Chans
    <3>3. S \in {"FREE", "IDL", "RUN", "SLEEP", "STOP", "ZOMB"}
      BY <1>4 DEF Slots
    <3> HIDE DEF x, r, S
    <3>4. /\ x \in Slots /\ SameBasis(r, x) /\ x.sig = r.sig /\ x.cursig = r.cursig
          /\ x.ssel = r.ssel /\ x.wchan = NoChan /\ x.stat = S
      BY <1>4, <3>1, <3>2, <3>3 DEF Slots, SameBasis
    <3> QED  BY <2>2, <3>4 DEF S
  <2> QED  BY <1>1, <1>4, <2>1, <2>2
<1> HIDE DEF x
<1>6. r.tsl > 1 \/ r.tsl = 1
  BY <1>1, <1>4
<1>7. /\ x.wchan \in {r.wchan, NoChan}
      /\ x.stat = r.stat \/ (r.stat = "SLEEP" /\ x.stat = "RUN")
      /\ EntryOK(x)
  BY <1>3, <1>5, <1>6 DEF ProcOK, EntryOK
<1>8. /\ proc'[q] = x /\ \A a \in Procs \ {q} : proc'[a] = proc[a]
      /\ proc' \in [Procs -> Slots]
  BY <1>1, <1>2, <1>5
<1>9. /\ timer' \in [Procs -> {"off", "on", "out"}]
      /\ timer'[q] = IF timer[q] = "on" /\ r.tsl = 1 THEN "out" ELSE timer[q]
      /\ \A a \in Procs \ {q} : timer'[a] = timer[a]
  BY <1>1, <1>2 DEF RestTypeOK
<1>10. UNCHANGED <<usig, pc, call, todo, f, ready, rsel, coll, stale, used>>
  BY <1>1 DEF selVars
<1>11. RestTypeOK'
  BY <1>2, <1>9, <1>10 DEF RestTypeOK
<1>12. Entries'
  <2>1. ProcOK(x, pc'[q], usig'[q], call'[q], timer'[q])
    <3>1. Suits(pc[q], x.stat)
      BY <1>3, <1>7 DEF ProcOK, Suits
    <3>2. x.wchan # NoChan /\ Timed(call[q]) =>
             timer'[q] # "out" /\ (timer'[q] = "on" => x.tsl > 0)
      BY <1>3, <1>5, <1>6, <1>9 DEF ProcOK
    <3>3. Live(r)
      BY <1>1
    <3> QED  BY <1>3, <1>5, <1>7, <1>10, <3>1, <3>2, <3>3 DEF ProcOK, SameBasis, Live
  <2>2. ASSUME NEW a \in Procs \ {q}
        PROVE  ProcOK(proc[a], pc'[a], usig'[a], call'[a], timer'[a])
    BY <1>2, <1>9, <1>10 DEF TableOK, Entries
  <2> QED  BY <1>8, <2>1, <2>2 DEF Entries
<1>13. /\ \A a \in Procs : /\ proc'[a].siga = proc[a].siga /\ proc'[a].pptr = proc[a].pptr
                           /\ proc'[a].sig = proc[a].sig /\ proc'[a].ssel = proc[a].ssel
                           /\ proc'[a].wchan \in {proc[a].wchan, NoChan}
                           /\ proc'[a].stat = "IDL" <=> proc[a].stat = "IDL"
                           /\ proc'[a].stat = "FREE" <=> proc[a].stat = "FREE"
                           /\ Live(proc'[a]) <=> Live(proc[a])
  BY <1>5, <1>7, <1>8 DEF SameBasis, Live
<1>14. OneCPU' /\ pc'[InitP] \notin Gone
  BY <1>2, <1>10 DEF TableOK, OneCPU
<1>15. ForkingIn(proc', pc')
  <2>1. ForkingIn(proc, pc)
    BY <1>2 DEF TableOK
  <2> QED  BY <1>10, <1>13, <2>1 DEF ForkingIn
<1>16. OrphansIn(proc', pc', todo') /\ ParentsIn(proc', pc', todo')
  <2>1. OrphansIn(proc, pc, todo) /\ ParentsIn(proc, pc, todo)
    BY <1>2 DEF TableOK
  <2>2. OrphansIn(proc', pc', todo')
    BY <1>2, <1>10, <1>13, <2>1 DEF OrphansIn, RestTypeOK
  <2> QED  BY <1>10, <1>13, <2>1, <2>2 DEF ParentsIn
<1>17. RememberedIn(proc', pc', ready', rsel', coll', stale')
  <2>1. NoChan \notin ready /\ NoChan # SelWait
    BY <1>2, ConstantsOK DEF RestTypeOK
  <2>2. \A a \in Procs : OnSelect(proc'[a], pc[a], a \notin stale) =>
                            OnSelect(proc[a], pc[a], a \notin stale)
    BY <1>13, <2>1 DEF OnSelect
  <2> QED  BY <1>2, <1>10, <1>13, <2>1, <2>2 DEF RememberedIn
<1>18. HeldStep
  BY <1>13 DEF HeldStep, StaysHeld
<1>19. TableOK'
  BY <1>11, <1>12, <1>14, <1>15, <1>16 DEF TableOK
<1> QED  BY <1>17, <1>18, <1>19 DEF IInv

-----------------------------------------------------------------------------
(***************************************************************************)
(* The invariant.                                                          *)
(***************************************************************************)
LEMMA InitOK == Init => IInv
<1> SUFFICES ASSUME Init  PROVE IInv
  OBVIOUS
<1> DEFINE dfl == [s \in AllSigs |-> "DFL"]
           run == [FreeSlot EXCEPT !.stat = "RUN"]
           child == [FreeSlot EXCEPT !.stat = "RUN", !.pptr = InitP]
<1>1. /\ proc = [p \in Procs |-> IF p = InitP THEN run
                                 ELSE IF p = First THEN child ELSE FreeSlot]
      /\ usig = [p \in Procs |-> dfl]
      /\ pc = [p \in Procs |-> IF p \in {InitP, First} THEN "user" ELSE "none"]
      /\ call = [p \in Procs |-> "none"]
      /\ todo = [p \in Procs |-> {}] /\ f = [p \in Procs |-> FALSE]
      /\ timer = [p \in Procs |-> "off"]
      /\ ready = {} /\ rsel = [e \in Streams |-> NoProc] /\ coll = {}
      /\ stale = {} /\ used = [x \in Bounded |-> 0]
  BY DEF Init
<1>2. /\ dfl \in [AllSigs -> Actions] /\ dfl \in [AllSigs -> Actions \cup {"DEFER"}]
      /\ \A s \in AllSigs : dfl[s] = "DFL" /\ Matches(dfl[s], dfl[s])
      /\ "KILL" \in AllSigs /\ "STOP" \in AllSigs
  BY DEF Actions, Matches, AllSigs, StopSigs
<1>3. /\ FreeSlot \in Slots /\ FreeSlot.stat = "FREE" /\ FreeSlot.wchan = NoChan
      /\ FreeSlot.sig = {} /\ FreeSlot.cursig = NoSig /\ FreeSlot.siga = dfl
      /\ FreeSlot.ssel = FALSE
  <2>1. 0 \in 0..MaxSecs /\ NoChan \in Chans
    BY ConstantsOK DEF Chans
  <2> QED  BY <1>2, <2>1 DEF FreeSlot, Slots
<1> HIDE DEF dfl
<1>4. \A r \in {run, child} :
         /\ r \in Slots /\ r.stat = "RUN" /\ r.wchan = NoChan
         /\ r.cursig = NoSig /\ r.siga = dfl /\ r.ssel = FALSE
  <2>1. InitP \in Procs \cup {NoProc}
    BY ConstantsOK
  <2>2. /\ run \in Slots /\ run.stat = "RUN" /\ run.wchan = NoChan
        /\ run.cursig = NoSig /\ run.siga = dfl /\ run.ssel = FALSE
    BY <1>3 DEF Slots
  <2>3. /\ child \in Slots /\ child.stat = "RUN" /\ child.wchan = NoChan
        /\ child.cursig = NoSig /\ child.siga = dfl /\ child.ssel = FALSE
    BY <1>3, <2>1 DEF Slots
  <2> HIDE DEF run, child
  <2> QED  BY <2>2, <2>3
<1>5. child.pptr = InitP
  BY <1>3 DEF Slots
<1> HIDE DEF run, child
<1>6. First # InitP /\ First \in Procs /\ InitP \in Procs
  BY ConstantsOK
<1>7. /\ proc \in [Procs -> Slots] /\ proc[InitP] = run /\ proc[First] = child
      /\ \A p \in Procs \ {InitP, First} : proc[p] = FreeSlot
      /\ pc[InitP] = "user" /\ pc[First] = "user"
      /\ \A p \in Procs \ {InitP, First} : pc[p] = "none"
  BY <1>1, <1>3, <1>4, <1>6
<1>8. \A p \in Procs : /\ proc[p].wchan = NoChan /\ proc[p].stat # "IDL"
                       /\ proc[p].ssel = FALSE
  BY <1>3, <1>4, <1>7
<1>9. RestTypeOK
  <2>1. pc \in [Procs -> PCs]
    BY <1>1 DEF PCs
  <2>2. used \in [Bounded -> Nat] /\ usig \in [Procs -> [AllSigs -> Actions \cup {"DEFER"}]]
    BY <1>1, <1>2
  <2> QED  BY <1>1, <2>1, <2>2 DEF RestTypeOK
<1>10. Entries
  <2>1. ASSUME NEW p \in Procs, proc[p] \in {run, child}, pc[p] = "user"
        PROVE  ProcOK(proc[p], pc[p], usig[p], call[p], timer[p])
    <3>1. EntryOK(proc[p]) /\ Suits(pc[p], proc[p].stat)
      BY <1>4, <2>1 DEF EntryOK, Suits
    <3> QED  BY <1>1, <1>2, <1>4, <2>1, <3>1 DEF ProcOK, InCall
  <2>2. ASSUME NEW p \in Procs, proc[p] = FreeSlot, pc[p] = "none"
        PROVE  ProcOK(proc[p], pc[p], usig[p], call[p], timer[p])
    <3>1. EntryOK(proc[p]) /\ Suits(pc[p], proc[p].stat)
      BY <1>3, <2>2 DEF EntryOK, Suits
    <3> QED  BY <1>3, <2>2, <3>1 DEF ProcOK, InCall, Gone
  <2> QED  BY <1>7, <2>1, <2>2 DEF Entries
<1>11. OneCPU /\ OrphansIn(proc, pc, todo) /\ pc[InitP] \notin Gone
  BY <1>6, <1>7 DEF OneCPU, OnCPU, OrphansIn, Gone
<1>12. ForkingIn(proc, pc)
  BY <1>8 DEF ForkingIn
<1>13. ParentsIn(proc, pc, todo)
  <2>1. \A q \in Procs \ {InitP} : proc[q].stat # "FREE" => q = First
    BY <1>3, <1>7
  <2> QED  BY <1>4, <1>5, <1>6, <1>7, <2>1 DEF ParentsIn, Live
<1>14. RememberedIn(proc, pc, ready, rsel, coll, stale)
  <2>1. NoChan # SelWait
    BY ConstantsOK
  <2> QED  BY <1>1, <1>8, <2>1 DEF RememberedIn, OnSelect
<1> QED  BY <1>9, <1>10, <1>11, <1>12, <1>13, <1>14 DEF IInv, TableOK

LEMMA NextKeeps ==
  ASSUME IInv, Next
  PROVE  IInv' /\ HeldStep
<1>1. ASSUME NEW p \in Procs, Step(p)
      PROVE  IInv' /\ HeldStep
  <2>1. CASE \E secs \in 0..MaxSecs, e \in Streams : Await(p, e, secs)
    BY <2>1, AwaitKeeps
  <2>2. CASE \E e \in Streams : Take(p, e)
    BY <2>2, EndsKeep
  <2>3. CASE \E secs \in 1..MaxSecs : SelSleep(p, secs)
    BY <2>3, SelSleepKeeps
  <2>4. CASE SelScan(p) \/ Awake(p) \/ DrainOutput(p)
    BY <2>4, SelScanKeeps, AwakeKeeps, DrainOutputKeeps
  <2>5. CASE DrainEnd(p) \/ WaitNoChild(p) \/ Trap(p)
    BY <2>5, EndsKeep
  <2>6. CASE \E q \in Procs : WaitLook(p, q)
    BY <2>6, WaitLookKeeps
  <2>7. CASE WaitSleep(p) \/ Ret(p) \/ ExitZomb(p) \/ ExitDone(p)
    BY <2>7, WaitSleepKeeps, RetKeeps, ExitZombKeeps, ExitDoneKeeps
  <2>8. CASE \E q \in Procs : ExitChild(p, q) \/ ForkEnd(p, q)
    BY <2>8, ExitChildKeeps, ForkEndKeeps
  <2> QED  BY <1>1, <2>1, <2>2, <2>3, <2>4, <2>5, <2>6, <2>7, <2>8 DEF Step
<1>2. ASSUME NEW p \in Procs, User(p)
      PROVE  IInv' /\ HeldStep
  <2>1. CASE \E c \in AllCalls : Call(p, c)
    BY <2>1, CallKeeps
  <2>2. CASE \E q \in Procs : Fork(p, q)
    BY <2>2, ForkKeeps
  <2>3. CASE \E sa \in Settable : Ssig(p, sa[1], sa[2])
    <3>1. PICK sa \in Settable : Ssig(p, sa[1], sa[2])
      BY <2>3
    <3>2. sa[1] \in AllSigs \ {"KILL", "STOP"} /\ sa[2] \in Actions \cup {"DEFER"}
      BY ConstantsOK
    <3> QED  BY <3>1, <3>2, SsigKeeps
  <2>4. CASE \E q \in Procs, s \in Sigs : Kill(p, q, s)
    BY <2>4, KillKeeps
  <2>5. CASE Exit(p)
    BY <2>5, ExitKeeps
  <2> QED  BY <1>2, <2>1, <2>2, <2>3, <2>4, <2>5 DEF User
<1>3. ASSUME NEW p \in Procs, SelOver(p) \/ Second(p)
      PROVE  IInv' /\ HeldStep
  BY <1>3, EndsKeep, SecondKeeps
<1>4. CASE \E e \in Streams : Data(e)
  BY <1>4, DataKeeps
<1>5. CASE \E q \in Procs, s \in Sigs : TtySignal(q, s)
  BY <1>5, TtySignalKeeps
<1> QED  BY <1>1, <1>2, <1>3, <1>4, <1>5 DEF Next

LEMMA StutterKeeps ==
  ASSUME IInv, UNCHANGED vars
  PROVE  IInv'
<1>1. UNCHANGED <<proc, usig, pc, call, todo, f, timer, ready, rsel, coll, stale, used>>
  BY DEF vars, tabVars, callVars, selVars
<1> QED
  BY <1>1 DEF IInv, TableOK, RestTypeOK, Entries, OneCPU, ForkingIn, OrphansIn,
              ParentsIn, RememberedIn

\* The table of processes is sound: every entry suits the place where its
\* process is (ProcOK), one process has the CPU, an entry that newproc is
\* filling has its parent there, no child is without a parent, and everybody
\* in select is remembered by every stream.
THEOREM TableSound == Spec => []IInv
<1>1. IInv /\ [Next]_vars => IInv'
  BY NextKeeps, StutterKeeps
<1> QED  BY InitOK, <1>1, PTL DEF Spec

-----------------------------------------------------------------------------
(***************************************************************************)
(* What follows.                                                           *)
(***************************************************************************)
\* The variables have their types; wakeup, setrun and psig never call panic:
\* whoever sleeps is on a sleep queue, nobody else is but those that were
\* stopped there, and psig is never asked for the action of a signal that is
\* ignored or held.
THEOREM TypeCorrect == Spec => []TypeOK
<1>1. IInv => TypeOK
  <2> SUFFICES ASSUME IInv  PROVE TypeOK
    OBVIOUS
  <2>1. RestTypeOK /\ proc \in [Procs -> Slots] /\ Entries
    BY TheParts DEF TableOK
  <2>2. NoPanic
    <3> SUFFICES ASSUME NEW p \in Procs
                 PROVE  /\ proc[p].wchan # NoChan => proc[p].stat \in {"SLEEP", "STOP"}
                        /\ proc[p].stat = "SLEEP" => proc[p].wchan # NoChan
                        /\ pc[p] = "ret" /\ proc[p].stat = "RUN" /\ proc[p].cursig # NoSig
                             => usig[p][proc[p].cursig] \notin {"IGN", "HOLD"}
      BY DEF NoPanic
    <3> QED  BY <2>1 DEF Entries, ProcOK, EntryOK, Gone
  <2> QED  BY <2>1, <2>2 DEF TypeOK, RestTypeOK
<1> QED  BY TableSound, <1>1, PTL

\* Nobody sleeps in a read or in a select for data that are there, whatever
\* came between the look at the stream and the sleep: the data of other
\* streams, a selwakeup that found nobody asleep, a signal, a stop.
THEOREM NoEventLost == Spec => []NoLostEvent
<1>1. IInv => NoLostEvent
  BY DEF IInv, RememberedIn, OnSelect, NoLostEvent
<1> QED  BY TableSound, <1>1, PTL

\* Every process but init has a parent that is alive, or one that is in exit
\* and has not come to it yet.
THEOREM NobodyIsOrphaned == Spec => []ParentLives
<1>1. IInv => ParentLives
  BY DEF IInv, TableOK, ParentsIn, ParentLives
<1> QED  BY TableSound, <1>1, PTL

\* A timed sleep ends: as long as it lasts its time is running, also when it
\* was interrupted by a stop and goes on.
THEOREM TimeRunsOut == Spec => []TimedSleepEnds
<1>1. IInv => TimedSleepEnds
  <2> SUFFICES ASSUME IInv, NEW p \in Procs,
                      proc[p].stat = "SLEEP", timer[p] # "off", Timed(call[p])
               PROVE  timer[p] = "on" /\ proc[p].tsl > 0
    BY DEF TimedSleepEnds
  <2>1. ProcOK(proc[p], pc[p], usig[p], call[p], timer[p])
    BY DEF IInv, TableOK, Entries
  <2>2. timer[p] \in {"off", "on", "out"}
    BY TheParts DEF RestTypeOK
  <2> QED  BY <2>1, <2>2 DEF ProcOK, EntryOK
<1> QED  BY TableSound, <1>1, PTL

\* As long as a signal is held it stays pending: neither issig nor psignal, by
\* whomever it is called, takes it away, whatever other signals come and go.
THEOREM HeldSignalStays == Spec => HeldKept
<1>1. IInv /\ [Next]_vars =>
        [\A p \in Procs, s \in {"HUP", "CHLD"} :
           /\ s \in proc[p].sig /\ proc[p].siga[s] = "HOLD"
           /\ Live(proc'[p]) /\ proc'[p].siga[s] = "HOLD"
           => s \in proc'[p].sig]_vars
  BY NextKeeps DEF HeldStep, StaysHeld
<1> QED  BY TableSound, <1>1, PTL DEF Spec, HeldKept
=============================================================================
