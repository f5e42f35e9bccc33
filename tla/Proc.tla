-------------------------------- MODULE Proc --------------------------------
(***************************************************************************)
(* Processes as the kernel sees them: v10/sys/os/slp.c (sleep, tsleep,     *)
(* wakeup, setrun, newproc), sig.c (psignal, issig, stop, psig), the       *)
(* lightning bolt of clock.c, exit and wait1 of sys1.c, select of sys2.c   *)
(* and the way out of a system call (trap.c).                              *)
(*                                                                         *)
(* A process keeps the CPU until it sleeps or stops or its system call     *)
(* ends.  Interrupts (a stream's data, a signal from a terminal, the       *)
(* clock) come between any two steps; what the code does at spl6 is one    *)
(* step.                                                                   *)
(*                                                                         *)
(* Left out: tracing (STRC, /proc), swapping, priorities beyond the test   *)
(* p_pri > PZERO, the hash of sleep channels, user ids and permissions,    *)
(* process groups (any process may be signalled), the writer's half of     *)
(* select.                                                                 *)
(***************************************************************************)
EXTENDS Naturals

CONSTANTS Procs,
          InitP,        \* &proc[INITPID]: inherits orphans, never dies
          First,        \* the process that runs at the beginning
          Streams,      \* what processes read and select
          SelWait,      \* the channel &selwait
          Drain,        \* the channel of stclose: nobody calls wakeup on it
          NoChan, NoProc, NoSig,
          Sigs,         \* the signals that occur
          Calls,        \* the system calls processes make
          Settable,     \* the pairs <<signal, action>> that ssig may set
          MaxCalls, MaxKills, MaxTty, MaxForks, MaxSets, \* bounds on behaviours
          MaxSecs       \* bound on the argument of tsleep

Bounded  == {"calls", "kills", "tty", "forks", "sets"}
AllCalls == {"wait", "read", "io", "ioctl", "accept", "select"}
StopSigs == {"STOP", "TSTP"}            \* TSTP stands for TTIN and TTOU too
Actions  == {"DFL", "IGN", "CATCH", "HOLD"}
AllSigs  == StopSigs \cup {"HUP", "KILL", "CONT", "CHLD"}

ASSUME ConstantsOK ==
  /\ InitP \in Procs /\ First \in Procs \ {InitP}
  /\ NoProc \notin Procs /\ NoSig \notin AllSigs
  /\ {SelWait, Drain, NoChan} \cap (Procs \cup Streams) = {}
  /\ SelWait # Drain /\ NoChan \notin {SelWait, Drain}
  /\ Streams \cap Procs = {}
  /\ Sigs \subseteq AllSigs /\ Calls \subseteq AllCalls
  /\ Settable \subseteq ((Sigs \ {"KILL", "STOP"}) \X (Actions \cup {"DEFER"}))
  /\ {MaxCalls, MaxKills, MaxTty, MaxForks, MaxSets} \subseteq Nat
  /\ MaxSecs \in Nat \ {0}

VARIABLES
  proc,       \* the process table
  usig,       \* u_signal of each process
  pc,         \* where each process is
  call,       \* its system call
  todo, f,    \* wait1, exit: children not looked at yet; wait1's f
  timer,      \* of its last tsleep: "off", "on", "out" (the time has run out)
  ready,      \* the streams that have data
  rsel, coll, \* of each stream: rsel and the flag RSEL
  stale,      \* the processes whose ncoll differs from nselcoll
  used        \* how much of each bound has been used

tabVars  == <<proc, usig>>
callVars == <<pc, call, todo, f, timer>>
selVars  == <<ready, rsel, coll, stale>>
vars     == <<tabVars, callVars, selVars, used>>

Chans == Procs \cup Streams \cup {SelWait, Drain, NoChan}
Slots == [stat : {"FREE", "IDL", "RUN", "SLEEP", "STOP", "ZOMB"},
          wchan : Chans,
          intr : BOOLEAN,               \* p_pri > PZERO
          sig : SUBSET AllSigs,         \* p_sig
          cursig : AllSigs \cup {NoSig},
          siga : [AllSigs -> Actions],  \* p_siga0 and p_siga1
          tsl : 0..MaxSecs,             \* p_tsleep
          timo : BOOLEAN, ssel : BOOLEAN, swted : BOOLEAN,  \* flags
          pptr : Procs \cup {NoProc},
          code : AllSigs \cup {NoSig, "exit"}]  \* xp_xstat
FreeSlot == [stat |-> "FREE", wchan |-> NoChan, intr |-> FALSE, sig |-> {},
             cursig |-> NoSig, siga |-> [s \in AllSigs |-> "DFL"], tsl |-> 0,
             timo |-> FALSE, ssel |-> FALSE, swted |-> FALSE,
             pptr |-> NoProc, code |-> NoSig]

PCs == {"none", "user", "ret", "retstop", "test", "asleep", "sleepstop",
        "scan", "selscan", "selsleep", "drain", "forking", "forked",
        "exiting", "orphaning"}
\* Here a process has the CPU in the kernel, and does not give it away.
OnCPU == {"ret", "test", "scan", "selscan", "selsleep", "drain",
          "orphaning"}

\* What wakeup, setrun and psig check with a panic: on the sleep queues are
\* only processes that sleep or are stopped, and all that sleep are there;
\* psig is never asked for the action of an ignored or held signal.
NoPanic ==
  \A p \in Procs :
    /\ proc[p].wchan # NoChan => proc[p].stat \in {"SLEEP", "STOP"}
    /\ proc[p].stat = "SLEEP" => proc[p].wchan # NoChan
    /\ pc[p] = "ret" /\ proc[p].stat = "RUN" /\ proc[p].cursig # NoSig
         => usig[p][proc[p].cursig] \notin {"IGN", "HOLD"}

\* Every variable has its type, and no panic is called.
TypeOK ==
  /\ proc \in [Procs -> Slots]
  /\ usig \in [Procs -> [AllSigs -> Actions \cup {"DEFER"}]]
  /\ pc \in [Procs -> PCs]
  /\ call \in [Procs -> AllCalls \cup {"none", "drain"}]
  /\ todo \in [Procs -> SUBSET Procs] /\ f \in [Procs -> BOOLEAN]
  /\ timer \in [Procs -> {"off", "on", "out"}]
  /\ ready \in SUBSET Streams
  /\ rsel \in [Streams -> Procs \cup {NoProc}] /\ coll \in SUBSET Streams
  /\ stale \in SUBSET Procs
  /\ used \in [Bounded -> Nat]
  /\ NoPanic

Init ==
  /\ proc = [p \in Procs |->
               IF p = InitP THEN [FreeSlot EXCEPT !.stat = "RUN"]
               ELSE IF p = First
               THEN [FreeSlot EXCEPT !.stat = "RUN", !.pptr = InitP]
               ELSE FreeSlot]
  /\ usig = [p \in Procs |-> [s \in AllSigs |-> "DFL"]]
  /\ pc = [p \in Procs |-> IF p \in {InitP, First} THEN "user" ELSE "none"]
  /\ call = [p \in Procs |-> "none"]
  /\ todo = [p \in Procs |-> {}] /\ f = [p \in Procs |-> FALSE]
  /\ timer = [p \in Procs |-> "off"]
  /\ ready = {} /\ rsel = [e \in Streams |-> NoProc] /\ coll = {}
  /\ stale = {}
  /\ used = [x \in Bounded |-> 0]

-----------------------------------------------------------------------------
(***************************************************************************)
(* The process table: each operator maps a table, or one entry of it, to   *)
(* the next.                                                               *)
(***************************************************************************)
Live(r) == r.stat \notin {"FREE", "ZOMB"}

Setrun(r) == [r EXCEPT !.wchan = NoChan, !.stat = "RUN"]

\* A stopped process is taken off the channel and stays stopped.
Wakeup(t, c) ==
  [q \in Procs |->
     IF t[q].wchan # c THEN t[q]
     ELSE [t[q] EXCEPT !.wchan = NoChan, !.tsl = 0,
                       !.stat = IF @ = "SLEEP" THEN "RUN" ELSE @]]

\* psignal's cases.  s is posted to entry r, whose action for it is neither
\* SIG_IGN nor SIG_HOLD.
Interrupted(r) == r.stat = "SLEEP" /\ r.intr
DefaultStop(r, s) == Interrupted(r) /\ s \in StopSigs /\ r.siga[s] = "DFL"
KilledInstead(r, s) == DefaultStop(r, s) /\ s # "STOP" /\ r.pptr = InitP
StopsAtOnce(r, s) == DefaultStop(r, s) /\ ~KilledInstead(r, s)
DefaultChild(r, s) == Interrupted(r) /\ s = "CHLD" /\ r.siga[s] = "DFL"

\* Mutant: SIGKILL does not set a stopped process running.
Runs_KillWaits(r, s) ==
  \/ Interrupted(r) /\ (DefaultStop(r, s) => KilledInstead(r, s))
                    /\ ~DefaultChild(r, s)
  \/ r.stat = "STOP" /\ s = "CONT" /\ (r.siga[s] # "DFL" \/ r.wchan = NoChan)

\* Mutant: any signal sets a stopped process running.
Runs_AnySignal(r, s) ==
  \/ Interrupted(r) /\ (DefaultStop(r, s) => KilledInstead(r, s))
                    /\ ~DefaultChild(r, s)
  \/ r.stat = "STOP" /\ s \notin StopSigs

\* The sleep, or the stop, ends.
Runs(r, s) ==
  \/ Interrupted(r) /\ (DefaultStop(r, s) => KilledInstead(r, s))
                    /\ ~DefaultChild(r, s)
  \/ r.stat = "STOP" /\ s = "KILL"
  \/ r.stat = "STOP" /\ s = "CONT" /\ (r.siga[s] # "DFL" \/ r.wchan = NoChan)

\* A stopped process is taken off its channel: it will look at s later.
Unstuck(r, s) == /\ r.stat = "STOP" /\ r.intr
                 /\ s \notin StopSigs \cup {"KILL", "CONT"}

\* The signal is taken away again.
Taken(r, s) == \/ DefaultStop(r, s) \/ DefaultChild(r, s)
               \/ r.stat = "STOP" /\ s \in StopSigs

\* Mutant: SIGCONT is taken away when it makes a stopped process sleep on.
Pending_ContTaken(r, s) ==
  ((r.sig \ (IF s = "CONT" THEN StopSigs
             ELSE IF s \in StopSigs THEN {"CONT"} ELSE {}))
     \cup {s} \cup (IF KilledInstead(r, s) THEN {"KILL"} ELSE {}))
  \ (IF Taken(r, s) \/ (r.stat = "STOP" /\ s = "CONT") THEN {s} ELSE {})

\* Pending signals of an entry after psignal.
Pending(r, s) ==
  ((r.sig \ (IF s = "CONT" THEN StopSigs
             ELSE IF s \in StopSigs THEN {"CONT"} ELSE {}))
     \cup {s} \cup (IF KilledInstead(r, s) THEN {"KILL"} ELSE {}))
  \ (IF Taken(r, s) THEN {s} ELSE {})

\* Mutant: psignal does not take a process off its channel to set it running.
Leaves_NoUnsleep(r, s) == Unstuck(r, s)

\* The entry is taken off its channel.
Leaves(r, s) == Runs(r, s) \/ Unstuck(r, s)

\* psignal, as far as the entry itself is concerned.
Posted(r, s) ==
  IF ~Live(r) \/ r.siga[s] = "IGN" THEN r
  ELSE IF r.siga[s] = "HOLD"
  THEN [r EXCEPT !.sig = Pending([r EXCEPT !.stat = "RUN"], s)]
  ELSE [r EXCEPT
          !.sig = Pending(r, s),
          !.cursig = IF StopsAtOnce(r, s) THEN s ELSE @,
          !.wchan = IF Leaves(r, s) THEN NoChan ELSE @,
          !.stat = IF Runs(r, s) THEN "RUN"
                   ELSE IF StopsAtOnce(r, s) THEN "STOP"
                   ELSE IF r.stat = "STOP" /\ s = "CONT" THEN "SLEEP"
                   ELSE @,
          !.swted = @ /\ ~StopsAtOnce(r, s)]

\* Mutant: the parent gets the signal, but is not woken.
ToldParent_NoWakeup(t, p) == [t EXCEPT ![t[p].pptr] = Posted(@, "CHLD")]

\* stop: the entry is stopped already; its parent is told.
ToldParent(t, p) ==
  LET w == Wakeup(t, t[p].pptr)
  IN  [w EXCEPT ![t[p].pptr] = Posted(@, "CHLD")]
Stopped(r) == [r EXCEPT !.stat = "STOP", !.swted = FALSE]

Psignal(t, p, s) ==
  LET u == [t EXCEPT ![p] = Posted(@, s)]
  IN  IF Live(t[p]) /\ t[p].siga[s] = "DFL" /\ StopsAtOnce(t[p], s)
      THEN ToldParent(u, p) ELSE u

\* issig's loop, from one swtch to the next.  It takes the signals in the
\* order of their numbers, SIGKILL before all others.
Rank(s) == CASE s = "KILL" -> 0 [] s = "HUP" -> 1 [] s = "STOP" -> 17
             [] s = "TSTP" -> 18 [] s = "CONT" -> 19 [] s = "CHLD" -> 20

\* Mutant: issig does not mask p_ignsig.
Seen_All(r) == r.sig

\* What issig sees, and what it takes and forgets because the default action
\* is to ignore it.
Seen(r) == {s \in r.sig : r.siga[s] \notin {"IGN", "HOLD"}}
Forgotten(p, r) ==
  {s \in Seen(r) : \/ usig[p][s] \in {"IGN", "HOLD"}
                   \/ usig[p][s] = "DFL" /\ s \in {"CONT", "CHLD"}}

\* The outcome of the loop: nothing to do, a signal for psig, or a stop.
Look(p, r) ==
  LET todoSigs == Seen(r) \ Forgotten(p, r)
      s == CHOOSE x \in todoSigs : \A y \in todoSigs : Rank(x) <= Rank(y)
      left == r.sig \ {x \in Seen(r) : Rank(x) <= Rank(s)}
      stops == s \in StopSigs /\ usig[p][s] = "DFL"
  IN IF todoSigs = {}
     THEN [what |-> "none",
           r |-> [r EXCEPT !.sig = @ \ Seen(r), !.cursig = NoSig]]
     ELSE IF stops /\ s # "STOP" /\ r.pptr = InitP
     THEN [what |-> "send",
           r |-> [r EXCEPT !.sig = left \ {"KILL"}, !.cursig = "KILL"]]
     ELSE IF stops
     THEN [what |-> "stop",
           r |-> Stopped([r EXCEPT !.sig = left, !.cursig = s])]
     ELSE [what |-> "send", r |-> [r EXCEPT !.sig = left, !.cursig = s]]

-----------------------------------------------------------------------------
(***************************************************************************)
(* sleep and tsleep.                                                       *)
(***************************************************************************)
Running(p) == /\ proc[p].stat = "RUN"
              /\ \A q \in Procs \ {p} : pc[q] \notin OnCPU

\* The slots at which the loops of wait1 and exit do something.  No interrupt
\* makes or unmakes a child of the process that has the CPU.
Children(p) == {q \in Procs : proc[q].stat # "FREE" /\ proc[q].pptr = p}

Goto(p, place) == pc' = [pc EXCEPT ![p] = place]

\* The calls that sleep in tsleep.
Timed(c) == c \notin {"wait", "io"}

\* Mutant: stioctl waits on when a signal has ended its sleep.
Ends_IoctlGoesOn(c, v) == IF v = "SIG" THEN c \notin {"accept", "drain", "ioctl"}
                         ELSE v = "TIME" /\ c \in {"ioctl", "select"}

\* Does call c end when its sleep has returned v?
Ends(c, v) == IF v = "SIG" THEN c \notin {"accept", "drain"}
              ELSE v = "TIME" /\ c \in {"ioctl", "select"}

\* The caller goes on when sleep or tsleep has returned v; "SIG" is a longjmp
\* to the end of the system call, or tsleep's TS_SIG.  tm is timer as it was.
\* A call to tsleep that ends before its time leaves p_tsleep as it is.
Continue(p, v, tm) ==
  LET c == call[p]
      ends == Ends(c, v) IN
  /\ timer' = IF Timed(c)
              THEN [tm EXCEPT ![p] = IF @ = "on" THEN "off" ELSE @] ELSE tm
  /\ todo' = [todo EXCEPT ![p] = IF c = "wait" /\ ~ends THEN Children(p)
                                              ELSE {}]
  /\ call' = [call EXCEPT ![p] = IF c = "accept" /\ v # "OK"
                                 THEN "drain" ELSE @]
  /\ Goto(p, CASE ends -> "ret"
               [] ~ends /\ call'[p] = "drain" -> "drain"
               [] ~ends /\ c = "wait" -> "scan"
               [] ~ends /\ c = "select" -> "selscan"
               [] ~ends /\ c \in {"read", "io", "ioctl"} -> "test"
               [] ~ends /\ c = "accept" /\ v = "OK" -> "test")

\* issig, called from sleep, has found something: o is its outcome.
Interrupt(p, t, o, tm) ==
  \/ /\ o.what = "send"
     /\ proc' = [t EXCEPT ![p] = [o.r EXCEPT !.wchan = NoChan,
                                             !.timo = @ /\ ~Timed(call[p])]]
     /\ Continue(p, "SIG", tm)
  \/ /\ o.what = "stop"
     /\ proc' = ToldParent([t EXCEPT ![p] = o.r], p)
     /\ Goto(p, "sleepstop") /\ timer' = tm
     /\ UNCHANGED <<call, todo>>

\* sleep(c), or tsleep(c) for at most secs seconds, of process p; t is the
\* process table.
Sleep(p, t, c, intr, secs) ==
  LET r == [t[p] EXCEPT !.wchan = c, !.intr = intr,
                        !.tsl = IF Timed(call[p]) THEN secs ELSE @]
      o == IF intr /\ r.sig # {} THEN Look(p, r)
           ELSE [what |-> "none", r |-> r]
      tm == IF Timed(call[p])
            THEN [timer EXCEPT ![p] = IF secs = 0 THEN "off" ELSE "on"]
            ELSE timer
  IN \/ /\ o.what = "none"
        /\ proc' = [t EXCEPT ![p] = [o.r EXCEPT !.stat = "SLEEP"]]
        /\ Goto(p, "asleep") /\ timer' = tm
        /\ UNCHANGED <<call, todo>>
     \/ Interrupt(p, t, o, tm)

\* The rest of sleep and of tsleep, once p runs again.
Awake(p) ==
  LET r == proc[p]
      o == IF pc[p] = "sleepstop" \/ (r.intr /\ r.sig # {})
           THEN Look(p, r) ELSE [what |-> "none", r |-> r]
  IN
  /\ pc[p] \in {"asleep", "sleepstop"} /\ Running(p)
  /\ \/ /\ o.what = "none"
        /\ proc' = [proc EXCEPT ![p] =
                      [o.r EXCEPT !.timo = @ /\ ~Timed(call[p])]]
        /\ Continue(p, IF Timed(call[p]) /\ r.timo THEN "TIME" ELSE "OK", timer)
     \/ Interrupt(p, proc, o, timer)
  /\ UNCHANGED <<usig, f, selVars, used>>

-----------------------------------------------------------------------------
(***************************************************************************)
(* System calls.                                                           *)
(***************************************************************************)
Use(x, max) == used[x] < max /\ used' = [used EXCEPT ![x] = @ + 1]

\* init waits whenever it has children, and does nothing else.
Call(p, c) ==
  /\ pc[p] = "user" /\ Running(p) /\ c \in Calls \cup {"wait"}
  /\ IF p = InitP
     THEN c = "wait" /\ (\E q \in Procs : proc[q].pptr = p) /\ UNCHANGED used
     ELSE c \in Calls /\ Use("calls", MaxCalls)
  /\ call' = [call EXCEPT ![p] = c]
  /\ timer' = [timer EXCEPT ![p] = "off"]
  /\ Goto(p, CASE c = "wait" -> "scan" [] c = "select" -> "selscan"
               [] OTHER -> "test")
  /\ todo' = [todo EXCEPT ![p] = IF c = "wait" THEN Children(p) ELSE {}]
  /\ f' = [f EXCEPT ![p] = FALSE]
  /\ UNCHANGED <<tabVars, selVars>>

\* The loops of stread and of a driver: while there is nothing, sleep.
Take(p, e) ==
  /\ pc[p] = "test" /\ Running(p) /\ e \in ready
  /\ ready' = ready \ {e}
  /\ Goto(p, "ret")
  /\ UNCHANGED <<tabVars, call, todo, f, timer, rsel, coll, stale, used>>

Await(p, e, secs) ==
  /\ pc[p] = "test" /\ Running(p) /\ e \notin ready
  /\ secs > 0 => call[p] = "ioctl"      \* the others wait for ever
  /\ Sleep(p, proc, e, call[p] # "io", secs)
  /\ UNCHANGED <<usig, f, selVars, used>>

\* stclose, after an open that failed: wait a second for the output to drain.
DrainOutput(p) ==
  /\ pc[p] = "drain" /\ Running(p)
  /\ Sleep(p, proc, Drain, TRUE, 1)
  /\ UNCHANGED <<usig, f, selVars, used>>

DrainEnd(p) ==
  /\ pc[p] = "drain" /\ Running(p)
  /\ Goto(p, "ret")
  /\ UNCHANGED <<tabVars, call, todo, f, timer, selVars, used>>

\* wait1 looks at child q, at spl0.
WaitLook(p, q) ==
  LET stopped == proc[q].stat = "STOP" /\ ~proc[q].swted IN
  /\ pc[p] = "scan" /\ Running(p) /\ q \in todo[p]
  /\ f' = [f EXCEPT ![p] = TRUE]
  /\ \/ /\ proc[q].stat = "ZOMB"
        /\ proc' = [proc EXCEPT ![q] = FreeSlot]
        /\ Goto(p, "ret") /\ todo' = [todo EXCEPT ![p] = {}]
     \/ /\ stopped
        /\ proc' = [proc EXCEPT ![q].swted = TRUE]
        /\ Goto(p, "ret") /\ todo' = [todo EXCEPT ![p] = {}]
     \/ /\ proc[q].stat # "ZOMB" /\ ~stopped
        /\ todo' = [todo EXCEPT ![p] = @ \ {q}]
        /\ UNCHANGED <<proc, pc>>
  /\ UNCHANGED <<usig, call, timer, selVars, used>>

\* All slots have been passed.
WaitSleep(p) ==
  /\ pc[p] = "scan" /\ Running(p) /\ todo[p] = {} /\ f[p]
  /\ Sleep(p, proc, p, TRUE, 0)
  /\ UNCHANGED <<usig, f, selVars, used>>

WaitNoChild(p) ==
  /\ pc[p] = "scan" /\ Running(p) /\ todo[p] = {} /\ ~f[p]
  /\ Goto(p, "ret")
  /\ UNCHANGED <<tabVars, call, todo, f, timer, selVars, used>>
-----------------------------------------------------------------------------
(***************************************************************************)
(* select of all streams, for reading; and selwakeup.                      *)
(***************************************************************************)
\* stselect for each stream of S: somebody who registered earlier and still
\* sleeps in select shares with p.
Shared(S) == {e \in S : rsel[e] # NoProc /\ proc[rsel[e]].wchan = SelWait}
Register(p, S) ==
  /\ coll' = coll \cup Shared(S)
  /\ rsel' = [e \in Streams |-> IF e \in S \ Shared(S) THEN p ELSE rsel[e]]

\* ncoll = nselcoll, the flag SSEL, and selscan, which no longer registers
\* once it has found a stream with data.
SelScan(p) ==
  /\ pc[p] = "selscan" /\ Running(p)
  /\ stale' = stale \ {p}
  /\ proc' = [proc EXCEPT ![p].ssel = TRUE]
  /\ \/ /\ ready # {}
        /\ \E S \in SUBSET (Streams \ ready) : Register(p, S)
        /\ Goto(p, "ret")
     \/ /\ ready = {}
        /\ Register(p, Streams)
        /\ Goto(p, "selsleep")
  /\ UNCHANGED <<usig, call, todo, f, timer, ready, used>>

\* Mutant: sleep without looking at SSEL.
SelSleep_NoCheck(p, secs) ==
  /\ pc[p] = "selsleep" /\ Running(p)
  /\ Sleep(p, [proc EXCEPT ![p].ssel = FALSE], SelWait, TRUE, secs)
  /\ UNCHANGED <<usig, f, selVars, used>>

\* At spl6: has selwakeup been here since?  If not, sleep.
SelSleep(p, secs) ==
  LET t == [proc EXCEPT ![p].ssel = FALSE]
      retry == ~proc[p].ssel \/ p \in stale
  IN
  /\ pc[p] = "selsleep" /\ Running(p)
  /\ \/ /\ retry
        /\ proc' = t /\ Goto(p, "selscan")
        /\ UNCHANGED <<call, todo, timer>>
     \/ ~retry /\ Sleep(p, t, SelWait, TRUE, secs)
  /\ UNCHANGED <<usig, f, selVars, used>>

\* The time given to select is over before it sleeps.
SelOver(p) ==
  /\ pc[p] = "selsleep" /\ Running(p)
  /\ Goto(p, "ret")
  /\ UNCHANGED <<tabVars, call, todo, f, timer, selVars, used>>

Selwakeup(t, e) ==
  LET w == IF e \in coll THEN Wakeup(t, SelWait) ELSE t
  IN  [q \in Procs |-> IF q # rsel[e] THEN w[q]
                       ELSE IF w[q].wchan = SelWait THEN Setrun(w[q])
                       ELSE [w[q] EXCEPT !.ssel = FALSE]]

-----------------------------------------------------------------------------
(***************************************************************************)
(* Back to the user: the signals.                                          *)
(***************************************************************************)
\* A trap, of the clock for one, brings a process into the kernel.
Trap(p) ==
  /\ pc[p] = "user" /\ Running(p) /\ proc[p].sig # {}
  /\ Goto(p, "ret")
  /\ UNCHANGED <<tabVars, call, todo, f, timer, selVars, used>>

\* psig: the action of signal r.cursig of entry r.
CatchSig(p, r) ==
  LET s == r.cursig IN
  /\ usig[p][s] \in {"CATCH", "DEFER"}
  /\ usig' = [usig EXCEPT ![p][s] = IF @ = "DEFER" THEN "HOLD" ELSE "DFL"]
  /\ proc' = [proc EXCEPT ![p] =
                [r EXCEPT !.cursig = NoSig,
                          !.siga[s] = IF usig[p][s] = "DEFER"
                                      THEN "HOLD" ELSE @]]
  /\ Goto(p, "user")

\* exit(n), up to where it may sleep: nothing gets through to it any more.
\* Its n is kept in code.
Doomed(r, n) == [r EXCEPT !.siga = [s \in AllSigs |-> "IGN"], !.code = n]
ExitBegin(p, r, n) ==
  /\ p # InitP
  /\ proc' = [proc EXCEPT ![p] = Doomed(r, n)]
  /\ usig' = [usig EXCEPT ![p] = [s \in AllSigs |-> "IGN"]]
  /\ Goto(p, "exiting")

DieOfSig(p, r) == usig[p][r.cursig] = "DFL" /\ ExitBegin(p, r, r.cursig)

\* if (p->p_cursig || (p->p_sig && issig())) psig();
Ret(p) ==
  LET o == IF pc[p] # "retstop" /\ proc[p].cursig # NoSig
           THEN [what |-> "send", r |-> proc[p]]
           ELSE IF pc[p] # "retstop" /\ proc[p].sig = {}
           THEN [what |-> "none", r |-> proc[p]]
           ELSE Look(p, proc[p])
  IN
  /\ pc[p] \in {"ret", "forked", "retstop"} /\ Running(p)
  /\ \/ /\ o.what = "none"
        /\ proc' = [proc EXCEPT ![p] = o.r]
        /\ Goto(p, "user") /\ UNCHANGED usig
     \/ o.what = "send" /\ CatchSig(p, o.r)
     \/ o.what = "send" /\ DieOfSig(p, o.r)
     \/ /\ o.what = "stop"
        /\ proc' = ToldParent([proc EXCEPT ![p] = o.r], p)
        /\ Goto(p, "retstop") /\ UNCHANGED usig
  /\ call' = [call EXCEPT ![p] = "none"]
  /\ UNCHANGED <<todo, f, timer, selVars, used>>
-----------------------------------------------------------------------------
(***************************************************************************)
(* exit, fork, signal and kill.                                            *)
(***************************************************************************)
Exit(p) ==
  /\ pc[p] = "user" /\ Running(p)
  /\ ExitBegin(p, proc[p], "exit")
  /\ UNCHANGED <<call, todo, f, timer, selVars, used>>

\* Memory and files are gone.
ExitZomb(p) ==
  /\ pc[p] = "exiting" /\ Running(p)
  /\ proc' = [proc EXCEPT ![p].stat = "ZOMB"]
  /\ todo' = [todo EXCEPT ![p] = Children(p)]
  /\ Goto(p, "orphaning")
  /\ UNCHANGED <<usig, call, f, timer, selVars, used>>

\* What spgrp(q, -1) reaches: q, its children, theirs.
Family(t, q) ==
  {r \in Procs :
     \A S \in SUBSET Procs :
       /\ q \in S
       /\ \A a \in Procs : t[a].stat # "FREE" /\ t[a].pptr \in S => a \in S
       => r \in S}

Orphaned(t, q) ==
  LET u == Wakeup([t EXCEPT ![q].pptr = InitP], InitP)
      v == IF u[q].stat # "STOP" THEN u
           ELSE Psignal(Psignal(u, q, "HUP"), q, "CONT")
  IN  [r \in Procs |-> IF r \notin Family(v, q) THEN v[r]
                       ELSE [v[r] EXCEPT !.sig = @ \ {"TSTP"}]]

\* Mutant: zombies stay with their dead parent.
ExitChild_NoZombies(p, q) ==
  /\ pc[p] = "orphaning" /\ q \in todo[p]
  /\ todo' = [todo EXCEPT ![p] = @ \ {q}]
  /\ IF Live(proc[q]) THEN proc' = Orphaned(proc, q) ELSE UNCHANGED proc
  /\ UNCHANGED <<usig, pc, call, f, timer, selVars, used>>

\* The loop over the slots; each child goes to init.
ExitChild(p, q) ==
  /\ pc[p] = "orphaning" /\ q \in todo[p]
  /\ todo' = [todo EXCEPT ![p] = @ \ {q}]
  /\ proc' = Orphaned(proc, q)
  /\ UNCHANGED <<usig, pc, call, f, timer, selVars, used>>

\* Mutant: the parent is not woken.
ExitDone_NoWakeup(p) ==
  /\ pc[p] = "orphaning" /\ todo[p] = {}
  /\ proc' = Psignal(proc, proc[p].pptr, "CHLD")
  /\ Goto(p, "none") /\ call' = [call EXCEPT ![p] = "none"]
  /\ UNCHANGED <<usig, todo, f, timer, selVars, used>>

ExitDone(p) ==
  /\ pc[p] = "orphaning" /\ todo[p] = {}
  /\ proc' = Psignal(Wakeup(proc, proc[p].pptr), proc[p].pptr, "CHLD")
  /\ Goto(p, "none") /\ call' = [call EXCEPT ![p] = "none"]
  /\ UNCHANGED <<usig, todo, f, timer, selVars, used>>

\* newproc: slot q, and procdup, which may sleep.
Fork(p, q) ==
  /\ pc[p] = "user" /\ Running(p) /\ p # InitP
  /\ proc[q].stat = "FREE" /\ Use("forks", MaxForks)
  /\ proc' = [proc EXCEPT ![q] = [FreeSlot EXCEPT !.stat = "IDL", !.pptr = p,
                                                  !.siga = proc[p].siga]]
  /\ Goto(p, "forking")
  /\ UNCHANGED <<usig, call, todo, f, timer, selVars>>

ForkEnd(p, q) ==
  /\ pc[p] = "forking" /\ Running(p)
  /\ proc[q].stat = "IDL" /\ proc[q].pptr = p
  /\ proc' = [proc EXCEPT ![q].stat = "RUN"]
  /\ usig' = [usig EXCEPT ![q] = usig[p]]
  /\ pc' = [pc EXCEPT ![p] = "ret", ![q] = "forked"]
  /\ timer' = [timer EXCEPT ![q] = "off"]
  /\ UNCHANGED <<call, todo, f, selVars, used>>

\* signal(s, a)
Ssig(p, s, a) ==
  /\ pc[p] = "user" /\ p # InitP
  /\ Use("sets", MaxSets) /\ Running(p)
  /\ usig' = [usig EXCEPT ![p][s] = a]
  /\ proc' = [proc EXCEPT
                ![p].sig = IF usig[p][s] = "IGN" THEN @ \ {s} ELSE @,
                ![p].siga[s] = IF a = "DEFER" THEN "CATCH" ELSE a]
  /\ Goto(p, "ret")
  /\ UNCHANGED <<call, todo, f, timer, selVars>>

\* kill(q, s).  Nobody sends signals to init.
Kill(p, q, s) ==
  /\ pc[p] = "user" /\ p # InitP
  /\ q # InitP /\ proc[q].stat # "FREE" /\ Use("kills", MaxKills) /\ Running(p)
  /\ proc' = Psignal(proc, q, s)
  /\ Goto(p, "ret")
  /\ UNCHANGED <<usig, call, todo, f, timer, selVars>>

-----------------------------------------------------------------------------
(***************************************************************************)
(* Interrupts.                                                             *)
(***************************************************************************)
\* strput: data arrive on stream e; the readers are woken, and selwakeup.
Data(e) ==
  LET w == Wakeup(proc, e) IN
  /\ e \notin ready /\ ready' = ready \cup {e}
  /\ IF rsel[e] = NoProc
     THEN proc' = w /\ UNCHANGED <<rsel, coll, stale>>
     ELSE /\ proc' = Selwakeup(w, e)
          /\ stale' = IF e \in coll THEN Procs ELSE stale
          /\ rsel' = [rsel EXCEPT ![e] = NoProc] /\ coll' = coll \ {e}
  /\ UNCHANGED <<usig, callVars, used>>

\* gsignal: a signal from the terminal.
TtySignal(q, s) ==
  /\ q # InitP /\ proc[q].stat # "FREE" /\ s \in {"HUP", "TSTP"}
  /\ Use("tty", MaxTty)
  /\ proc' = Psignal(proc, q, s)
  /\ UNCHANGED <<usig, callVars, selVars>>

\* softclock, for one process: its time is over.
TimedOut(r) == [r EXCEPT !.wchan = NoChan, !.timo = TRUE, !.tsl = 0,
                         !.stat = IF @ = "SLEEP" THEN "RUN" ELSE @]

\* Mutant: a stopped process is left on its channel, and not told.
Tick_SkipStopped(r) == IF r.tsl > 1 THEN [r EXCEPT !.tsl = @ - 1]
                       ELSE IF r.stat = "STOP" THEN [r EXCEPT !.tsl = 0]
                       ELSE TimedOut(r)

Tick(r) == IF r.tsl > 1 THEN [r EXCEPT !.tsl = @ - 1] ELSE TimedOut(r)

\* What softclock does to an entry when a second is over.
Second(q) ==
  /\ Live(proc[q]) /\ proc[q].tsl > 0
  /\ proc' = [proc EXCEPT ![q] = Tick(@)]
  /\ timer' = [timer EXCEPT ![q] = IF @ = "on" /\ proc[q].tsl = 1
                                   THEN "out" ELSE @]
  /\ UNCHANGED <<usig, pc, call, todo, f, selVars, used>>

-----------------------------------------------------------------------------
Step(p) ==      \* what p does by itself once it runs
  \/ \E secs \in 0..MaxSecs, e \in Streams : Await(p, e, secs)
  \/ \E e \in Streams : Take(p, e)
  \/ SelScan(p)
  \/ \E secs \in 1..MaxSecs : SelSleep(p, secs)
  \/ Awake(p) \/ DrainOutput(p) \/ DrainEnd(p)
  \/ \E q \in Procs : WaitLook(p, q)
  \/ WaitSleep(p) \/ WaitNoChild(p)
  \/ Trap(p) \/ Ret(p)
  \/ ExitZomb(p) \/ ExitDone(p)
  \/ \E q \in Procs : ExitChild(p, q) \/ ForkEnd(p, q)

User(p) ==      \* what its program may want
  \/ \E c \in AllCalls : Call(p, c)
  \/ \E q \in Procs : Fork(p, q)
  \/ \E sa \in Settable : Ssig(p, sa[1], sa[2])
  \/ \E q \in Procs, s \in Sigs : Kill(p, q, s)
  \/ Exit(p)

Next ==
  \/ \E p \in Procs : Step(p) \/ User(p) \/ SelOver(p) \/ Second(p)
  \/ \E e \in Streams : Data(e)
  \/ \E q \in Procs, s \in Sigs : TtySignal(q, s)

\* The scheduler runs whoever can run, init waits for its children, the clock
\* ticks, and what is asked of a device comes.
Fairness ==
  /\ \A p \in Procs : WF_vars(Step(p)) /\ WF_vars(Second(p))
  /\ \A e \in Streams : WF_vars(Data(e))
  /\ WF_vars(Call(InitP, "wait"))

Spec     == Init /\ [][Next]_vars
FairSpec == Spec /\ Fairness

-----------------------------------------------------------------------------
(***************************************************************************)
(* Properties.                                                             *)
(***************************************************************************)
\* Nobody sleeps for data that are there already, in a read or in a select,
\* whatever came between the look at the stream and the sleep.
NoLostEvent ==
  \A p \in Procs :
    proc[p].stat = "SLEEP" =>
      /\ proc[p].wchan \notin ready
      /\ proc[p].wchan = SelWait => ready = {}

\* Whoever sleeps in wait1 has a child to wait for, and none that is a zombie already or has
\* stopped without his having been told: "Look also for stopped (traced) children, and pass back
\* status from them".
WaitsForSomething ==
  \A p \in Procs :
    proc[p].stat = "SLEEP" /\ proc[p].wchan = p =>
      /\ \E q \in Procs : proc[q].stat # "FREE" /\ proc[q].pptr = p
      /\ \A q \in Procs : proc[q].pptr = p =>
           /\ ~(proc[q].stat = "ZOMB" /\ pc[q] = "none")
           /\ ~(proc[q].stat = "STOP" /\ ~proc[q].swted)

\* The parent of a process exists; exit leaves its children, zombies too, to
\* init.
ParentLives ==
  \A q \in Procs \ {InitP} :
    LET p == proc[q].pptr IN
    proc[q].stat # "FREE" => \/ Live(proc[p])
                             \/ pc[p] = "orphaning" /\ q \in todo[p]

\* The time of a timed sleep is running, and once it has run out the process
\* does not sleep: not even if it was stopped meanwhile.
TimedSleepEnds ==
  \A p \in Procs :
    proc[p].stat = "SLEEP" /\ timer[p] # "off" /\ Timed(call[p]) =>
      timer[p] = "on" /\ proc[p].tsl > 0

\* "These are the signals which by default stop a process": no process exits
\* because of one.
StopsDontKill == \A p \in Procs : proc[p].code \notin StopSigs

\* SIGSTOP and its like suspend a process until SIGCONT; SIGKILL ends a stop
\* too, nothing else does.
StoppedUntilContinued ==
  [][\A p \in Procs :
       proc[p].stat = "STOP" /\ proc'[p].stat # "STOP" =>
         {"CONT", "KILL"} \cap (proc'[p].sig \ proc[p].sig) # {}]_vars

\* "The signal bit has already been cleared by issig, and the current signal
\* number stored in p->p_cursig": it stays there until psig acts on it.
TakenSignalKept ==
  [][\A p \in Procs :
       /\ Live(proc[p]) /\ proc[p].cursig \notin StopSigs \cup {NoSig}
       /\ proc'[p].cursig # proc[p].cursig
       => pc[p] = "ret"]_vars

\* A signal that is held stays pending as long as it is held.
HeldKept ==
  [][\A p \in Procs, s \in {"HUP", "CHLD"} :
       /\ s \in proc[p].sig /\ proc[p].siga[s] = "HOLD"
       /\ Live(proc'[p]) /\ proc'[p].siga[s] = "HOLD"
       => s \in proc'[p].sig]_vars

\* SIGKILL is sure: a process that has been sent one dies, wherever it is.
KilledDies ==
  \A p \in Procs \ {InitP} :
    Live(proc[p]) /\ "KILL" \in proc[p].sig ~> ~Live(proc[p])

\* init lays its children to rest, the orphans too.
OrphansReaped ==
  \A p \in Procs \ {InitP} :
    proc[p].stat = "ZOMB" /\ proc[p].pptr = InitP ~> proc[p].stat = "FREE"
=============================================================================
