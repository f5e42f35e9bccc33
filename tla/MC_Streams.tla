----------------------------- MODULE MC_Streams -----------------------------
(***************************************************************************)
(* Instances of Streams for TLC.  A scenario says at which end each of     *)
(* three processes is, what it does there over and over, and what may      *)
(* happen to it.                                                           *)
(***************************************************************************)
EXTENDS Streams, TLC
CONSTANTS p1, p2, p3

\* Two processes at A, or one at each end and a third at A or B.
Pipe(a, b, c) ==
  [does |-> p1 :> a @@ p2 :> b @@ p3 :> c, at |-> p1 :> "A" @@ p2 :> "B" @@ p3 :> "A",
   mod |-> FALSE, may |-> {}]
With(s) == [s EXCEPT !.mod = TRUE]
May(s, what) == [s EXCEPT !.may = what]
OtherWay(s) == [s EXCEPT !.at = p1 :> "B" @@ p2 :> "A" @@ p3 :> "B"]

Writes == {"write"}
Reads == {"read"}

AllScenarios ==
  {Pipe(Writes, Reads, Writes), With(Pipe(Writes, Reads, Writes)), OtherWay(With(Pipe(Writes, Reads, {}))),
   With(Pipe({"write", "close"}, Reads, {})), OtherWay(With(Pipe({"write", "close"}, Reads, {}))),
   With(Pipe({"close"}, {"write", "read", "close"}, {})), OtherWay(With(Pipe({"close"}, {"write", "read", "close"}, {}))),
   May(With(Pipe({"write", "close"}, Reads, {})), {"slow"}),
   With(Pipe({"ioctl"}, Reads, {"ioctl", "write"})), OtherWay(With(Pipe({"ioctl"}, Reads, {"write"}))),
   May(With(Pipe({"ioctl", "write"}, Reads, {})), {"signal"}),
   With(Pipe({"write", "flush"}, Reads, {})), With(Pipe({"read", "flush"}, {"write", "close"}, {})),
   Pipe({"write", "push", "pop"}, Reads, {}), With(Pipe({"select"}, Reads, Writes))}
=============================================================================
