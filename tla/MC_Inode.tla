------------------------------ MODULE MC_Inode ------------------------------
(***************************************************************************)
(* Instances of TextTable (and of InodeCache below it) for TLC.  A         *)
(* scenario says what each of three processes may do, over and over; the   *)
(* swapper sw swaps when the scenario has it.                              *)
(***************************************************************************)
EXTENDS TextTable, TLC
CONSTANTS p1, p2, p3, sw

Files == {"f", "g"}
Names == {"a", "b"}
TwoNames == [n \in Names |-> IF n = "a" THEN "f" ELSE "g"]
OneName == [n \in Names |-> IF n = "a" THEN "f" ELSE "none"]

OpenClose == {"open", "close"}
CreatClose == {"creat", "close"}
ExecExit == {"exec", "exit"}
MountUnmount == {"mount", "unmount"}

\* A mounted file system with one file, nothing fails, no one swaps or pages.
Basic(a, b, c) ==
  [does |-> p1 :> a @@ p2 :> b @@ p3 :> c @@ sw :> {},
   dir |-> OneName, insub |-> {}, mounted |-> TRUE, fails |-> {}, pageout |-> FALSE]
Swapped(s) == [s EXCEPT !.does[sw] = {"swap"}]
TwoFiles(s) == [s EXCEPT !.dir = TwoNames]
Failing(s, what) == [s EXCEPT !.fails = what]
InSub(s) == [s EXCEPT !.insub = {"b"}]
Unmounted(s) == [s EXCEPT !.mounted = FALSE]
Paged(s) == [s EXCEPT !.pageout = TRUE]

FileScenarios ==
  {TwoFiles(Basic(OpenClose, OpenClose, {"sync"})),
   Basic(OpenClose, MountUnmount, {}),
   InSub(Basic(CreatClose, {"unlink"}, {})),
   InSub(Basic(CreatClose, CreatClose, {})),
   Unmounted(Basic(OpenClose, {"mount"}, {"sync"})),
   Failing(Unmounted(Basic(OpenClose, MountUnmount, {})), {"iread", "iupdat"}),
   Failing(Basic(CreatClose, OpenClose, {"sync"}), {"writei"}),
   Basic({"dotdot"}, OpenClose, {"sync"})}
TextScenarios ==
  {Swapped(Basic(ExecExit, ExecExit, {})),
   Basic(ExecExit, CreatClose, {}),
   Swapped(Basic({"exec"}, {"unlink"}, {})),
   Swapped(Basic(ExecExit \cup {"fork"}, {"exit"}, {})),
   Paged(Swapped(TwoFiles(Basic(ExecExit, {}, {})))),
   TwoFiles(Basic(ExecExit, {"unlink"}, {})),
   Paged(TwoFiles(Basic(ExecExit, ExecExit, {})))}
AllScenarios == FileScenarios \cup TextScenarios

\* A text is unmounted while it is being left.
UnmountText == {Basic(ExecExit, {"unmount"}, {})}
\* A text is looked for by creat, swapped and left.
SwapLeft == {Swapped(Basic(ExecExit, CreatClose, {}))}
\* The inode block of a file cannot be read after another file has been removed.
ReadFails == {Failing(TwoFiles(Basic(OpenClose, {"unlink"}, {})), {"iread"})}
\* The directory cannot be written when a file is removed.
UnlinkFails == {Failing(Basic({"unlink"}, {}, {}), {"writei"})}
\* ".." leads out of a file system that is being unmounted.
DotDot == {Basic({"dotdot"}, {"unmount"}, {"sync"})}
=============================================================================
