---------------------------- MODULE MC_BufCache ----------------------------
(* BufCache on small instances. *)
EXTENDS BufCache, TLC

Symmetry == Permutations(Bufs) \cup Permutations(Procs)
            \cup Permutations(Blocks \ {Super})
            \cup Permutations(Values)
=============================================================================
