----------------------------- MODULE MCRecordLoop -----------------------------
(* RecordLoop for TLC.  The threads of the MtEncoder run the same code and    *)
(* are told apart by nothing, and no property names one of them, so states    *)
(* that differ only in which thread is which need not be told apart either.   *)
(* The runs check safety only, for which symmetry is sound.                   *)
EXTENDS RecordLoop, TLC

ThreadSymmetry == Permutations(Threads)
===============================================================================
