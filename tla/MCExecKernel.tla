---------------------------- MODULE MCExecKernel ----------------------------
(* Three workers, one of them above the other two, which are symmetric. *)
EXTENDS ExecKernel
CONSTANTS t1, t2, t3

PriTwo == [t \in Task |-> IF t = t1 THEN 1 ELSE 0]

Sym == Permutations({t2, t3})
=============================================================================
