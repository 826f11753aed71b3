------------------------------- MODULE MCJit --------------------------------
(* Small guest programs that between them end blocks in every way. *)
EXTENDS JitEngine, TLC

B(inc, fr, fw, k, to, ret) ==
    [inc |-> inc, fr |-> fr, fw |-> fw, t |-> [k |-> k, to |-> to, ret |-> ret]]
\* Loops that count, the inner one left through an FP block that calls a
\* library; block 1 is the
\* exception handler.
Looping ==
    (0 :> B({0}, {}, {}, "bcc", 2, 0)) @@ (1 :> B({1}, {}, {}, "rte", 0, 0))
    @@ (2 :> B({}, {1}, {0}, "lib", 3, 4)) @@ (3 :> B({1}, {}, {}, "rts", 0, 0))
    @@ (4 :> B({0}, {}, {}, "dbcc", 0, 5)) @@ (5 :> B({}, {}, {}, "rts", 0, 0))
\* Subroutines, a jump onto a vector, a trap, a DBcc loop.
Calling3 ==
    (0 :> B({0}, {}, {}, "bsr", 2, 3)) @@ (1 :> B({}, {0}, {1}, "rte", 0, 0))
    @@ (2 :> B({1}, {}, {}, "tail", 4, 0)) @@ (3 :> B({}, {}, {}, "trap", 0, 5))
    @@ (4 :> B({}, {}, {}, "rts", 0, 0)) @@ (5 :> B({0}, {}, {}, "dbcc", 5, 6))
    @@ (6 :> B({}, {}, {}, "bra", 0, 0))
\* A loop that never leaves translated code.
Spinning == (0 :> B({0}, {}, {}, "bra", 0, 0)) @@ (1 :> B({}, {}, {}, "rte", 0, 0))
\* Calls and falls out of the sandbox, into a handler that does so too; ends
\* the program by a jump, or by an rte that nothing was pushed for.
Straying ==
    (0 :> B({0}, {}, {}, "lib", 9, 3)) @@ (1 :> B({}, {}, {}, "dbcc", 9, 2))
    @@ (2 :> B({}, {}, {}, "rte", 0, 0)) @@ (3 :> B({}, {}, {}, "tail", 2, 0))
MCPrograms == {Looping, Calling3, Spinning, Straying}
=============================================================================
