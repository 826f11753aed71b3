----------------------------- MODULE AudioFifo ------------------------------
(***************************************************************************)
(* What the CoreAudio shim promises its two sides: a bounded queue of      *)
(* frames.  The producer appends a block, the render callback takes frames *)
(* from the front and gets silence for the ones it misses.                 *)
(***************************************************************************)
EXTENDS Integers, Sequences

CONSTANTS Frame, Silence, Capacity,
          MaxWant    \* the frames a callback may ask for

VARIABLES queue,    \* accepted and not yet rendered
          heard     \* the block of the last render callback

Init == queue = <<>> /\ heard = <<>>

Push(block) ==
    /\ Len(queue) + Len(block) <= Capacity
    /\ queue' = queue \o block
    /\ UNCHANGED heard

\* A callback for `want' frames that takes the first n of them.
Render(n, want) ==
    /\ n <= Len(queue) /\ n <= want
    /\ heard' = [i \in 1..want |-> IF i <= n THEN queue[i] ELSE Silence]
    /\ queue' = SubSeq(queue, n + 1, Len(queue))

Next ==
    \/ \E n \in 1..Capacity : \E block \in [1..n -> Frame] : Push(block)
    \/ \E want \in 0..MaxWant : \E n \in 0..want : Render(n, want)

Spec == Init /\ [][Next]_<<queue, heard>>
=============================================================================
