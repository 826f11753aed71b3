----------------------------- MODULE MCKernHeap -----------------------------
(* Three workers of hosted/kern.c on a heap with room for two blocks; the client of
   hosted/mem.c on the same region. *)
EXTENDS KernHeap

PriFlat == [t \in Task |-> 0]
=============================================================================
