------------------------------- MODULE MCCpu --------------------------------
(* Three kinds of behaviour: one integer instruction from a sampled state,
   one block of FP instructions, and the engine running one of four small
   programs that between them end blocks in every way. *)
EXTENDS M68kDiff, M68kFpu, MCJit

VARIABLE part
cpuVars == <<cpu, fpu, jitVars, part>>

MCInit ==
    /\ DiffInit /\ FpInit /\ JitInit
    /\ part \in {"integer", "floating", "engine"}
    /\ part = "engine" \/ prog = Looping
MCNext ==
    \/ part = "integer" /\ DiffNext /\ UNCHANGED <<fpu, jitVars, part>>
    \/ part = "floating" /\ FpNext /\ UNCHANGED <<cpu, jitVars, part>>
    \/ part = "engine" /\ JitNext /\ UNCHANGED <<cpu, fpu, part>>
MCSpec ==
    /\ MCInit /\ [][MCNext]_cpuVars
    /\ WF_cpuVars(part = "engine" /\ EngineStep /\ UNCHANGED <<cpu, fpu, part>>)
=============================================================================
