--------------------------- MODULE CoreAudioRing ----------------------------
(***************************************************************************)
(* The lock-free ring of hosted/coreaudio/coreaudio_shim.c: one producer   *)
(* thread in ca_ring_push, one consumer in ca_render_cb, which is either   *)
(* CoreAudio's real-time thread or the offline driver ca_render_to_wav     *)
(* with its availability gate.                                             *)
(*                                                                         *)
(* head and tail are free-running uint32_t counters (modulo Word); one     *)
(* step is one atomic access or one frame copied.  A frame is what the     *)
(* producer offers as its k-th accepted frame, Src(k).  The acquire and    *)
(* release orderings make the interleaving of these steps the executions.  *)
(***************************************************************************)
EXTENDS Integers, Sequences

CONSTANTS Cap,         \* slots, a power of two
          Word,        \* 2^32 in the code
          Frame,       \* stereo frames
          Silence,     \* the frame 0.0, 0.0
          Src(_),      \* the k-th frame the producer offers
          MaxPush,     \* the bound on the frames of one ca_ring_push
          MaxWant,     \* the bound on the frames of one callback
          Total        \* the bound on the frames of a run

ASSUME RingAssumption ==
    /\ Cap \in Nat /\ Cap >= 2
    \* both are powers of two and Cap is the smaller one
    /\ Word \in Nat /\ \E m \in 2..Word : Word = m * Cap
    /\ \A k \in 0..Total : Src(k) \in Frame
    /\ MaxPush \in Nat /\ MaxWant \in Nat /\ Total \in Nat

VARIABLES slots, head, tail,
          pushed, consumed,      \* the diagnostic totals
          underruns,             \* the last callback was short
          heard,                 \* the block the last callback returned
          ppc, p_tail, p_n, p_i, \* ca_ring_push and its locals
          cpc, c_head, c_take, c_want, c_i, out, \* ca_render_cb and its locals
          gaveUp,                \* the gate's spin budget ran out
          offline                \* ca_render_to_wav drives the callback

prodVars == <<ppc, p_tail, p_n, p_i>>
consVars == <<cpc, c_head, c_take, c_want, c_i, out, gaveUp, offline>>
vars == <<slots, head, tail, pushed, consumed, underruns, heard, prodVars, consVars>>

Least(a, b) == IF a <= b THEN a ELSE b

Index(x) == x % Cap            \* x & c->mask

Init ==
    /\ slots = [i \in 0..Cap - 1 |-> Silence]   \* calloc
    /\ head = 0 /\ tail = 0
    /\ pushed = 0 /\ consumed = 0 /\ underruns = FALSE
    /\ heard = <<>>
    /\ ppc = "idle" /\ p_tail = 0 /\ p_n = 0 /\ p_i = 0
    /\ cpc = "idle" /\ c_head = 0 /\ c_take = 0 /\ c_want = 0 /\ c_i = 0
    /\ out = <<>> /\ gaveUp = FALSE /\ offline \in BOOLEAN

-----------------------------------------------------------------------------
(* ca_ring_push *)

\* A mutated reservation: no slot is kept unused.
MutFreeFrames(h) == Cap - ((tail - h) % Word)

\* (cap - 1) - (tail - head), what ca_ring_push and ca_ring_space compute.
FreeFrames(h) == (Cap - 1) - ((tail - h) % Word)

\* Loads head (acquire) and its own tail, and clamps the request.
push_begin(frames) ==
    /\ ppc = "idle"
    /\ pushed + frames <= Total
    /\ p_tail' = tail
    /\ p_n' = Least(frames, FreeFrames(head))
    /\ p_i' = 0
    /\ ppc' = "copy"
    /\ UNCHANGED <<slots, head, tail, pushed, consumed, underruns, heard, consVars>>

\* A mutated copy: it starts one slot too far.
MutPushCopy ==
    /\ ppc = "copy"
    /\ p_i < p_n
    /\ slots' = [slots EXCEPT ![Index(p_tail + p_i + 1)] = Src(pushed + p_i)]
    /\ p_i' = p_i + 1
    /\ UNCHANGED <<head, tail, pushed, consumed, underruns, heard, ppc, p_tail, p_n, consVars>>

push_copy ==
    /\ ppc = "copy"
    /\ p_i < p_n
    /\ slots' = [slots EXCEPT ![Index(p_tail + p_i)] = Src(pushed + p_i)]
    /\ p_i' = p_i + 1
    /\ UNCHANGED <<head, tail, pushed, consumed, underruns, heard, ppc, p_tail, p_n, consVars>>

\* tail = tail + n (release).
push_publish ==
    /\ ppc = "copy"
    /\ p_i = p_n
    /\ tail' = (p_tail + p_n) % Word
    /\ ppc' = "count"
    /\ UNCHANGED <<slots, head, pushed, consumed, underruns, heard, p_tail, p_n, p_i, consVars>>

push_count ==
    /\ ppc = "count"
    /\ pushed' = pushed + p_n
    /\ p_tail' = 0 /\ p_n' = 0 /\ p_i' = 0
    /\ ppc' = "idle"
    /\ UNCHANGED <<slots, head, tail, consumed, underruns, heard, consVars>>

-----------------------------------------------------------------------------
(* ca_render_cb, and the gate of ca_render_to_wav *)

render_request(want) ==
    /\ cpc = "idle"
    /\ c_want' = want
    /\ cpc' = IF offline THEN "gate" ELSE "load"
    /\ gaveUp' = FALSE
    /\ UNCHANGED <<slots, head, tail, pushed, consumed, underruns, heard,
                   prodVars, c_head, c_take, c_i, out, offline>>

\* A mutated gate: one frame is enough.
MutGateOpen == (tail - head) % Word >= 1

GateOpen == (tail - head) % Word >= c_want

gate_pass ==
    /\ cpc = "gate"
    /\ GateOpen
    /\ cpc' = "load"
    /\ UNCHANGED <<slots, head, tail, pushed, consumed, underruns, heard,
                   prodVars, c_head, c_take, c_want, c_i, out, gaveUp, offline>>

\* A mutated gate: no spin budget.
MutGateSpin ==
    /\ cpc = "gate"
    /\ ~GateOpen
    /\ UNCHANGED vars

\* ++spins > SPIN_BUDGET
gate_give_up ==
    /\ cpc = "gate"
    /\ ~GateOpen
    /\ gaveUp' = TRUE
    /\ cpc' = "load"
    /\ UNCHANGED <<slots, head, tail, pushed, consumed, underruns, heard,
                   prodVars, c_head, c_take, c_want, c_i, out, offline>>

\* Loads its own head and tail (acquire).
render_load ==
    /\ cpc = "load"
    /\ c_head' = head
    /\ c_take' = Least((tail - head) % Word, c_want)
    /\ c_i' = 0
    /\ out' = <<>>
    /\ cpc' = "copy"
    /\ UNCHANGED <<slots, head, tail, pushed, consumed, underruns, heard,
                   prodVars, c_want, gaveUp, offline>>

render_copy ==
    /\ cpc = "copy"
    /\ c_i < c_take
    /\ out' = Append(out, slots[Index(c_head + c_i)])
    /\ c_i' = c_i + 1
    /\ UNCHANGED <<slots, head, tail, pushed, consumed, underruns, heard,
                   prodVars, cpc, c_head, c_take, c_want, gaveUp, offline>>

\* A mutated underrun: the rest of the buffer keeps old frames.
MutNoSilence ==
    /\ cpc = "copy"
    /\ c_i = c_take
    /\ heard' = [i \in 1..c_want |-> IF i <= c_take THEN out[i]
                                     ELSE slots[Index(c_head + i - 1)]]
    /\ underruns' = (c_take < c_want)
    /\ head' = (c_head + c_take) % Word
    /\ cpc' = "count"
    /\ UNCHANGED <<slots, tail, pushed, consumed, prodVars, c_head, c_take,
                   c_want, c_i, out, gaveUp, offline>>

\* Silence for the rest, underruns++ if short, head = head + take (release).
render_publish ==
    /\ cpc = "copy"
    /\ c_i = c_take
    /\ heard' = [i \in 1..c_want |-> IF i <= c_take THEN out[i] ELSE Silence]
    /\ underruns' = (c_take < c_want)
    /\ head' = (c_head + c_take) % Word
    /\ cpc' = "count"
    /\ UNCHANGED <<slots, tail, pushed, consumed, prodVars, c_head, c_take,
                   c_want, c_i, out, gaveUp, offline>>

render_count ==
    /\ cpc = "count"
    /\ consumed' = consumed + c_take
    /\ c_head' = 0 /\ c_take' = 0 /\ c_i' = 0 /\ out' = <<>>
    /\ cpc' = "idle"
    /\ UNCHANGED <<slots, head, tail, pushed, underruns, heard, prodVars, c_want, gaveUp, offline>>

-----------------------------------------------------------------------------

Producer ==
    \/ \E frames \in 1..MaxPush : push_begin(frames)
    \/ push_copy \/ push_publish \/ push_count

Consumer ==
    \/ \E want \in 1..MaxWant : render_request(want)
    \/ gate_pass \/ gate_give_up
    \/ render_load \/ render_copy \/ render_publish \/ render_count

Next == Producer \/ Consumer

Spec == Init /\ [][Next]_vars

\* The offline driver and the callback run to their end; the callback never
\* waits, and the gate gives up in the end.  Nothing is assumed of the producer.
LiveSpec == Spec /\ WF_vars(gate_pass \/ gate_give_up \/ render_load \/ render_copy
                            \/ render_publish \/ render_count)

-----------------------------------------------------------------------------
(* Properties *)

\* The frames ever published and ever released, also between the store of an
\* index and the update of its diagnostic total.
P == IF ppc = "count" THEN pushed + p_n ELSE pushed
C == IF cpc = "count" THEN consumed + c_take ELSE consumed

\* The ring's state keeps its type.
TypeOK ==
    /\ slots \in [0..Cap - 1 -> Frame \cup {Silence}]
    /\ head \in 0..Word - 1 /\ tail \in 0..Word - 1
    /\ pushed \in Nat /\ consumed \in Nat /\ underruns \in BOOLEAN
    /\ ppc \in {"idle", "copy", "count"}
    /\ p_tail \in 0..Word - 1 /\ p_n \in Nat /\ p_i \in Nat
    /\ cpc \in {"idle", "gate", "load", "copy", "count"}
    /\ c_head \in 0..Word - 1 /\ c_take \in Nat /\ c_want \in Nat /\ c_i \in Nat
    /\ out \in Seq(Frame \cup {Silence}) /\ heard \in Seq(Frame \cup {Silence})
    /\ gaveUp \in BOOLEAN /\ offline \in BOOLEAN

\* The free-running counters keep meaning "frames produced" and "frames
\* consumed" across their wrap at 2^32, the consumer never passes the
\* producer, and at most Cap - 1 frames are pending: one slot stays unused.
Counters ==
    /\ head = C % Word /\ tail = P % Word
    /\ C <= P /\ P - C <= Cap - 1

\* No frame is overwritten before it was played: every pending frame is in
\* its slot, although the producer works with a head that may be stale.
PendingIntact ==
    \A k \in C..P - 1 : slots[Index(k)] = Src(k)

\* The availability gate works: the offline render is short only when the
\* gate gave up, so an underrun in the stats is a producer that died.
GateMeansNoUnderrun ==
    offline /\ cpc = "count" /\ ~gaveUp => ~underruns

\* Every callback returns, also when the producer is dead.
RenderReturns == cpc # "idle" ~> cpc = "idle"

\* The ring implements the bounded queue: the pending frames, in ring order,
\* are the queue, and the blocks returned are the ones it allows.
Pending == [i \in 1..(tail - head) % Word |-> slots[Index(head + i - 1)]]

Fifo == INSTANCE AudioFifo WITH queue <- Pending, Capacity <- Cap - 1

FifoSpec == Fifo!Spec
=============================================================================
