------------------------------ MODULE PingPong ------------------------------
(***************************************************************************)
(* The H9 program of hosted/signal.c: a producer and a consumer that block *)
(* on each other through Wait/Signal, and a task that never blocks.        *)
(***************************************************************************)
EXTENDS ExecKernel

CONSTANTS prod, cons, busy,
          DATA, ACK,         \* SIG_DATA, SIG_ACK
          CountMod           \* the bound: the counters are kept modulo this

ASSUME PingPongAssumption ==
    /\ Task = {prod, cons, busy}
    /\ SigBit = {DATA, ACK}
    /\ CountMod \in Nat /\ CountMod > 4

VARIABLES at,      \* the statement of producer() / consumer() to run next
          count    \* self->count

ppVars == <<vars, at, count>>

PPInit ==
    /\ Init
    /\ at = [t \in {prod, cons} |-> IF t = prod THEN "signal" ELSE "wait"]
    /\ count = [t \in {prod, cons} |-> 0]

CountUp(t) ==
    /\ At(t, "user")
    /\ at[t] = "count"
    /\ count' = [count EXCEPT ![t] = (@ + 1) % CountMod]
    /\ UNCHANGED vars

\* for (;;) { Signal(t_cons, SIG_DATA); self->count++; Wait(SIG_ACK); }
producer ==
    \/ /\ at[prod] = "signal"
       /\ CallSignal(prod, cons, {DATA})
       /\ at' = [at EXCEPT ![prod] = "count"]
       /\ UNCHANGED count
    \/ /\ CountUp(prod)
       /\ at' = [at EXCEPT ![prod] = "wait"]
    \/ /\ at[prod] = "wait"
       /\ CallWait(prod, {ACK})
       /\ at' = [at EXCEPT ![prod] = "signal"]
       /\ UNCHANGED count

\* for (;;) { Wait(SIG_DATA); self->count++; Signal(t_prod, SIG_ACK); }
consumer ==
    \/ /\ at[cons] = "wait"
       /\ CallWait(cons, {DATA})
       /\ at' = [at EXCEPT ![cons] = "count"]
       /\ UNCHANGED count
    \/ /\ CountUp(cons)
       /\ at' = [at EXCEPT ![cons] = "signal"]
    \/ /\ at[cons] = "signal"
       /\ CallSignal(cons, prod, {ACK})
       /\ at' = [at EXCEPT ![cons] = "wait"]
       /\ UNCHANGED count

\* busy() makes no call: it stays at "user" and is only switched in and out.
Pair == {prod, cons}

PPNext ==
    \/ producer
    \/ consumer
    \/ (Boot \/ Tick \/ \E t \in Pair : KernelStep(t)) /\ UNCHANGED <<at, count>>

PPSpec == PPInit /\ [][PPNext]_ppVars

PPFairness ==
    /\ WF_ppVars(Boot /\ UNCHANGED <<at, count>>)
    /\ WF_ppVars(tick_init /\ UNCHANGED <<at, count>>)
    /\ SF_ppVars(tick_switch /\ UNCHANGED <<at, count>>)
    /\ SF_ppVars(expired /\ tick_shutdown /\ UNCHANGED <<at, count>>)
    /\ SF_ppVars(producer \/ (KernelStep(prod) /\ UNCHANGED <<at, count>>))
    /\ SF_ppVars(consumer \/ (KernelStep(cons) /\ UNCHANGED <<at, count>>))

PPLive == PPSpec /\ PPFairness

\* The ping-pong never stalls: each side keeps counting, whatever the timer
\* interrupts, until the tick limit.
PingPongProgress ==
    \A t \in Pair, n \in 0..CountMod - 1 :
        count[t] = n ~> (count[t] # n \/ expired)
=============================================================================
