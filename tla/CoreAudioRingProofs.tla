------------------------ MODULE CoreAudioRingProofs -------------------------
(***************************************************************************)
(* Proofs about CoreAudioRing, for every ring size, every counter width    *)
(* that is a multiple of it and every stream of frames: the ring keeps its *)
(* counters and its frames, the offline gate means what it says, and the   *)
(* ring implements the bounded queue AudioFifo.                            *)
(***************************************************************************)
EXTENDS CoreAudioRing, SequenceTheorems, TLAPS

-----------------------------------------------------------------------------
(* Free-running counters: what is left of a count modulo a power of two *)

\* A number is a multiple and a remainder.
LEMMA Remainder ==
  ASSUME NEW x \in Int, NEW n \in Nat \ {0}
  PROVE  /\ x % n \in 0 .. n - 1
         /\ \E q \in Int : x = n * q + (x % n)
<1>1. x \div n \in Int /\ x = n * (x \div n) + (x % n) /\ x % n \in 0 .. n - 1
  OBVIOUS
<1> QED  BY <1>1

LEMMA Unique ==
  ASSUME NEW n \in Nat \ {0}, NEW q \in Int, NEW r \in 0 .. n - 1
  PROVE  (n * q + r) % n = r
OBVIOUS

\* Adding a multiple changes no remainder.
LEMMA AddMultiple ==
  ASSUME NEW n \in Nat \ {0}, NEW x \in Int, NEW k \in Int
  PROVE  (x + n * k) % n = x % n
<1>1. PICK q \in Int : x = n * q + (x % n)
  BY Remainder
<1>2. x % n \in 0 .. n - 1
  BY Remainder
<1> DEFINE r == x % n
<1> HIDE DEF r
<1>3. x + n * k = n * (q + k) + r
  BY <1>1, <1>2 DEF r
<1>4. q + k \in Int
  OBVIOUS
<1> QED  BY <1>2, <1>3, <1>4, Unique DEF r

\* A sum may be reduced at any time.
LEMMA Reduced ==
  ASSUME NEW n \in Nat \ {0}, NEW x \in Int, NEW y \in Int
  PROVE  ((x % n) + y) % n = (x + y) % n
<1>1. PICK q \in Int : x = n * q + (x % n)
  BY Remainder
<1> DEFINE r == x % n
<1>2. r \in Int
  BY Remainder
<1>3. x = n * q + r
  BY <1>1
<1> HIDE DEF r
<1>4. r + y \in Int /\ x + y = (r + y) + n * q
  BY <1>2, <1>3
<1>5. ((r + y) + n * q) % n = (r + y) % n
  BY <1>4, AddMultiple
<1> QED  BY <1>4, <1>5 DEF r

\* Two numbers less than n apart are told apart by their remainders.
LEMMA Apart ==
  ASSUME NEW n \in Nat \ {0}, NEW x \in Int, NEW y \in Int, x <= y, y - x < n
  PROVE  /\ ((y % n) - (x % n)) % n = y - x
         /\ x % n = y % n => x = y
<1>1. y % n \in 0 .. n - 1 /\ x % n \in 0 .. n - 1
  BY Remainder
<1>2. PICK q \in Int : x = n * q + (x % n)
  BY Remainder
<1> DEFINE r == x % n
           s == y % n
<1>3. r \in 0 .. n - 1 /\ s \in 0 .. n - 1 /\ x = n * q + r
  BY <1>1, <1>2
<1>4. (s + (-x)) % n = (y + (-x)) % n
  <2>1. \A z \in Int : ((y % n) + z) % n = (y + z) % n
    BY Reduced
  <2>2. -x \in Int
    OBVIOUS
  <2> QED  BY <2>1, <2>2
<1> HIDE DEF r, s
<1>5. (s - r) + n * (-q) = s + (-x) /\ s - r \in Int /\ -q \in Int
  <2>1. n * (-q) = -(n * q) /\ n * q \in Int
    OBVIOUS
  <2> QED  BY <1>3, <2>1
<1>6. (s - r) % n = (y - x) % n
  <2>1. ((s - r) + n * (-q)) % n = (s - r) % n
    BY <1>5, AddMultiple
  <2>2. y + (-x) = y - x
    OBVIOUS
  <2> QED  BY <1>4, <1>5, <2>1, <2>2
<1>7. (y - x) % n = y - x
  <2>1. y - x \in 0 .. n - 1 /\ n * 0 + (y - x) = y - x
    OBVIOUS
  <2> QED  BY <2>1, Unique
<1>8. s = r => x = y
  <2>1. n * 0 + 0 = 0 /\ 0 \in 0 .. n - 1
    OBVIOUS
  <2>2. 0 % n = 0
    BY <2>1, Unique
  <2> QED  BY <1>3, <1>6, <1>7, <2>2
<1> QED  BY <1>6, <1>7, <1>8 DEF r, s

\* A slot is the same whether it is found from the full count or from the
\* counter that has wrapped.
LEMMA Wrapped ==
  ASSUME NEW x \in Int, NEW y \in Int
  PROVE  Index((x % Word) + y) = Index(x + y)
<1>1. PICK m \in 2 .. Word : Word = m * Cap
  BY RingAssumption
<1>2. Word \in Nat \ {0} /\ Cap \in Nat \ {0}
  BY <1>1, RingAssumption
<1>3. PICK q \in Int : x = Word * q + (x % Word)
  BY <1>2, Remainder
<1> DEFINE r == x % Word
           k == m * q
<1>4. r \in Int /\ x = Word * q + r
  BY <1>2, <1>3, Remainder
<1> HIDE DEF r
<1>5. k \in Int /\ Word * q = Cap * k
  BY <1>1, <1>2
<1> HIDE DEF k
<1>6. r + y \in Int /\ x + y = (r + y) + Cap * k
  BY <1>2, <1>4, <1>5
<1>7. ((r + y) + Cap * k) % Cap = (r + y) % Cap
  BY <1>2, <1>5, <1>6, AddMultiple
<1> QED  BY <1>6, <1>7 DEF Index, r

-----------------------------------------------------------------------------
(* The invariant *)

\* The counters, as Counters states them, with the reservation of a push in
\* progress counted in: the producer's stale head makes it smaller than what
\* is free, never larger.
CountInv ==
  /\ {pushed, consumed, p_n, p_i, c_take, c_i} \subseteq Nat /\ c_want \in 0 .. MaxWant
  /\ Counters /\ P <= Total
  /\ ppc \in {"idle", "copy", "count"} /\ cpc \in {"idle", "gate", "load", "copy", "count"}
  /\ p_tail \in 0 .. Word - 1 /\ c_head \in 0 .. Word - 1
  /\ ppc = "copy" => p_tail = tail /\ p_i <= p_n /\ P + p_n - C <= Cap - 1 /\ P + p_n <= Total
  /\ cpc = "copy" => c_head = head /\ c_i <= c_take /\ C + c_take <= P /\ c_take <= c_want
\* Every frame copied so far by a push is in its slot too, and what a
\* callback has copied are the oldest pending frames.
Copied == IF ppc = "copy" THEN p_i ELSE 0
FrameInv ==
  /\ slots \in [0 .. Cap - 1 -> Frame \cup {Silence}]
  /\ \A k \in C .. P + Copied - 1 : slots[Index(k)] = Src(k)
  /\ out \in Seq(Frame \cup {Silence}) /\ heard \in Seq(Frame \cup {Silence})
  /\ cpc = "copy" => Len(out) = c_i /\ \A i \in 1 .. c_i : out[i] = Src(C + i - 1)
\* What the gate saw stays: only the callback itself takes frames.
GateInv ==
  /\ underruns \in BOOLEAN /\ gaveUp \in BOOLEAN /\ offline \in BOOLEAN
  /\ offline /\ ~gaveUp => /\ cpc = "load" => C + c_want <= P
                           /\ cpc = "copy" => c_take = c_want
                           /\ cpc = "count" => ~underruns
RingInv == CountInv /\ FrameInv /\ GateInv

\* What the two sides compute from the wrapped counters.
LEMMA Measured ==
  ASSUME CountInv
  PROVE  /\ C \in Nat /\ P \in Nat /\ C <= P /\ P - C <= Cap - 1
         /\ Cap \in Nat /\ Cap >= 2 /\ Word \in Nat /\ Word > Cap
         /\ head \in 0 .. Word - 1 /\ tail \in 0 .. Word - 1
         /\ (tail - head) % Word = P - C
         /\ FreeFrames(head) = Cap - 1 - (P - C)
<1>1. Cap \in Nat /\ Cap >= 2 /\ Word \in Nat /\ Word > Cap
  <2>1. PICK m \in 2 .. Word : Word = m * Cap
    BY RingAssumption
  <2> QED  BY <2>1, RingAssumption
<1>2. C \in Nat /\ P \in Nat /\ C <= P /\ P - C <= Cap - 1 /\ head = C % Word /\ tail = P % Word
  BY DEF CountInv, Counters, C, P
<1> HIDE DEF C, P
<1>3. head \in 0 .. Word - 1 /\ tail \in 0 .. Word - 1
  BY <1>1, <1>2, Remainder
<1>4. (tail - head) % Word = P - C
  <2>1. C \in Int /\ P \in Int /\ Word \in Nat \ {0} /\ P - C < Word
    BY <1>1, <1>2
  <2>2. ((P % Word) - (C % Word)) % Word = P - C
    BY <1>2, <2>1, Apart
  <2> QED  BY <1>2, <2>2
<1> QED  BY <1>1, <1>2, <1>3, <1>4 DEF FreeFrames

\* A count that goes on from a wrapped counter.
LEMMA Advanced ==
  ASSUME CountInv, NEW n \in Nat
  PROVE  /\ (tail + n) % Word = (P + n) % Word
         /\ (head + n) % Word = (C + n) % Word
<1>1. C \in Nat /\ P \in Nat /\ Word \in Nat \ {0}
  BY Measured
<1>2. head = C % Word /\ tail = P % Word
  BY DEF CountInv, Counters
<1> HIDE DEF C, P
<1>3. C \in Int /\ P \in Int /\ n \in Int
  BY <1>1
<1>4. ((P % Word) + n) % Word = (P + n) % Word /\ ((C % Word) + n) % Word = (C + n) % Word
  BY <1>1, <1>3, Reduced
<1> QED  BY <1>2, <1>4

\* The slot of the next frame of either side.
LEMMA NextSlot ==
  ASSUME CountInv, NEW n \in Nat
  PROVE  /\ Index(tail + n) = Index(P + n) /\ Index(head + n) = Index(C + n)
         /\ Index(P + n) \in 0 .. Cap - 1 /\ Index(C + n) \in 0 .. Cap - 1
<1>1. C \in Nat /\ P \in Nat /\ Cap \in Nat \ {0}
  BY Measured
<1>2. head = C % Word /\ tail = P % Word
  BY DEF CountInv, Counters
<1> HIDE DEF C, P
<1>3. P \in Int /\ C \in Int /\ n \in Int /\ P + n \in Int /\ C + n \in Int
  BY <1>1
<1>4. Index(P + n) \in 0 .. Cap - 1 /\ Index(C + n) \in 0 .. Cap - 1
  BY <1>1, <1>3, Remainder DEF Index
<1>5. Index((P % Word) + n) = Index(P + n) /\ Index((C % Word) + n) = Index(C + n)
  BY <1>3, Wrapped
<1> QED  BY <1>2, <1>4, <1>5

\* Frames within Cap of each other have slots of their own.
LEMMA OwnSlot ==
  ASSUME CountInv, NEW j \in Nat, NEW k \in Nat, j <= k, k - j < Cap, Index(j) = Index(k)
  PROVE  j = k
<1>1. Cap \in Nat \ {0}
  BY Measured
<1>2. j \in Int /\ k \in Int /\ j % Cap = k % Cap
  BY DEF Index
<1> QED  BY <1>1, <1>2, Apart

-----------------------------------------------------------------------------
(* The producer's steps *)

LEMMA PushBegins ==
  ASSUME RingInv, NEW frames \in 1 .. MaxPush, push_begin(frames)
  PROVE  RingInv' /\ UNCHANGED <<C, P, heard, slots, head, tail>>
<1>1. /\ ppc = "idle" /\ pushed + frames <= Total /\ ppc' = "copy"
      /\ p_tail' = tail /\ p_n' = Least(frames, FreeFrames(head)) /\ p_i' = 0
      /\ UNCHANGED <<slots, head, tail, pushed, consumed, underruns, heard, consVars>>
  BY DEF push_begin
<1>2. C' = C /\ P' = P
  BY <1>1 DEF C, P, consVars
<1>3. FreeFrames(head) = Cap - 1 - (P - C) /\ C \in Nat /\ P \in Nat /\ C <= P /\ P - C <= Cap - 1
      /\ tail \in 0 .. Word - 1 /\ Cap \in Nat
  BY Measured DEF RingInv
<1>4. frames \in Nat /\ p_n' \in Nat /\ p_n' <= frames /\ p_n' <= Cap - 1 - (P - C)
  BY <1>1, <1>3, RingAssumption DEF Least
<1>5. P = pushed
  BY <1>1 DEF P
<1>6. CountInv'
  <2>1. Counters' /\ P' <= Total
    BY <1>1, <1>2 DEF RingInv, CountInv, Counters
  <2>2. p_n' \in Nat /\ p_i' \in Nat /\ p_i' <= p_n' /\ P' + p_n' - C' <= Cap - 1 /\ P' + p_n' <= Total
    <3> HIDE DEF C, P
    <3>1. Total \in Nat /\ pushed \in Nat
      BY RingAssumption DEF RingInv, CountInv
    <3> QED  BY <1>1, <1>2, <1>3, <1>4, <1>5, <3>1
  <2> QED  BY <1>1, <1>2, <1>3, <2>1, <2>2 DEF RingInv, CountInv, consVars
<1>7. FrameInv'
  <2>1. Copied = 0 /\ Copied' = 0
    BY <1>1 DEF Copied
  <2> QED  BY <1>1, <1>2, <2>1 DEF RingInv, FrameInv, consVars
<1>8. GateInv'
  BY <1>1, <1>2 DEF RingInv, GateInv, consVars
<1> QED  BY <1>1, <1>2, <1>6, <1>7, <1>8 DEF RingInv

LEMMA PushCopies ==
  ASSUME RingInv, push_copy
  PROVE  RingInv' /\ UNCHANGED <<C, P, heard, head, tail>>
<1>1. /\ ppc = "copy" /\ p_i < p_n /\ p_i' = p_i + 1
      /\ slots' = [slots EXCEPT ![Index(p_tail + p_i)] = Src(pushed + p_i)]
      /\ UNCHANGED <<head, tail, pushed, consumed, underruns, heard, ppc, p_tail, p_n, consVars>>
  BY DEF push_copy
<1>2. C' = C /\ P' = P /\ P = pushed
  BY <1>1 DEF C, P, consVars
<1>3. C \in Nat /\ P \in Nat /\ C <= P /\ Cap \in Nat /\ p_i \in Nat /\ p_n \in Nat
      /\ P + p_n - C <= Cap - 1 /\ P + p_n <= Total /\ p_tail = tail
  BY <1>1, Measured DEF RingInv, CountInv
<1>4. CountInv'
  <2>1. Counters' /\ P' <= Total
    BY <1>1, <1>2 DEF RingInv, CountInv, Counters
  <2>2. p_i' \in Nat /\ p_i' <= p_n'
    BY <1>1, <1>3
  <2> QED  BY <1>1, <1>2, <1>3, <2>1, <2>2 DEF RingInv, CountInv, consVars
<1> DEFINE k == P + p_i
<1>5. k \in 0 .. Total /\ Src(k) \in Frame
  <2> HIDE DEF P
  <2>1. k \in 0 .. Total
    BY <1>1, <1>3, RingAssumption
  <2> QED  BY <2>1, RingAssumption
<1>6. Index(p_tail + p_i) = Index(k) /\ Index(k) \in 0 .. Cap - 1
  BY <1>3, NextSlot DEF RingInv
<1>7. slots' = [slots EXCEPT ![Index(k)] = Src(k)]
  BY <1>1, <1>2, <1>6
<1>8. Copied = p_i /\ Copied' = p_i + 1
  BY <1>1 DEF Copied
<1> HIDE DEF C, P
<1>9. ASSUME NEW j \in C .. P + p_i
      PROVE  slots'[Index(j)] = Src(j)
  <2>1. j \in Nat /\ j <= k /\ k - j < Cap
    BY <1>1, <1>3
  <2>2. slots \in [0 .. Cap - 1 -> Frame \cup {Silence}]
    BY DEF RingInv, FrameInv
  <2>3. CASE j = k
    BY <1>6, <1>7, <2>2, <2>3
  <2>4. CASE j # k
    <3>1. Index(j) # Index(k)
      BY <1>5, <2>1, <2>4, OwnSlot DEF RingInv
    <3>2. slots[Index(j)] = Src(j)
      BY <1>3, <1>8, <2>1, <2>4 DEF RingInv, FrameInv
    <3>3. Index(j) \in 0 .. Cap - 1
      <4>1. j \in Int /\ Cap \in Nat \ {0}
        BY <2>1, RingAssumption
      <4> QED  BY <4>1, Remainder DEF Index
    <3> QED  BY <1>7, <2>2, <3>1, <3>2, <3>3
  <2> QED  BY <2>3, <2>4
<1>10. FrameInv'
  <2>1. slots' \in [0 .. Cap - 1 -> Frame \cup {Silence}]
    BY <1>5, <1>7 DEF RingInv, FrameInv
  <2>2. \A j \in C' .. P' + Copied' - 1 : slots'[Index(j)] = Src(j)
    BY <1>2, <1>3, <1>8, <1>9
  <2> QED  BY <1>1, <1>2, <2>1, <2>2 DEF RingInv, FrameInv, consVars
<1>11. GateInv'
  BY <1>1, <1>2 DEF RingInv, GateInv, consVars
<1> QED  BY <1>1, <1>2, <1>4, <1>10, <1>11 DEF RingInv

LEMMA PushPublishes ==
  ASSUME RingInv, push_publish
  PROVE  RingInv' /\ C' = C /\ P' = P + p_n /\ p_n \in Nat /\ P + p_n - C <= Cap - 1
         /\ P + p_n <= Total /\ UNCHANGED heard
<1>1. /\ ppc = "copy" /\ p_i = p_n /\ ppc' = "count" /\ tail' = (p_tail + p_n) % Word
      /\ UNCHANGED <<slots, head, pushed, consumed, underruns, heard, p_tail, p_n, p_i, consVars>>
  BY DEF push_publish
<1>2. C' = C /\ P' = P + p_n /\ P = pushed
  BY <1>1 DEF C, P, consVars
<1>3. C \in Nat /\ P \in Nat /\ C <= P /\ Cap \in Nat /\ p_i \in Nat /\ p_n \in Nat
      /\ P + p_n - C <= Cap - 1 /\ P + p_n <= Total /\ p_tail = tail
  BY <1>1, Measured DEF RingInv, CountInv
<1>4. CountInv'
  <2>1. tail' = P' % Word
    BY <1>1, <1>2, <1>3, Advanced DEF RingInv
  <2>2. head' = C' % Word
    BY <1>1, <1>2 DEF RingInv, CountInv, Counters
  <2>3. C' <= P' /\ P' - C' <= Cap - 1 /\ P' <= Total
    <3> HIDE DEF C, P
    <3> QED  BY <1>2, <1>3
  <2>4. cpc' = "copy" => C' + c_take' <= P'
    <3>1. cpc = "copy" => c_take \in Nat /\ C + c_take <= P
      BY DEF RingInv, CountInv
    <3> HIDE DEF C, P
    <3> QED  BY <1>1, <1>2, <1>3, <3>1 DEF consVars
  <2> QED  BY <1>1, <1>2, <2>1, <2>2, <2>3, <2>4 DEF RingInv, CountInv, Counters, consVars
<1>5. FrameInv'
  <2>1. Copied = p_n /\ Copied' = 0
    BY <1>1 DEF Copied
  <2> HIDE DEF C, P
  <2>2. \A j \in C' .. P' + Copied' - 1 : slots'[Index(j)] = Src(j)
    BY <1>1, <1>2, <1>3, <2>1 DEF RingInv, FrameInv
  <2> QED  BY <1>1, <1>2, <2>2 DEF RingInv, FrameInv, consVars
<1>6. GateInv'
  <2>1. offline /\ ~gaveUp /\ cpc = "load" => C' + c_want <= P'
    <3>1. offline /\ ~gaveUp /\ cpc = "load" => C + c_want <= P /\ c_want \in Nat
      BY RingAssumption DEF RingInv, GateInv, CountInv
    <3> HIDE DEF C, P
    <3> QED  BY <1>2, <1>3, <3>1
  <2> QED  BY <1>1, <1>2, <2>1 DEF RingInv, GateInv, consVars
<1> QED  BY <1>1, <1>2, <1>3, <1>4, <1>5, <1>6 DEF RingInv

LEMMA PushCounts ==
  ASSUME RingInv, push_count
  PROVE  RingInv' /\ UNCHANGED <<C, P, heard, slots, head, tail>>
<1>1. /\ ppc = "count" /\ ppc' = "idle" /\ pushed' = pushed + p_n /\ p_tail' = 0 /\ p_n' = 0 /\ p_i' = 0
      /\ UNCHANGED <<slots, head, tail, consumed, underruns, heard, consVars>>
  BY DEF push_count
<1>2. C' = C /\ P' = P
  BY <1>1 DEF C, P, consVars
<1>3. CountInv'
  <2>1. Counters' /\ P' <= Total
    BY <1>1, <1>2 DEF RingInv, CountInv, Counters
  <2>2. pushed' \in Nat /\ 0 \in 0 .. Word - 1
    BY <1>1, Measured DEF RingInv, CountInv
  <2> QED  BY <1>1, <1>2, <2>1, <2>2 DEF RingInv, CountInv, consVars
<1>4. FrameInv'
  <2>1. Copied = 0 /\ Copied' = 0
    BY <1>1 DEF Copied
  <2> QED  BY <1>1, <1>2, <2>1 DEF RingInv, FrameInv, consVars
<1>5. GateInv'
  BY <1>1, <1>2 DEF RingInv, GateInv, consVars
<1> QED  BY <1>1, <1>2, <1>3, <1>4, <1>5 DEF RingInv

-----------------------------------------------------------------------------
(* The consumer's steps *)

LEMMA RenderRequested ==
  ASSUME RingInv, NEW want \in 1 .. MaxWant, render_request(want)
  PROVE  RingInv' /\ UNCHANGED <<C, P, heard, slots, head, tail>>
<1>1. /\ cpc = "idle" /\ c_want' = want /\ cpc' = (IF offline THEN "gate" ELSE "load") /\ gaveUp' = FALSE
      /\ UNCHANGED <<slots, head, tail, pushed, consumed, underruns, heard,
                     prodVars, c_head, c_take, c_i, out, offline>>
  BY DEF render_request
<1>2. C' = C /\ P' = P /\ Copied' = Copied
  BY <1>1 DEF C, P, Copied, prodVars
<1>3. CountInv'
  <2>1. c_want' \in 0 .. MaxWant
    BY <1>1, RingAssumption
  <2> QED  BY <1>1, <1>2, <2>1 DEF RingInv, CountInv, Counters, prodVars
<1>4. FrameInv'
  BY <1>1, <1>2 DEF RingInv, FrameInv
<1>5. GateInv'
  BY <1>1, <1>2 DEF RingInv, GateInv
<1> QED  BY <1>1, <1>2, <1>3, <1>4, <1>5 DEF RingInv

\* Through the gate or past it.
LEMMA GateLeft ==
  ASSUME RingInv, gate_pass \/ gate_give_up
  PROVE  RingInv' /\ UNCHANGED <<C, P, heard, slots, head, tail>>
<1>1. /\ cpc = "gate" /\ cpc' = "load"
      /\ (gaveUp' = gaveUp \/ gaveUp' = TRUE)
      /\ (gaveUp' = TRUE \/ GateOpen)
      /\ UNCHANGED <<slots, head, tail, pushed, consumed, underruns, heard,
                     prodVars, c_head, c_take, c_want, c_i, out, offline>>
  BY DEF gate_pass, gate_give_up
<1>2. C' = C /\ P' = P /\ Copied' = Copied
  BY <1>1 DEF C, P, Copied, prodVars
<1>3. CountInv'
  BY <1>1, <1>2 DEF RingInv, CountInv, Counters, prodVars
<1>4. FrameInv'
  BY <1>1, <1>2 DEF RingInv, FrameInv
<1>5. GateInv'
  <2>1. GateOpen => C + c_want <= P
    <3>1. (tail - head) % Word = P - C /\ C \in Nat /\ P \in Nat /\ c_want \in Nat
      BY Measured, RingAssumption DEF RingInv, CountInv
    <3> HIDE DEF C, P
    <3> QED  BY <3>1 DEF GateOpen
  <2> QED  BY <1>1, <1>2, <2>1 DEF RingInv, GateInv
<1> QED  BY <1>1, <1>2, <1>3, <1>4, <1>5 DEF RingInv

LEMMA RenderLoads ==
  ASSUME RingInv, render_load
  PROVE  RingInv' /\ UNCHANGED <<C, P, heard, slots, head, tail>>
<1>1. /\ cpc = "load" /\ cpc' = "copy" /\ c_head' = head /\ c_i' = 0 /\ out' = <<>>
      /\ c_take' = Least((tail - head) % Word, c_want)
      /\ UNCHANGED <<slots, head, tail, pushed, consumed, underruns, heard, prodVars, c_want, gaveUp, offline>>
  BY DEF render_load
<1>2. C' = C /\ P' = P /\ Copied' = Copied
  BY <1>1 DEF C, P, Copied, prodVars
<1>3. /\ (tail - head) % Word = P - C /\ C \in Nat /\ P \in Nat /\ C <= P /\ c_want \in Nat
      /\ head \in 0 .. Word - 1
  BY Measured, RingAssumption DEF RingInv, CountInv
<1>4. /\ c_take' \in Nat /\ C' + c_take' <= P' /\ c_take' <= c_want'
      /\ C + c_want <= P => c_take' = c_want
  <2> HIDE DEF C, P
  <2> QED  BY <1>1, <1>2, <1>3 DEF Least
<1>5. CountInv'
  BY <1>1, <1>2, <1>3, <1>4 DEF RingInv, CountInv, Counters, prodVars
<1>6. FrameInv'
  <2>1. out' \in Seq(Frame \cup {Silence}) /\ Len(out') = 0
    BY <1>1
  <2> QED  BY <1>1, <1>2, <2>1 DEF RingInv, FrameInv
<1>7. GateInv'
  BY <1>1, <1>2, <1>4 DEF RingInv, GateInv
<1> QED  BY <1>1, <1>2, <1>5, <1>6, <1>7 DEF RingInv

LEMMA RenderCopies ==
  ASSUME RingInv, render_copy
  PROVE  RingInv' /\ UNCHANGED <<C, P, heard, slots, head, tail>>
<1>1. /\ cpc = "copy" /\ c_i < c_take /\ c_i' = c_i + 1 /\ out' = Append(out, slots[Index(c_head + c_i)])
      /\ UNCHANGED <<slots, head, tail, pushed, consumed, underruns, heard,
                     prodVars, cpc, c_head, c_take, c_want, gaveUp, offline>>
  BY DEF render_copy
<1>2. C' = C /\ P' = P /\ Copied' = Copied
  BY <1>1 DEF C, P, Copied, prodVars
<1>3. /\ C \in Nat /\ P \in Nat /\ c_i \in Nat /\ c_take \in Nat /\ C + c_take <= P /\ c_head = head
      /\ Copied \in Nat
  BY <1>1, Measured DEF RingInv, CountInv, Copied
<1>4. CountInv'
  BY <1>1, <1>2, <1>3 DEF RingInv, CountInv, Counters, prodVars
<1> DEFINE x == slots[Index(c_head + c_i)]
<1>5. Index(c_head + c_i) = Index(C + c_i) /\ Index(C + c_i) \in 0 .. Cap - 1
  BY <1>3, NextSlot DEF RingInv
<1>6. x = Src(C + c_i) /\ x \in Frame \cup {Silence}
  <2>1. slots[Index(C + c_i)] = Src(C + c_i)
    <3> HIDE DEF C, P
    <3>1. C + c_i \in C .. P + Copied - 1
      BY <1>1, <1>3
    <3> QED  BY <3>1 DEF RingInv, FrameInv
  <2>2. slots[Index(C + c_i)] \in Frame \cup {Silence}
    BY <1>5 DEF RingInv, FrameInv
  <2> QED  BY <1>5, <2>1, <2>2
<1> HIDE DEF x
<1>7. out' = Append(out, x)
  BY <1>1 DEF x
<1>8. FrameInv'
  <2>1. out \in Seq(Frame \cup {Silence}) /\ Len(out) = c_i /\ \A i \in 1 .. c_i : out[i] = Src(C + i - 1)
    BY <1>1 DEF RingInv, FrameInv
  <2>2. out' \in Seq(Frame \cup {Silence}) /\ Len(out') = c_i'
    BY <1>1, <1>6, <1>7, <2>1
  <2>3. ASSUME NEW i \in 1 .. c_i'
        PROVE  out'[i] = Src(C + i - 1)
    <3> HIDE DEF C
    <3>1. CASE i <= c_i
      BY <1>3, <1>7, <2>1, <3>1
    <3>2. CASE i = c_i + 1
      <4>1. C + i - 1 = C + c_i
        BY <1>3, <3>2
      <4>2. out'[i] = x
        BY <1>7, <2>1, <3>2
      <4> QED  BY <1>6, <4>1, <4>2
    <3>3. i \in Int /\ i <= c_i + 1
      BY <1>1, <1>3
    <3> QED  BY <1>3, <3>1, <3>2, <3>3
  <2> QED  BY <1>1, <1>2, <2>2, <2>3 DEF RingInv, FrameInv
<1>9. GateInv'
  BY <1>1, <1>2 DEF RingInv, GateInv
<1> QED  BY <1>1, <1>2, <1>4, <1>8, <1>9 DEF RingInv

LEMMA RenderPublishes ==
  ASSUME RingInv, render_publish
  PROVE  /\ RingInv' /\ P' = P /\ C' = C + c_take /\ c_take \in Nat /\ C + c_take <= P
         /\ c_take <= c_want /\ c_want \in 0 .. MaxWant
         /\ heard' = [i \in 1 .. c_want |-> IF i <= c_take THEN Src(C + i - 1) ELSE Silence]
<1>1. /\ cpc = "copy" /\ c_i = c_take /\ cpc' = "count"
      /\ heard' = [i \in 1 .. c_want |-> IF i <= c_take THEN out[i] ELSE Silence]
      /\ underruns' = (c_take < c_want) /\ head' = (c_head + c_take) % Word
      /\ UNCHANGED <<slots, tail, pushed, consumed, prodVars, c_head, c_take, c_want, c_i, out, gaveUp, offline>>
  BY DEF render_publish
<1>2. C' = C + c_take /\ P' = P /\ Copied' = Copied /\ C = consumed
  BY <1>1 DEF C, P, Copied, prodVars
<1>3. /\ C \in Nat /\ P \in Nat /\ c_take \in Nat /\ c_want \in 0 .. MaxWant /\ c_want \in Nat
      /\ C + c_take <= P /\ c_take <= c_want /\ c_head = head /\ P - C <= Cap - 1 /\ Cap \in Nat
      /\ Copied \in Nat
  BY <1>1, Measured, RingAssumption DEF RingInv, CountInv, Copied
<1>4. \A i \in 1 .. c_take : out[i] = Src(C + i - 1)
  BY <1>1 DEF RingInv, FrameInv
<1>5. heard' = [i \in 1 .. c_want |-> IF i <= c_take THEN Src(C + i - 1) ELSE Silence]
  BY <1>1, <1>3, <1>4
<1>6. CountInv'
  <2>1. head' = C' % Word
    BY <1>1, <1>2, <1>3, Advanced DEF RingInv
  <2>2. tail' = P' % Word
    BY <1>1, <1>2 DEF RingInv, CountInv, Counters
  <2>3. C' <= P' /\ P' - C' <= Cap - 1
    <3> HIDE DEF C, P
    <3> QED  BY <1>2, <1>3
  <2>4. ppc' = "copy" => P' + p_n' - C' <= Cap - 1
    <3>1. ppc = "copy" => p_n \in Nat /\ P + p_n - C <= Cap - 1
      BY DEF RingInv, CountInv
    <3> HIDE DEF C, P
    <3> QED  BY <1>1, <1>2, <1>3, <3>1 DEF prodVars
  <2> QED  BY <1>1, <1>2, <2>1, <2>2, <2>3, <2>4 DEF RingInv, CountInv, Counters, prodVars
<1>7. FrameInv'
  <2>1. \A j \in C' .. P' + Copied' - 1 : slots'[Index(j)] = Src(j)
    <3> HIDE DEF C, P, Copied
    <3> QED  BY <1>1, <1>2, <1>3 DEF RingInv, FrameInv
  <2>2. heard' \in Seq(Frame \cup {Silence})
    <3>1. out \in Seq(Frame \cup {Silence}) /\ Len(out) = c_take
      BY <1>1 DEF RingInv, FrameInv
    <3>2. \A i \in 1 .. c_want : (IF i <= c_take THEN out[i] ELSE Silence) \in Frame \cup {Silence}
      BY <1>3, <3>1
    <3> QED  BY <1>1, <1>3, <3>2
  <2> QED  BY <1>1, <1>2, <2>1, <2>2 DEF RingInv, FrameInv
<1>8. GateInv'
  <2>1. offline /\ ~gaveUp => c_take = c_want
    BY <1>1 DEF RingInv, GateInv
  <2> DEFINE short == c_take < c_want
  <2>2. short \in BOOLEAN /\ (offline /\ ~gaveUp => ~short)
    BY <1>3, <2>1
  <2> HIDE DEF short
  <2>3. underruns' \in BOOLEAN /\ (offline /\ ~gaveUp => ~underruns')
    <3>1. underruns' = short
      BY <1>1 DEF short
    <3> QED  BY <2>2, <3>1
  <2> QED  BY <1>1, <2>3 DEF RingInv, GateInv
<1> QED  BY <1>1, <1>2, <1>3, <1>5, <1>6, <1>7, <1>8 DEF RingInv

LEMMA RenderCounts ==
  ASSUME RingInv, render_count
  PROVE  RingInv' /\ UNCHANGED <<C, P, heard, slots, head, tail>>
<1>1. /\ cpc = "count" /\ cpc' = "idle" /\ consumed' = consumed + c_take
      /\ c_head' = 0 /\ c_take' = 0 /\ c_i' = 0 /\ out' = <<>>
      /\ UNCHANGED <<slots, head, tail, pushed, underruns, heard, prodVars, c_want, gaveUp, offline>>
  BY DEF render_count
<1>2. C' = C /\ P' = P /\ Copied' = Copied
  BY <1>1 DEF C, P, Copied, prodVars
<1>3. CountInv'
  <2>1. Counters' /\ P' <= Total
    BY <1>1, <1>2 DEF RingInv, CountInv, Counters
  <2>2. consumed \in Nat /\ c_take \in Nat /\ Word \in Nat /\ Word > Cap /\ Cap >= 2 /\ Cap \in Nat
    BY Measured DEF RingInv, CountInv
  <2>3. consumed' \in Nat /\ 0 \in 0 .. Word - 1
    BY <1>1, <2>2
  <2> QED  BY <1>1, <1>2, <2>1, <2>3 DEF RingInv, CountInv, prodVars
<1>4. FrameInv'
  BY <1>1, <1>2 DEF RingInv, FrameInv
<1>5. GateInv'
  BY <1>1, <1>2 DEF RingInv, GateInv
<1> QED  BY <1>1, <1>2, <1>3, <1>4, <1>5 DEF RingInv

-----------------------------------------------------------------------------
(* The invariant holds, and what the ring maps to *)

LEMMA Starts ==
  ASSUME Init
  PROVE  RingInv
<1>1. Cap \in Nat /\ Cap >= 2 /\ Word \in Nat \ {0} /\ Word > Cap
  <2>1. PICK m \in 2 .. Word : Word = m * Cap
    BY RingAssumption
  <2> QED  BY <2>1, RingAssumption
<1>2. C = 0 /\ P = 0 /\ Copied = 0
  BY DEF Init, C, P, Copied
<1>3. 0 % Word = 0
  <2>1. Word * 0 + 0 = 0 /\ 0 \in Int /\ 0 \in 0 .. Word - 1
    BY <1>1
  <2> QED  BY <1>1, <2>1, Unique
<1>4. CountInv
  BY <1>1, <1>2, <1>3, RingAssumption DEF Init, CountInv, Counters
<1>5. FrameInv
  BY <1>1, <1>2 DEF Init, FrameInv
<1>6. GateInv
  BY DEF Init, GateInv
<1> QED  BY <1>4, <1>5, <1>6 DEF RingInv

\* What a step that moves neither published index leaves alone.
Still == C' = C /\ P' = P /\ heard' = heard

\* What the two publishing stores do to the frames published and released.
Published ==
  /\ C' = C /\ P' = P + p_n /\ p_n \in Nat /\ P + p_n - C <= Cap - 1 /\ P + p_n <= Total
  /\ heard' = heard
Released ==
  /\ P' = P /\ C' = C + c_take /\ c_take \in Nat /\ C + c_take <= P
  /\ c_take <= c_want /\ c_want \in 0 .. MaxWant
  /\ heard' = [i \in 1 .. c_want |-> IF i <= c_take THEN Src(C + i - 1) ELSE Silence]

LEMMA Steps ==
  ASSUME RingInv, [Next]_vars
  PROVE  RingInv' /\ (Still \/ Published \/ Released)
<1>1. ASSUME NEW frames \in 1 .. MaxPush, push_begin(frames) PROVE RingInv' /\ Still
  BY <1>1, PushBegins DEF Still
<1>2. ASSUME push_copy PROVE RingInv' /\ Still
  BY <1>2, PushCopies DEF Still
<1>3. ASSUME push_publish PROVE RingInv' /\ Published
  BY <1>3, PushPublishes DEF Published
<1>4. ASSUME push_count PROVE RingInv' /\ Still
  BY <1>4, PushCounts DEF Still
<1>5. ASSUME NEW want \in 1 .. MaxWant, render_request(want) PROVE RingInv' /\ Still
  BY <1>5, RenderRequested DEF Still
<1>6. ASSUME gate_pass \/ gate_give_up PROVE RingInv' /\ Still
  BY <1>6, GateLeft DEF Still
<1>7. ASSUME render_load PROVE RingInv' /\ Still
  BY <1>7, RenderLoads DEF Still
<1>8. ASSUME render_copy PROVE RingInv' /\ Still
  BY <1>8, RenderCopies DEF Still
<1>9. ASSUME render_publish PROVE RingInv' /\ Released
  BY <1>9, RenderPublishes DEF Released
<1>10. ASSUME render_count PROVE RingInv' /\ Still
  BY <1>10, RenderCounts DEF Still
<1>11. ASSUME UNCHANGED vars PROVE RingInv' /\ Still
  BY <1>11 DEF vars, prodVars, consVars, RingInv, CountInv, Counters, FrameInv, GateInv, Copied, C, P, Still
<1> QED  BY <1>1, <1>2, <1>3, <1>4, <1>5, <1>6, <1>7, <1>8, <1>9, <1>10, <1>11 DEF Next, Producer, Consumer

LEMMA Inductive == Spec => []RingInv
<1>1. Init => RingInv
  BY Starts
<1>2. RingInv /\ [Next]_vars => RingInv'
  BY Steps
<1> QED  BY <1>1, <1>2, PTL DEF Spec

\* The frames from the c-th to the one before the p-th.
FramesOf(c, p) == [i \in 1 .. p - c |-> Src(c + i - 1)]
QueueInv == Pending = FramesOf(C, P)

\* The pending frames are the ones published and not yet released.
LEMMA Queue ==
  ASSUME RingInv
  PROVE  QueueInv
<1>1. (tail - head) % Word = P - C /\ C \in Nat /\ P \in Nat
  BY Measured DEF RingInv
<1>2. ASSUME NEW i \in 1 .. P - C
      PROVE  slots[Index(head + i - 1)] = Src(C + i - 1)
  <2>1. i - 1 \in Nat /\ C + (i - 1) \in C .. P - 1 /\ C + (i - 1) = C + i - 1
    <3> HIDE DEF C, P
    <3> QED  BY <1>1
  <2>2. Index(head + (i - 1)) = Index(C + (i - 1))
    BY <2>1, NextSlot DEF RingInv
  <2>3. head + (i - 1) = head + i - 1
    <3>1. head \in 0 .. Word - 1
      BY Measured DEF RingInv
    <3>2. head \in Int /\ i \in Int
      BY <3>1
    <3> QED  BY <3>2
  <2>4. slots[Index(C + (i - 1))] = Src(C + (i - 1))
    <3>1. Copied \in Nat
      BY DEF Copied, RingInv, CountInv
    <3> HIDE DEF C, P
    <3>2. C + (i - 1) \in C .. P + Copied - 1
      BY <1>1, <2>1, <3>1
    <3> QED  BY <3>2 DEF RingInv, FrameInv
  <2> QED  BY <2>1, <2>2, <2>3, <2>4
<1> HIDE DEF C, P
<1> QED  BY <1>1, <1>2 DEF Pending, QueueInv, FramesOf

\* What a publishing push appends, and what a callback removes.
LEMMA Appended ==
  ASSUME NEW c \in Nat, NEW p \in Nat, NEW n \in Nat, c <= p, p + n <= Total
  PROVE  /\ FramesOf(c, p) \in Seq(Frame) /\ Len(FramesOf(c, p)) = p - c
         /\ FramesOf(p, p + n) \in [1 .. n -> Frame] /\ Len(FramesOf(p, p + n)) = n
         /\ FramesOf(c, p) \o FramesOf(p, p + n) = FramesOf(c, p + n)
<1> DEFINE q == [i \in 1 .. p - c |-> Src(c + i - 1)]
           b == [i \in 1 .. n |-> Src(p + i - 1)]
           w == [i \in 1 .. (p + n) - c |-> Src(c + i - 1)]
<1>1. p - c \in Nat /\ (p + n) - c \in Nat
  OBVIOUS
<1>2. \A k \in 0 .. Total : Src(k) \in Frame
  BY RingAssumption
<1>3. \A i \in 1 .. (p + n) - c : Src(c + i - 1) \in Frame
  <2> TAKE i \in 1 .. (p + n) - c
  <2>1. c + i - 1 \in 0 .. Total
    BY RingAssumption
  <2> QED  BY <1>2, <2>1
<1>4. \A i \in 1 .. n : Src(p + i - 1) \in Frame
  <2> TAKE i \in 1 .. n
  <2>1. p + i - 1 \in 0 .. Total
    BY RingAssumption
  <2> QED  BY <1>2, <2>1
<1>5. q \in Seq(Frame) /\ Len(q) = p - c
  BY <1>1, <1>3
<1>6. b \in Seq(Frame) /\ Len(b) = n /\ b \in [1 .. n -> Frame]
  <2>1. b \in [1 .. n -> Frame]
    BY <1>4
  <2> HIDE DEF b
  <2> QED  BY <2>1
<1>7. w \in Seq(Frame) /\ Len(w) = (p + n) - c
  BY <1>1, <1>3
<1>8. q \o b \in Seq(Frame) /\ Len(q \o b) = (p + n) - c
  BY <1>5, <1>6, ConcatProperties
<1>9. ASSUME NEW i \in 1 .. (p + n) - c
      PROVE  (q \o b)[i] = w[i]
  <2>1. i \in 1 .. Len(q) + Len(b)
    BY <1>5, <1>6
  <2>2. (q \o b)[i] = IF i <= Len(q) THEN q[i] ELSE b[i - Len(q)]
    BY <1>5, <1>6, <2>1, ConcatProperties
  <2>3. CASE i <= p - c
    BY <1>5, <2>2, <2>3
  <2>4. CASE ~(i <= p - c)
    <3>1. i - (p - c) \in 1 .. n /\ p + (i - (p - c)) - 1 = c + i - 1
      BY <2>4
    <3> QED  BY <1>5, <2>2, <2>4, <3>1
  <2> QED  BY <2>3, <2>4
<1>10. q \o b = w
  <2> HIDE DEF q, b, w
  <2> QED  BY <1>7, <1>8, <1>9, SeqEqual
<1>11. (p + n) - p = n
  OBVIOUS
<1>12. q = FramesOf(c, p) /\ b = FramesOf(p, p + n) /\ w = FramesOf(c, p + n)
  BY <1>11 DEF FramesOf
<1> HIDE DEF q, b, w
<1> QED  BY <1>5, <1>6, <1>10, <1>12

LEMMA Removed ==
  ASSUME NEW c \in Nat, NEW p \in Nat, NEW n \in Nat, c + n <= p, p <= Total
  PROVE  /\ FramesOf(c, p) \in Seq(Frame) /\ Len(FramesOf(c, p)) = p - c
         /\ \A i \in 1 .. n : FramesOf(c, p)[i] = Src(c + i - 1)
         /\ SubSeq(FramesOf(c, p), n + 1, p - c) = FramesOf(c + n, p)
<1> DEFINE q == [i \in 1 .. p - c |-> Src(c + i - 1)]
           s == SubSeq(q, n + 1, p - c)
           w == [i \in 1 .. p - (c + n) |-> Src((c + n) + i - 1)]
<1>1. p - c \in Nat /\ p - (c + n) \in Nat
  OBVIOUS
<1>2. \A i \in 1 .. p - c : Src(c + i - 1) \in Frame
  <2> TAKE i \in 1 .. p - c
  <2>1. c + i - 1 \in 0 .. Total
    BY RingAssumption
  <2> QED  BY <2>1, RingAssumption
<1>3. q \in Seq(Frame) /\ Len(q) = p - c /\ \A i \in 1 .. n : q[i] = Src(c + i - 1)
  BY <1>1, <1>2
<1>4. s = w
  <2>1. s = [i \in 1 .. (p - c) - n |-> q[i + (n + 1) - 1]]
    BY <1>1, <1>3
  <2>2. ASSUME NEW i \in 1 .. (p - c) - n
        PROVE  q[i + (n + 1) - 1] = Src((c + n) + i - 1)
    <3>1. i + (n + 1) - 1 \in 1 .. p - c /\ c + (i + (n + 1) - 1) - 1 = (c + n) + i - 1
      OBVIOUS
    <3> QED  BY <3>1
  <2>3. (p - c) - n = p - (c + n)
    OBVIOUS
  <2> QED  BY <2>1, <2>2, <2>3
<1>5. q = FramesOf(c, p) /\ w = FramesOf(c + n, p)
  BY DEF FramesOf
<1> HIDE DEF q, w
<1> QED  BY <1>3, <1>4, <1>5

-----------------------------------------------------------------------------
(* The theorems *)

\* The state of the ring and of the two threads keeps its type: in particular
\* the slot index of either side is always inside the allocated ring.
THEOREM TypeCorrect == Spec => []TypeOK
<1>1. RingInv => TypeOK
  <2> SUFFICES ASSUME RingInv PROVE TypeOK
    OBVIOUS
  <2>1. head \in 0 .. Word - 1 /\ tail \in 0 .. Word - 1 /\ c_want \in Nat
    BY Measured, RingAssumption DEF RingInv, CountInv
  <2> QED  BY <2>1 DEF RingInv, CountInv, FrameInv, GateInv, TypeOK
<1> QED  BY <1>1, Inductive, PTL

\* The wrapped head and tail of ca_ring_push and ca_render_cb keep counting
\* the frames released and published, and one slot stays unused.
THEOREM CountersKept == Spec => []Counters
<1>1. RingInv => Counters
  BY DEF RingInv, CountInv
<1> QED  BY <1>1, Inductive, PTL

\* ca_ring_push never writes a slot ca_render_cb has not released.
THEOREM NoFrameLost == Spec => []PendingIntact
<1>1. RingInv => PendingIntact
  <2> SUFFICES ASSUME RingInv, NEW k \in C .. P - 1
               PROVE  slots[Index(k)] = Src(k)
    BY DEF PendingIntact
  <2>1. Copied \in Nat
    BY DEF Copied, RingInv, CountInv
  <2>2. C \in Nat /\ P \in Nat
    BY Measured DEF RingInv
  <2> HIDE DEF C, P
  <2>3. k \in C .. P + Copied - 1
    BY <2>1, <2>2
  <2> QED  BY <2>3 DEF RingInv, FrameInv
<1> QED  BY <1>1, Inductive, PTL

\* The availability gate of ca_render_to_wav: a short block means that the
\* gate's spin budget ran out.
THEOREM GateTruthful == Spec => []GateMeansNoUnderrun
<1>1. RingInv => GateMeansNoUnderrun
  BY DEF RingInv, GateInv, GateMeansNoUnderrun
<1> QED  BY <1>1, Inductive, PTL

\* The ring of coreaudio_shim.c is a bounded queue of frames: ca_ring_push
\* appends a block at its store of tail, ca_render_cb removes one at its
\* store of head, and no other step of either thread can be observed.
THEOREM ImplementsFifo == Spec => FifoSpec
<1>1. Init => Fifo!Init
  <2> SUFFICES ASSUME Init PROVE Fifo!Init
    OBVIOUS
  <2>1. Pending = FramesOf(C, P)
    BY Starts, Queue DEF QueueInv
  <2>2. C = 0 /\ P = 0 /\ heard = <<>>
    BY DEF Init, C, P
  <2>3. Pending = <<>>
    BY <2>1, <2>2 DEF FramesOf
  <2> QED  BY <2>2, <2>3 DEF Fifo!Init
<1>2. RingInv' => QueueInv'
  <2>1. RingInv => QueueInv
    BY Queue
  <2> QED  BY <2>1, PTL
<1>3. RingInv /\ [Next]_vars => [Fifo!Next]_<<Pending, heard>>
  <2> SUFFICES ASSUME RingInv, [Next]_vars
               PROVE  Fifo!Next \/ (Pending' = Pending /\ heard' = heard)
    OBVIOUS
  <2>1. RingInv' /\ (Still \/ Published \/ Released)
    BY Steps
  <2>2. Pending = FramesOf(C, P)
    BY Queue DEF QueueInv
  <2>3. Pending' = FramesOf(C', P')
    BY <1>2, <2>1 DEF QueueInv, FramesOf
  <2>4. C \in Nat /\ P \in Nat /\ C <= P /\ P - C <= Cap - 1 /\ Cap \in Nat /\ P <= Total
    BY Measured DEF RingInv, CountInv
  <2> HIDE DEF C, P
  <2>5. CASE Still
    BY <2>2, <2>3, <2>5 DEF Still
  <2>6. CASE Published
    <3>1. p_n \in Nat /\ P + p_n <= Total /\ P + p_n - C <= Cap - 1 /\ C' = C /\ P' = P + p_n /\ heard' = heard
      BY <2>6 DEF Published
    <3> DEFINE block == FramesOf(P, P + p_n)
    <3>2. /\ FramesOf(C, P) \in Seq(Frame) /\ Len(FramesOf(C, P)) = P - C
          /\ block \in [1 .. p_n -> Frame] /\ Len(block) = p_n
          /\ FramesOf(C, P) \o block = FramesOf(C, P + p_n)
      BY <2>4, <3>1, Appended
    <3> HIDE DEF block
    <3>3. CASE p_n = 0
      BY <2>2, <2>3, <2>4, <3>1, <3>3
    <3>4. CASE p_n # 0
      <4>1. p_n \in 1 .. Cap - 1 /\ (P - C) + p_n <= Cap - 1
        BY <2>4, <3>1, <3>4
      <4>2. Fifo!Push(block)
        BY <2>2, <2>3, <3>1, <3>2, <4>1 DEF Fifo!Push
      <4> QED  BY <3>2, <4>1, <4>2 DEF Fifo!Next
    <3> QED  BY <3>3, <3>4
  <2>7. CASE Released
    <3>1. /\ P' = P /\ C' = C + c_take /\ c_take \in Nat /\ C + c_take <= P
          /\ c_take <= c_want /\ c_want \in 0 .. MaxWant
          /\ heard' = [i \in 1 .. c_want |-> IF i <= c_take THEN Src(C + i - 1) ELSE Silence]
      BY <2>7 DEF Released
    <3>2. /\ FramesOf(C, P) \in Seq(Frame) /\ Len(FramesOf(C, P)) = P - C
          /\ \A i \in 1 .. c_take : FramesOf(C, P)[i] = Src(C + i - 1)
          /\ SubSeq(FramesOf(C, P), c_take + 1, P - C) = FramesOf(C + c_take, P)
      BY <2>4, <3>1, Removed
    <3>3. c_take <= P - C /\ c_take \in 0 .. c_want /\ c_want \in Int
      BY <2>4, <3>1, RingAssumption
    <3>4. heard' = [i \in 1 .. c_want |-> IF i <= c_take THEN Pending[i] ELSE Silence]
      BY <2>2, <3>1, <3>2, <3>3
    <3>5. Fifo!Render(c_take, c_want)
      BY <2>2, <2>3, <3>1, <3>2, <3>3, <3>4 DEF Fifo!Render
    <3> QED  BY <3>1, <3>3, <3>5 DEF Fifo!Next
  <2> QED  BY <2>1, <2>5, <2>6, <2>7
<1> QED  BY <1>1, <1>3, Inductive, PTL DEF Spec, FifoSpec, Fifo!Spec
=============================================================================
