--------------------------- MODULE ReqReplyProofs ---------------------------
(***************************************************************************)
(* Proofs about ReqReply, for any set of clients, ports, priorities and    *)
(* timer interrupts: every request is in one place and gets its own        *)
(* answer, and the program is one of the kernel's, so that everything      *)
(* proved of ExecKernel holds while it runs.                               *)
(***************************************************************************)
EXTENDS ReqReply, SequenceTheorems, FiniteSetTheorems, TLAPS

-----------------------------------------------------------------------------
(* Message lists *)

Listed(l, m) == \E i \in 1 .. Len(l) : l[i] = m
Distinct(l)  == \A i, j \in 1 .. Len(l) : l[i] = l[j] => i = j

\* AddTail of a message that is not linked in the list.
LEMMA AppendDistinct ==
  ASSUME NEW l \in Seq(Client), Distinct(l), NEW c \in Client, ~Listed(l, c)
  PROVE  /\ Append(l, c) \in Seq(Client) /\ Distinct(Append(l, c))
         /\ \A m : Listed(Append(l, c), m) <=> m = c \/ Listed(l, m)
<1> DEFINE a == Append(l, c)
<1>1. /\ a \in Seq(Client) /\ Len(a) = Len(l) + 1 /\ Len(l) \in Nat
      /\ \A i \in 1 .. Len(a) : a[i] = IF i <= Len(l) THEN l[i] ELSE c
      /\ \A i \in 1 .. Len(l) : i \in 1 .. Len(a) /\ a[i] = l[i]
      /\ Len(a) \in 1 .. Len(a) /\ a[Len(a)] = c
  OBVIOUS
<1> HIDE DEF a
<1>2. \A m : Listed(a, m) <=> m = c \/ Listed(l, m)
  BY <1>1 DEF Listed
<1>3. Distinct(a)
  <2> SUFFICES ASSUME NEW i \in 1 .. Len(a), NEW j \in 1 .. Len(a), a[i] = a[j]
               PROVE  i = j
    BY DEF Distinct
  <2>1. i \in 1 .. Len(l) \/ i = Len(a)
    BY <1>1
  <2>2. j \in 1 .. Len(l) \/ j = Len(a)
    BY <1>1
  <2> QED  BY <1>1, <2>1, <2>2 DEF Distinct, Listed
<1> QED  BY <1>1, <1>2, <1>3 DEF a

\* RemHead of a list.
LEMMA TailDistinct ==
  ASSUME NEW l \in Seq(Client), l # <<>>, Distinct(l)
  PROVE  /\ Tail(l) \in Seq(Client) /\ Distinct(Tail(l)) /\ Head(l) \in Client
         /\ Listed(l, Head(l)) /\ ~Listed(Tail(l), Head(l))
         /\ \A m : m # Head(l) => (Listed(Tail(l), m) <=> Listed(l, m))
<1> DEFINE a == Tail(l)
<1>1. /\ a \in Seq(Client) /\ Len(a) = Len(l) - 1 /\ Len(l) \in Nat /\ Len(l) >= 1
      /\ \A i \in 1 .. Len(a) : i + 1 \in 1 .. Len(l) /\ a[i] = l[i + 1]
      /\ Head(l) = l[1] /\ Head(l) \in Client
  OBVIOUS
<1>2. \A i \in 2 .. Len(l) : i - 1 \in 1 .. Len(a) /\ a[i - 1] = l[i]
  BY <1>1
<1> HIDE DEF a
<1>3. Distinct(a)
  BY <1>1 DEF Distinct
<1>4. Listed(l, Head(l))
  BY <1>1 DEF Listed
<1>5. ~Listed(a, Head(l))
  BY <1>1 DEF Listed, Distinct
<1>6. ASSUME NEW m, m # Head(l)
      PROVE  Listed(a, m) <=> Listed(l, m)
  <2>1. ASSUME NEW i \in 1 .. Len(l), l[i] = m PROVE Listed(a, m)
    <3>1. i \in 2 .. Len(l)
      BY <1>1, <1>6, <2>1
    <3> QED  BY <1>2, <2>1, <3>1 DEF Listed
  <2> QED  BY <1>1, <2>1 DEF Listed
<1> QED  BY <1>1, <1>3, <1>4, <1>5, <1>6 DEF a

-----------------------------------------------------------------------------
(* The invariant *)

UserLabel == {"new", "put", "sent", "peeked", "check", "top", "drain", "got", "reply",
              "put_add", "put_sig", "get_rem", "wp_test", "wp_wait"}
RetLabel  == {"none", "sent", "peeked", "check", "drain", "got"}

RRType ==
  /\ mp_MsgList \in [Port -> Seq(Client)]
  /\ ul \in [Port -> UserLabel] /\ uret \in [Port -> RetLabel]
  /\ uport \in [Port -> Port] /\ umsg \in [Port -> Client \cup {NULL}]
  /\ value \in [Client -> Nat] /\ result \in [Client -> Int]

\* Where the two programs are, and the arguments of the port call they are in.
ClientAt(c) ==
  /\ ul[c] \in {"new", "put", "put_add", "put_sig", "sent", "wp_test", "wp_wait", "peeked", "get_rem", "check"}
  /\ ul[c] \in {"put_add", "put_sig"} => uret[c] = "sent" /\ uport[c] = server
  /\ ul[c] \in {"wp_test", "wp_wait"} => uret[c] = "peeked" /\ uport[c] = c
  /\ ul[c] = "get_rem" => uret[c] = "check" /\ uport[c] = c
  /\ ul[c] \in {"put_add", "check"} => umsg[c] = c
ServerAt ==
  /\ ul[server] \in {"top", "wp_test", "wp_wait", "drain", "get_rem", "got", "reply", "put_add", "put_sig"}
  /\ ul[server] \in {"put_add", "put_sig"} => uret[server] = "drain" /\ uport[server] \in Client
  /\ ul[server] \in {"wp_test", "wp_wait"} => uret[server] = "drain" /\ uport[server] = server
  /\ ul[server] = "get_rem" => uret[server] = "got" /\ uport[server] = server
  /\ ul[server] \in {"reply", "put_add"} => umsg[server] \in Client
  /\ ul[server] = "put_add" => uport[server] = umsg[server]
ProgramInv == ServerAt /\ \A c \in Client : ClientAt(c)

\* The four places of a request.
Mine(c)   == ul[c] \in {"new", "put", "put_add", "check"}
Queued(c) == Listed(mp_MsgList[server], c)
Served(c) == ul[server] \in {"got", "reply", "put_add"} /\ umsg[server] = c
Back(c)   == mp_MsgList[c] = <<c>>

OnePlace(c) ==
  /\ Mine(c) \/ Queued(c) \/ Served(c) \/ Back(c)
  /\ Mine(c) => ~Queued(c) /\ ~Served(c) /\ ~Back(c)
  /\ Queued(c) => ~Served(c) /\ ~Back(c)
  /\ Served(c) => ~Back(c)
  /\ mp_MsgList[c] = <<>> \/ Back(c)
  /\ ul[c] \in {"peeked", "get_rem"} => Back(c)
PlaceInv == Distinct(mp_MsgList[server]) /\ \A c \in Client : OnePlace(c)

\* From the server's squaring on, the request carries its answer.
Answered(c) == Back(c) \/ ul[c] = "check" \/ (Served(c) /\ ul[server] \in {"reply", "put_add"})
AnswerInv == g_errors = 0 /\ \A c \in Client : Answered(c) => result[c] = Square(value[c])

RRInv == RRType /\ ProgramInv /\ PlaceInv /\ AnswerInv

LEMMA SquareType == \A v \in Nat : Square(v) \in Int
<1> TAKE v \in Nat
<1>1. v * v \in Int /\ ValueMod \in Nat \ {0}
  BY ReqReplyAssumption
<1> DEFINE w == v * v
<1> HIDE DEF w
<1>2. w \in Int => w % ValueMod \in Int
  BY <1>1
<1> QED  BY <1>1, <1>2 DEF Square, w

LEMMA Names ==
  /\ Port = Client \cup {server} /\ server \notin Client /\ NULL \notin Client
  /\ Port \subseteq Task
BY ReqReplyAssumption, PortAssumption

-----------------------------------------------------------------------------
(* The steps *)

LEMMA RRStarts ==
  ASSUME RRInit
  PROVE  RRInv
<1>1. /\ mp_MsgList = [p \in Port |-> <<>>] /\ ul = [p \in Port |-> IF p = server THEN "top" ELSE "new"]
      /\ uret = [p \in Port |-> "none"] /\ uport = [p \in Port |-> p] /\ umsg = [p \in Port |-> NULL]
      /\ value = [c \in Client |-> 0] /\ result = [c \in Client |-> -1] /\ g_errors = 0
  BY DEF RRInit, PortInit
<1>2. RRType
  BY <1>1, Names DEF RRType, UserLabel, RetLabel
<1>3. ProgramInv
  BY <1>1, Names DEF ProgramInv, ServerAt, ClientAt
<1>4. PlaceInv
  BY <1>1, Names DEF PlaceInv, OnePlace, Distinct, Listed, Mine, Queued, Served, Back
<1>5. AnswerInv
  BY <1>1, Names DEF AnswerInv, Answered, Served, Back
<1> QED  BY <1>2, <1>3, <1>4, <1>5 DEF RRInv

\* A step of a client outside the ports.
LEMMA ClientSteps ==
  ASSUME RRInv, NEW c \in Client, Client_(c)
  PROVE  RRInv'
<1> USE Names DEF RRInv
<1>1. CASE client_new(c)
  <2>1. /\ ul[c] = "new" /\ ul' = [ul EXCEPT ![c] = "put"]
        /\ value' = [value EXCEPT ![c] = (@ + 1) % ValueMod] /\ result' = [result EXCEPT ![c] = -1]
        /\ UNCHANGED <<mp_MsgList, uret, uport, umsg, g_errors>>
    BY <1>1 DEF client_new, UserAt, UserGoto
  <2>2. (value[c] + 1) % ValueMod \in Nat
    BY ReqReplyAssumption DEF RRType
  <2>3. RRType'
    BY <2>1, <2>2 DEF RRType, UserLabel
  <2>4. ProgramInv'
    BY <2>1 DEF RRType, ProgramInv, ServerAt, ClientAt
  <2>5. PlaceInv'
    BY <2>1 DEF RRType, PlaceInv, OnePlace, Mine, Queued, Served, Back
  <2>6. AnswerInv'
    <3>1. ASSUME NEW d \in Client, Answered(d)' PROVE d # c /\ Answered(d)
      BY <2>1, <3>1 DEF RRType, PlaceInv, OnePlace, Mine, Answered, Served, Back
    <3> QED  BY <2>1, <3>1 DEF RRType, AnswerInv
  <2> QED  BY <2>3, <2>4, <2>5, <2>6
<1>2. CASE client_put(c)
  <2>1. /\ ul[c] = "put" /\ ul' = [ul EXCEPT ![c] = "put_add"] /\ uret' = [uret EXCEPT ![c] = "sent"]
        /\ uport' = [uport EXCEPT ![c] = server] /\ umsg' = [umsg EXCEPT ![c] = c]
        /\ UNCHANGED <<mp_MsgList, value, result, g_errors>>
    BY <1>2 DEF client_put, PutMsg, UserAt, UserGoto, dataVars
  <2> QED  BY <2>1 DEF RRType, UserLabel, RetLabel, ProgramInv, ServerAt, ClientAt, PlaceInv, OnePlace, Mine, Queued, Served, Back,
             AnswerInv, Answered
<1>3. CASE client_wait(c)
  <2>1. /\ ul[c] = "sent" /\ ul' = [ul EXCEPT ![c] = "wp_test"] /\ uret' = [uret EXCEPT ![c] = "peeked"]
        /\ uport' = [uport EXCEPT ![c] = c] /\ UNCHANGED <<mp_MsgList, umsg, value, result, g_errors>>
    BY <1>3 DEF client_wait, WaitPort, UserAt, UserGoto, dataVars
  <2> QED  BY <2>1 DEF RRType, UserLabel, RetLabel, ProgramInv, ServerAt, ClientAt, PlaceInv, OnePlace, Mine, Queued, Served, Back,
             AnswerInv, Answered
<1>4. CASE client_get(c)
  <2>1. /\ ul[c] = "peeked" /\ ul' = [ul EXCEPT ![c] = "get_rem"] /\ uret' = [uret EXCEPT ![c] = "check"]
        /\ uport' = [uport EXCEPT ![c] = c] /\ UNCHANGED <<mp_MsgList, umsg, value, result, g_errors>>
    BY <1>4 DEF client_get, GetMsg, UserAt, UserGoto, dataVars
  <2> QED  BY <2>1 DEF RRType, UserLabel, RetLabel, ProgramInv, ServerAt, ClientAt, PlaceInv, OnePlace, Mine, Queued, Served, Back,
             AnswerInv, Answered
<1>5. CASE client_check(c)
  <2>1. /\ ul[c] = "check" /\ ul' = [ul EXCEPT ![c] = "new"] /\ umsg' = [umsg EXCEPT ![c] = NULL]
        /\ g_errors' = (IF result[c] = Square(value[c]) THEN g_errors ELSE 1)
        /\ UNCHANGED <<mp_MsgList, uret, uport, value, result>>
    BY <1>5 DEF client_check, UserAt, UserGoto
  <2>2. g_errors' = g_errors
    BY <2>1 DEF AnswerInv, Answered
  <2> QED  BY <2>1, <2>2 DEF RRType, UserLabel, RetLabel, ProgramInv, ServerAt, ClientAt, PlaceInv, OnePlace, Mine, Queued, Served,
             Back, AnswerInv, Answered
<1> QED  BY <1>1, <1>2, <1>3, <1>4, <1>5 DEF Client_

LEMMA ServerSteps ==
  ASSUME RRInv, Server_
  PROVE  RRInv'
<1> USE Names DEF RRInv
<1>1. CASE server_wait
  <2>1. /\ ul[server] = "top" /\ ul' = [ul EXCEPT ![server] = "wp_test"] /\ uret' = [uret EXCEPT ![server] = "drain"]
        /\ uport' = [uport EXCEPT ![server] = server] /\ UNCHANGED <<mp_MsgList, umsg, value, result, g_errors>>
    BY <1>1 DEF server_wait, WaitPort, UserAt, UserGoto, dataVars
  <2> QED  BY <2>1 DEF RRType, UserLabel, RetLabel, ProgramInv, ServerAt, ClientAt, PlaceInv, OnePlace, Mine, Queued, Served, Back,
             AnswerInv, Answered
<1>2. CASE server_get
  <2>1. /\ ul[server] = "drain" /\ ul' = [ul EXCEPT ![server] = "get_rem"] /\ uret' = [uret EXCEPT ![server] = "got"]
        /\ uport' = [uport EXCEPT ![server] = server] /\ UNCHANGED <<mp_MsgList, umsg, value, result, g_errors>>
    BY <1>2 DEF server_get, GetMsg, UserAt, UserGoto, dataVars
  <2> QED  BY <2>1 DEF RRType, UserLabel, RetLabel, ProgramInv, ServerAt, ClientAt, PlaceInv, OnePlace, Mine, Queued, Served, Back,
             AnswerInv, Answered
<1>3. CASE server_none
  <2>1. /\ ul[server] = "got" /\ umsg[server] = NULL /\ ul' = [ul EXCEPT ![server] = "top"]
        /\ UNCHANGED <<mp_MsgList, uret, uport, umsg, value, result, g_errors>>
    BY <1>3 DEF server_none, UserAt, UserGoto, dataVars
  <2> QED  BY <2>1 DEF RRType, UserLabel, RetLabel, ProgramInv, ServerAt, ClientAt, PlaceInv, OnePlace, Mine, Queued, Served, Back,
             AnswerInv, Answered
<1>4. CASE server_work
  <2> DEFINE m == umsg[server]
  <2>1. /\ ul[server] = "got" /\ m # NULL /\ ul' = [ul EXCEPT ![server] = "reply"]
        /\ result' = [result EXCEPT ![m] = Square(value[m])]
        /\ UNCHANGED <<mp_MsgList, uret, uport, umsg, value, g_errors>>
    BY <1>4 DEF server_work, UserAt, UserGoto
  <2>2. m \in Client /\ Square(value[m]) \in Int
    BY <2>1, SquareType DEF RRType
  <2>3. RRType'
    BY <2>1, <2>2 DEF RRType, UserLabel
  <2>4. ProgramInv'
    BY <2>1, <2>2 DEF RRType, ProgramInv, ServerAt, ClientAt
  <2>5. PlaceInv'
    BY <2>1 DEF RRType, PlaceInv, OnePlace, Mine, Queued, Served, Back
  <2>6. AnswerInv'
    <3>1. ASSUME NEW d \in Client, Answered(d)' PROVE d = m \/ Answered(d)
      BY <2>1, <3>1 DEF RRType, Answered, Served, Back
    <3> QED  BY <2>1, <2>2, <3>1 DEF RRType, AnswerInv
  <2> QED  BY <2>3, <2>4, <2>5, <2>6
<1>5. CASE server_reply
  <2>1. /\ ul[server] = "reply" /\ ul' = [ul EXCEPT ![server] = "put_add"] /\ uret' = [uret EXCEPT ![server] = "drain"]
        /\ uport' = [uport EXCEPT ![server] = umsg[server]] /\ umsg' = [umsg EXCEPT ![server] = umsg[server]]
        /\ UNCHANGED <<mp_MsgList, value, result, g_errors>>
    BY <1>5 DEF server_reply, ReplyMsg, PutMsg, UserAt, UserGoto, dataVars
  <2>2. umsg' = umsg /\ umsg[server] \in Client
    BY <2>1 DEF RRType, ProgramInv, ServerAt
  <2> QED  BY <2>1, <2>2 DEF RRType, UserLabel, RetLabel, ProgramInv, ServerAt, ClientAt, PlaceInv, OnePlace, Mine, Queued, Served, Back,
             AnswerInv, Answered
<1> QED  BY <1>1, <1>2, <1>3, <1>4, <1>5 DEF Server_

\* Only the list and the places of the port call matter; the kernel's steps
\* inside it change none of them.
Still == UNCHANGED <<mp_MsgList, ul, uret, uport, umsg, value, result, g_errors>>

LEMMA StillKept ==
  ASSUME RRInv, Still
  PROVE  RRInv'
BY DEF RRInv, Still, RRType, ProgramInv, ServerAt, ClientAt, PlaceInv, OnePlace, Mine, Queued, Served, Back,
   AnswerInv, Answered

\* AddTail: a request enters the server's port, or a reply its client's.
LEMMA Adds ==
  ASSUME RRInv, NEW t \in Port, PutMsgAdd(t), UNCHANGED dataVars
  PROVE  RRInv'
<1> USE Names DEF RRInv
<1>1. /\ ul[t] = "put_add" /\ ul' = [ul EXCEPT ![t] = "put_sig"] /\ umsg' = [umsg EXCEPT ![t] = NULL]
      /\ mp_MsgList' = [mp_MsgList EXCEPT ![uport[t]] = Append(@, umsg[t])]
      /\ UNCHANGED <<uret, uport, value, result, g_errors>>
  BY DEF PutMsgAdd, UserGoto, dataVars
<1>2. CASE t # server
  <2>1. t \in Client /\ uport[t] = server /\ umsg[t] = t
    BY <1>1, <1>2 DEF ProgramInv, ClientAt
  <2>2. ~Queued(t) /\ Distinct(mp_MsgList[server]) /\ mp_MsgList[server] \in Seq(Client)
    BY <1>1, <2>1 DEF PlaceInv, OnePlace, Mine, RRType
  <2> DEFINE l == Append(mp_MsgList[server], t)
  <2>3. /\ l \in Seq(Client) /\ Distinct(l)
        /\ \A m : Listed(l, m) <=> m = t \/ Listed(mp_MsgList[server], m)
    BY <2>1, <2>2, AppendDistinct DEF Queued
  <2>4. mp_MsgList' = [mp_MsgList EXCEPT ![server] = l]
    BY <1>1, <2>1
  <2> HIDE DEF l
  <2>5. RRType'
    <3>1. mp_MsgList' \in [Port -> Seq(Client)]
      BY <2>3, <2>4 DEF RRType
    <3>2. ul' \in [Port -> UserLabel] /\ umsg' \in [Port -> Client \cup {NULL}]
      BY <1>1 DEF RRType, UserLabel
    <3> QED  BY <1>1, <3>1, <3>2 DEF RRType
  <2>6. ProgramInv'
    BY <1>1, <2>1 DEF RRType, ProgramInv, ServerAt, ClientAt
  <2>7. mp_MsgList'[server] = l /\ \A c \in Client : mp_MsgList'[c] = mp_MsgList[c]
    BY <2>4 DEF RRType
  <2>8. PlaceInv'
    <3>1. ASSUME NEW c \in Client PROVE OnePlace(c)'
      <4>1. OnePlace(c) /\ OnePlace(t) /\ Mine(t)
        BY <1>1, <2>1 DEF PlaceInv, Mine
      <4>2. Queued(c)' <=> c = t \/ Queued(c)
        BY <2>3, <2>7 DEF Queued, Listed
      <4>3. (Served(c)' <=> Served(c)) /\ (Back(c)' <=> Back(c))
        BY <1>1, <1>2, <2>7 DEF Served, Back, RRType
      <4>4. ul'[c] = (IF c = t THEN "put_sig" ELSE ul[c]) /\ (Mine(c)' <=> c # t /\ Mine(c))
        BY <1>1, <2>1 DEF Mine, RRType
      <4> QED  BY <2>7, <4>1, <4>2, <4>3, <4>4 DEF OnePlace
    <3> QED  BY <2>3, <2>7, <3>1 DEF PlaceInv, Distinct
  <2>9. AnswerInv'
    BY <1>1, <1>2, <2>1, <2>7 DEF RRType, AnswerInv, Answered, Served, Back
  <2> QED  BY <2>5, <2>6, <2>8, <2>9
<1>3. CASE t = server
  <2> DEFINE m == umsg[server]
  <2>1. m \in Client /\ uport[server] = m /\ Served(m)
    BY <1>1, <1>3 DEF ProgramInv, ServerAt, Served
  <2>2. mp_MsgList[m] = <<>>
    BY <2>1 DEF PlaceInv, OnePlace
  <2>3. mp_MsgList' = [mp_MsgList EXCEPT ![m] = <<m>>]
    BY <1>1, <1>3, <2>1, <2>2
  <2>4. RRType'
    <3>1. <<m>> \in Seq(Client)
      BY <2>1
    <3>2. mp_MsgList' \in [Port -> Seq(Client)]
      BY <2>3, <3>1 DEF RRType
    <3>3. ul' \in [Port -> UserLabel] /\ umsg' \in [Port -> Client \cup {NULL}]
      BY <1>1 DEF RRType, UserLabel
    <3> QED  BY <1>1, <3>2, <3>3 DEF RRType
  <2>5. ProgramInv'
    BY <1>1, <1>3 DEF RRType, ProgramInv, ServerAt, ClientAt
  <2>6. /\ mp_MsgList'[server] = mp_MsgList[server]
        /\ \A c \in Client : mp_MsgList'[c] = IF c = m THEN <<m>> ELSE mp_MsgList[c]
    BY <2>1, <2>3 DEF RRType
  <2>7. ASSUME NEW c \in Client PROVE OnePlace(c)' /\ (Answered(c)' => Answered(c))
    <3>1. OnePlace(c) /\ OnePlace(m)
      BY <2>1 DEF PlaceInv
    <3>2. Queued(c)' <=> Queued(c)
      BY <2>6 DEF Queued, Listed
    <3>3. (~Served(c)') /\ (Served(c) <=> c = m) /\ (Back(c)' <=> c = m \/ Back(c))
      <4>1. Served(c)' <=> FALSE
        BY <1>1, <1>3 DEF Served, RRType
      <4>2. Served(c) <=> c = m
        BY <1>1, <1>3, <2>1 DEF Served
      <4>3. Back(c)' <=> c = m \/ Back(c)
        BY <2>6 DEF Back
      <4> QED  BY <4>1, <4>2, <4>3
    <3>4. ul'[c] = ul[c] /\ (Mine(c)' <=> Mine(c))
      BY <1>1, <1>3 DEF Mine, RRType
    <3>5. OnePlace(c)'
      BY <2>1, <2>6, <3>1, <3>2, <3>3, <3>4 DEF OnePlace
    <3>6. Answered(c)' => Answered(c)
      BY <1>1, <1>3, <2>1, <3>3, <3>4 DEF Answered
    <3> QED  BY <3>5, <3>6
  <2>8. PlaceInv' /\ AnswerInv'
    BY <1>1, <2>6, <2>7 DEF PlaceInv, AnswerInv, Distinct
  <2> QED  BY <2>4, <2>5, <2>8
<1> QED  BY <1>2, <1>3

\* RemHead: the server takes the oldest request, a client its reply.
LEMMA Removes ==
  ASSUME RRInv, NEW t \in Port, GetMsgRem(t), UNCHANGED dataVars
  PROVE  RRInv'
<1> USE Names DEF RRInv
<1>1. /\ ul[t] = "get_rem" /\ ul' = [ul EXCEPT ![t] = uret[t]]
      /\ UNCHANGED <<uret, uport, value, result, g_errors>>
      /\ \/ /\ mp_MsgList[uport[t]] = <<>> /\ umsg' = [umsg EXCEPT ![t] = NULL] /\ UNCHANGED mp_MsgList
         \/ /\ mp_MsgList[uport[t]] # <<>> /\ umsg' = [umsg EXCEPT ![t] = Head(mp_MsgList[uport[t]])]
            /\ mp_MsgList' = [mp_MsgList EXCEPT ![uport[t]] = Tail(@)]
  BY DEF GetMsgRem, UserGoto, dataVars
<1>2. CASE t # server
  <2>1. t \in Client /\ uport[t] = t /\ uret[t] = "check" /\ mp_MsgList[t] = <<t>>
    BY <1>1, <1>2 DEF ProgramInv, ClientAt, PlaceInv, OnePlace, Back
  <2>2. umsg' = [umsg EXCEPT ![t] = t] /\ mp_MsgList' = [mp_MsgList EXCEPT ![t] = <<>>]
    BY <1>1, <2>1
  <2>3. RRType'
    BY <1>1, <2>1, <2>2 DEF RRType, UserLabel
  <2>4. ProgramInv'
    BY <1>1, <2>1, <2>2 DEF RRType, ProgramInv, ServerAt, ClientAt
  <2>5. /\ mp_MsgList'[server] = mp_MsgList[server]
        /\ \A c \in Client : mp_MsgList'[c] = IF c = t THEN <<>> ELSE mp_MsgList[c]
    BY <2>1, <2>2 DEF RRType
  <2>6. ASSUME NEW c \in Client PROVE OnePlace(c)' /\ (Answered(c)' => Answered(c))
    <3>1. OnePlace(c) /\ Back(t)
      BY <2>1 DEF PlaceInv, Back
    <3>2. (Queued(c)' <=> Queued(c)) /\ (Served(c)' <=> Served(c)) /\ (Back(c)' <=> c # t /\ Back(c))
      BY <1>1, <1>2, <2>2, <2>5 DEF Queued, Served, Back, Listed, RRType
    <3>3. ul'[c] = (IF c = t THEN "check" ELSE ul[c]) /\ (Mine(c)' <=> c = t \/ Mine(c)) /\ ul'[server] = ul[server]
      BY <1>1, <1>2, <2>1 DEF Mine, RRType
    <3>4. OnePlace(c)'
      BY <2>5, <3>1, <3>2, <3>3 DEF OnePlace
    <3>5. Answered(c)' => Answered(c)
      BY <3>1, <3>2, <3>3 DEF Answered
    <3> QED  BY <3>4, <3>5
  <2>7. PlaceInv' /\ AnswerInv'
    BY <1>1, <2>5, <2>6 DEF PlaceInv, AnswerInv, Distinct
  <2> QED  BY <2>3, <2>4, <2>7
<1>3. CASE t = server
  <2>1. uport[t] = server /\ uret[t] = "got" /\ Distinct(mp_MsgList[server]) /\ mp_MsgList[server] \in Seq(Client)
    BY <1>1, <1>3 DEF ProgramInv, ServerAt, PlaceInv, RRType
  <2>2. CASE mp_MsgList[server] = <<>>
    <3>1. umsg' = [umsg EXCEPT ![server] = NULL] /\ UNCHANGED mp_MsgList
      BY <1>1, <1>3, <2>1, <2>2
    <3> QED  BY <1>1, <1>3, <2>1, <3>1 DEF RRType, UserLabel, ProgramInv, ServerAt, ClientAt, PlaceInv, OnePlace,
               Mine, Queued, Served, Back, AnswerInv, Answered
  <2>3. CASE mp_MsgList[server] # <<>>
    <3> DEFINE l == mp_MsgList[server]
               h == Head(mp_MsgList[server])
    <3>1. /\ Tail(l) \in Seq(Client) /\ Distinct(Tail(l)) /\ h \in Client
          /\ Listed(l, h) /\ ~Listed(Tail(l), h)
          /\ \A m : m # h => (Listed(Tail(l), m) <=> Listed(l, m))
      BY <2>1, <2>3, TailDistinct
    <3>2. umsg' = [umsg EXCEPT ![server] = h] /\ mp_MsgList' = [mp_MsgList EXCEPT ![server] = Tail(l)]
      BY <1>1, <1>3, <2>1, <2>3
    <3>3. RRType'
      BY <1>1, <2>1, <3>1, <3>2 DEF RRType, UserLabel
    <3>4. ProgramInv'
      BY <1>1, <1>3, <2>1, <3>2 DEF RRType, ProgramInv, ServerAt, ClientAt
    <3>5. mp_MsgList'[server] = Tail(l) /\ \A c \in Client : mp_MsgList'[c] = mp_MsgList[c]
      BY <3>2 DEF RRType
    <3>6. ASSUME NEW c \in Client PROVE OnePlace(c)' /\ (Answered(c)' => Answered(c))
      <4>1. OnePlace(c) /\ OnePlace(h)
        BY <3>1 DEF PlaceInv
      <4>2. (Queued(c)' <=> c # h /\ Queued(c)) /\ (c = h => Queued(c))
        BY <3>1, <3>5 DEF Queued, Listed
      <4>3. (Served(c)' <=> c = h) /\ ~Served(c) /\ (Back(c)' <=> Back(c))
        BY <1>1, <1>3, <2>1, <3>2, <3>5 DEF Served, Back, RRType
      <4>4. ul'[c] = ul[c] /\ (Mine(c)' <=> Mine(c)) /\ ul'[server] = "got"
        BY <1>1, <1>3, <2>1 DEF Mine, RRType
      <4>5. OnePlace(c)'
        BY <3>5, <4>1, <4>2, <4>3, <4>4 DEF OnePlace
      <4>6. Answered(c)' => Answered(c)
        BY <4>3, <4>4 DEF Answered
      <4> QED  BY <4>5, <4>6
    <3>7. PlaceInv' /\ AnswerInv'
      BY <1>1, <3>1, <3>5, <3>6 DEF PlaceInv, AnswerInv, Distinct
    <3> QED  BY <3>3, <3>4, <3>7
  <2> QED  BY <2>2, <2>3
<1> QED  BY <1>2, <1>3

\* The tests and waits of WaitPort, and the signal of PutMsg.
LEMMA Waits ==
  ASSUME RRInv, NEW t \in Port, PutMsgSignal(t) \/ WaitPortTest(t) \/ WaitPortWait(t), UNCHANGED dataVars
  PROVE  RRInv'
<1> USE Names DEF RRInv
<1>1. CASE PutMsgSignal(t)
  <2>1. /\ ul[t] = "put_sig" /\ ul' = [ul EXCEPT ![t] = uret[t]]
        /\ UNCHANGED <<mp_MsgList, uret, uport, umsg, value, result, g_errors>>
    BY <1>1 DEF PutMsgSignal, UserGoto, dataVars
  <2>2. uret[t] = IF t = server THEN "drain" ELSE "sent"
    BY <2>1 DEF ProgramInv, ServerAt, ClientAt
  <2> QED  BY <2>1, <2>2 DEF RRType, UserLabel, ProgramInv, ServerAt, ClientAt, PlaceInv, OnePlace,
             Mine, Queued, Served, Back, AnswerInv, Answered
<1>2. CASE WaitPortWait(t)
  <2>1. /\ ul[t] = "wp_wait" /\ ul' = [ul EXCEPT ![t] = "wp_test"]
        /\ UNCHANGED <<mp_MsgList, uret, uport, umsg, value, result, g_errors>>
    BY <1>2 DEF WaitPortWait, UserGoto, dataVars
  <2> QED  BY <2>1 DEF RRType, UserLabel, ProgramInv, ServerAt, ClientAt, PlaceInv, OnePlace,
             Mine, Queued, Served, Back, AnswerInv, Answered
<1>3. CASE WaitPortTest(t) /\ mp_MsgList[uport[t]] = <<>>
  <2>1. /\ ul[t] = "wp_test" /\ ul' = [ul EXCEPT ![t] = "wp_wait"]
        /\ UNCHANGED <<mp_MsgList, uret, uport, umsg, value, result, g_errors>>
    BY <1>3 DEF WaitPortTest, UserAt, UserGoto, dataVars
  <2> QED  BY <2>1 DEF RRType, UserLabel, ProgramInv, ServerAt, ClientAt, PlaceInv, OnePlace,
             Mine, Queued, Served, Back, AnswerInv, Answered
<1>4. CASE WaitPortTest(t) /\ mp_MsgList[uport[t]] # <<>>
  <2>1. /\ ul[t] = "wp_test" /\ ul' = [ul EXCEPT ![t] = uret[t]]
        /\ umsg' = [umsg EXCEPT ![t] = Head(mp_MsgList[uport[t]])]
        /\ UNCHANGED <<mp_MsgList, uret, uport, value, result, g_errors>>
    BY <1>4 DEF WaitPortTest, UserAt, UserGoto, dataVars
  <2>2. uret[t] = (IF t = server THEN "drain" ELSE "peeked") /\ uport[t] = t
    BY <2>1 DEF ProgramInv, ServerAt, ClientAt
  <2>3. Head(mp_MsgList[t]) \in Client
    <3>1. mp_MsgList[t] \in Seq(Client) /\ mp_MsgList[t] # <<>>
      BY <1>4, <2>2 DEF RRType
    <3> QED  BY <3>1
  <2>4. t # server => Back(t)
    BY <1>4, <2>2 DEF PlaceInv, OnePlace
  <2>5. umsg' \in [Port -> Client \cup {NULL}] /\ \A u \in Port : u # t => umsg'[u] = umsg[u]
    BY <2>1, <2>2, <2>3 DEF RRType
  <2> HIDE DEF RRInv
  <2>6. RRType' /\ ProgramInv'
    BY <2>1, <2>2, <2>5 DEF RRInv, RRType, UserLabel, ProgramInv, ServerAt, ClientAt
  <2>7. PlaceInv' /\ AnswerInv'
    BY <2>1, <2>2, <2>4, <2>5 DEF RRInv, RRType, UserLabel, PlaceInv, OnePlace,
       Mine, Queued, Served, Back, AnswerInv, Answered
  <2> QED  BY <2>6, <2>7 DEF RRInv
<1> QED  BY <1>1, <1>2, <1>3, <1>4

LEMMA RRSteps ==
  ASSUME RRInv, [RRNext]_rrVars
  PROVE  RRInv'
<1>1. ASSUME NEW t \in Port, PortStep(t), UNCHANGED dataVars PROVE RRInv'
  <2>1. ASSUME UNCHANGED portVars PROVE Still
    BY <1>1, <2>1 DEF Still, portVars, dataVars
  <2> QED  BY <1>1, <2>1, Adds, Removes, Waits, StillKept DEF PortStep
<1>2. ASSUME UNCHANGED <<portVars, dataVars>> PROVE RRInv'
  BY <1>2, StillKept DEF Still, portVars, dataVars
<1>3. CASE UNCHANGED rrVars
  BY <1>3, StillKept DEF Still, rrVars, portVars
<1> QED  BY <1>1, <1>2, <1>3, ClientSteps, ServerSteps DEF RRNext

LEMMA RRInductive == RRSpec => []RRInv
<1>1. RRInit => RRInv
  BY RRStarts
<1>2. RRInv /\ [RRNext]_rrVars => RRInv'
  BY RRSteps
<1> QED  BY <1>1, <1>2, PTL DEF RRSpec

-----------------------------------------------------------------------------
(* The program on the kernel *)

LEMMA KernelSteps ==
  ASSUME RRInv, [RRNext]_rrVars
  PROVE  [Next]_vars
<1> USE Names
<1>1. ASSUME NEW t \in Task, TaskStep(t) PROVE Next
  BY <1>1 DEF Next
<1>2. ASSUME NEW t \in Port, NEW p \in Port, CallSignal(t, p, {PortBit[p]}) PROVE Next
  <2>1. {PortBit[p]} \in (SUBSET SigBit) \ {{}} /\ p \in Task /\ "Signal" \in Ops
    BY PortAssumption
  <2>2. Call(t)
    BY <1>2, <2>1 DEF Call
  <2> QED  BY <1>1, <2>2 DEF TaskStep
<1>3. ASSUME NEW t \in Port, NEW p \in Port, CallWait(t, {PortBit[p]}) PROVE Next
  <2>1. {PortBit[p]} \in (SUBSET SigBit) \ {{}} /\ "Wait" \in Ops
    BY PortAssumption
  <2>2. Call(t)
    BY <1>3, <2>1 DEF Call
  <2> QED  BY <1>1, <2>2 DEF TaskStep
<1>4. ASSUME NEW t \in Port, CallCrit(t) PROVE Next
  <2>1. Call(t)
    BY <1>4, PortAssumption DEF Call
  <2> QED  BY <1>1, <2>1 DEF TaskStep
<1>5. ASSUME NEW t \in Port, PortStep(t) PROVE [Next]_vars
  <2>1. uport[t] \in Port
    BY DEF RRInv, RRType
  <2>2. CASE PutMsgAdd(t) \/ GetMsgRem(t)
    BY <1>1, <2>2 DEF PutMsgAdd, GetMsgRem, TaskStep
  <2>3. CASE PutMsgSignal(t)
    BY <1>2, <2>1, <2>3 DEF PutMsgSignal
  <2>4. CASE WaitPortTest(t)
    BY <2>4 DEF WaitPortTest
  <2>5. CASE WaitPortWait(t)
    BY <1>3, <2>1, <2>5 DEF WaitPortWait
  <2>6. CASE KernelStep(t) \/ CritFirst(t)
    BY <1>1, <2>6 DEF TaskStep
  <2> QED  BY <1>5, <2>2, <2>3, <2>4, <2>5, <2>6 DEF PortStep
<1>6. ASSUME NEW c \in Client, Client_(c) PROVE [Next]_vars
  <2>1. CASE client_put(c) \/ client_get(c)
    BY <1>4, <2>1 DEF client_put, client_get, PutMsg, GetMsg
  <2>2. CASE client_new(c) \/ client_wait(c) \/ client_check(c)
    BY <2>2 DEF client_new, client_wait, client_check, WaitPort
  <2> QED  BY <1>6, <2>1, <2>2 DEF Client_
<1>7. ASSUME Server_ PROVE [Next]_vars
  <2>1. CASE server_get \/ server_reply
    BY <1>4, <2>1 DEF server_get, server_reply, ReplyMsg, PutMsg, GetMsg
  <2>2. CASE server_wait \/ server_none \/ server_work
    BY <2>2 DEF server_wait, server_none, server_work, WaitPort
  <2> QED  BY <1>7, <2>1, <2>2 DEF Server_
<1>8. CASE Boot \/ Tick
  BY <1>8 DEF Next
<1>9. CASE UNCHANGED rrVars
  BY <1>9 DEF rrVars
<1> QED  BY <1>5, <1>6, <1>7, <1>8, <1>9 DEF RRNext

\* The programs of msgport.c call the kernel as any worker may: what is proved
\* of the scheduler, of Forbid and Permit and of Wait and Signal holds there.
THEOREM ProgramOnKernel == RRSpec => Spec
<1>1. RRInit => Init
  BY DEF RRInit
<1>2. RRInv /\ [RRNext]_rrVars => [Next]_vars
  BY KernelSteps
<1> QED  BY <1>1, <1>2, RRInductive, PTL DEF RRSpec, Spec

\* client() of msgport.c only ever gets its own message back, with the square
\* of the value it sent, however server() and the timer interleave.
THEOREM RepliesRight == RRSpec => []NoWrongReply
<1>1. RRInv => NoWrongReply
  BY DEF RRInv, AnswerInv, ProgramInv, ClientAt, NoWrongReply
<1> QED  BY <1>1, RRInductive, PTL

\* No struct ReqMsg is lost or linked twice by PutMsg, GetMsg and ReplyMsg.
THEOREM OneRequestOnePlace == RRSpec => []MessageOnce
<1>1. RRInv => MessageOnce
  <2> SUFFICES ASSUME RRInv, NEW c \in Client
               PROVE  LET linked == UNION {{<<p, i>> : i \in LinkedIn(p, c)} : p \in Port}
                          mine   == ul[c] \in {"new", "put", "put_add", "check"}
                          served == \/ ul[server] \in {"got", "reply", "put_add"} /\ umsg[server] = c
                      IN  Cardinality(linked) + (IF mine THEN 1 ELSE 0) + (IF served THEN 1 ELSE 0) = 1
    BY DEF MessageOnce
  <2> USE Names
  <2> DEFINE linked == UNION {{<<p, i>> : i \in LinkedIn(p, c)} : p \in Port}
  <2> SUFFICES Cardinality(linked) + (IF Mine(c) THEN 1 ELSE 0) + (IF Served(c) THEN 1 ELSE 0) = 1
    BY DEF Mine, Served
  <2>1. OnePlace(c) /\ Distinct(mp_MsgList[server]) /\ mp_MsgList \in [Port -> Seq(Client)]
    BY DEF RRInv, PlaceInv, RRType
  <2>2. \A p \in Client : p # c => LinkedIn(p, c) = {}
    <3> SUFFICES ASSUME NEW p \in Client, p # c PROVE LinkedIn(p, c) = {}
      OBVIOUS
    <3>1. mp_MsgList[p] = <<>> \/ mp_MsgList[p] = <<p>>
      BY DEF RRInv, PlaceInv, OnePlace, Back
    <3> QED  BY <3>1 DEF LinkedIn
  <2>3. CASE Queued(c)
    <3>1. PICK i \in 1 .. Len(mp_MsgList[server]) : mp_MsgList[server][i] = c
      BY <2>3 DEF Queued, Listed
    <3>2. LinkedIn(server, c) = {i}
      BY <2>1, <3>1 DEF LinkedIn, Distinct
    <3>3. LinkedIn(c, c) = {}
      BY <2>1, <2>3 DEF LinkedIn, OnePlace
    <3>4. linked = {<<server, i>>}
      BY <2>2, <3>2, <3>3
    <3>5. Cardinality(linked) = 1
      BY <3>4, FS_Singleton
    <3>6. ~Mine(c) /\ ~Served(c)
      BY <2>1, <2>3 DEF OnePlace
    <3> HIDE DEF linked
    <3> QED  BY <3>5, <3>6
  <2>4. CASE Back(c)
    <3>1. LinkedIn(c, c) = {1}
      BY <2>4 DEF LinkedIn, Back
    <3>2. LinkedIn(server, c) = {}
      BY <2>1, <2>4 DEF LinkedIn, OnePlace, Queued, Listed
    <3>3. linked = {<<c, 1>>}
      BY <2>2, <3>1, <3>2
    <3>4. Cardinality(linked) = 1
      BY <3>3, FS_Singleton
    <3>5. ~Mine(c) /\ ~Served(c)
      BY <2>1, <2>4 DEF OnePlace
    <3> HIDE DEF linked
    <3> QED  BY <3>4, <3>5
  <2>5. CASE ~Queued(c) /\ ~Back(c)
    <3>1. LinkedIn(c, c) = {}
      BY <2>1, <2>5 DEF LinkedIn, OnePlace
    <3>2. LinkedIn(server, c) = {}
      BY <2>5 DEF LinkedIn, Queued, Listed
    <3>3. linked = {}
      BY <2>2, <3>1, <3>2
    <3>4. Cardinality(linked) = 0
      BY <3>3, FS_EmptySet
    <3>5. (Mine(c) /\ ~Served(c)) \/ (Served(c) /\ ~Mine(c))
      BY <2>1, <2>5 DEF OnePlace
    <3> HIDE DEF linked
    <3> QED  BY <3>4, <3>5
  <2> QED  BY <2>3, <2>4, <2>5
<1> QED  BY <1>1, RRInductive, PTL
=============================================================================
