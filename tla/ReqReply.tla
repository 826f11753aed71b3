------------------------------ MODULE ReqReply ------------------------------
(***************************************************************************)
(* The H10 program of hosted/msgport.c: clients that each keep one request *)
(* in flight, a server that squares the value and replies.  The program    *)
(* has one client; the module takes any set of them.                       *)
(***************************************************************************)
EXTENDS ExecPorts

CONSTANTS Client, server, idle,
          ValueMod    \* the bound: values and counters are kept modulo this

ASSUME ReqReplyAssumption ==
    /\ Port = Client \cup {server} /\ server \notin Client
    /\ Task \ Port \subseteq {idle}
    /\ Message = Client           \* each client's static struct ReqMsg
    /\ ValueMod \in Nat /\ ValueMod > 1

VARIABLES value, result,          \* of each request
          g_rounds, g_served, g_errors

rrVars == <<vars, portVars, value, result, g_rounds, g_served, g_errors>>
dataVars == <<value, result, g_rounds, g_served, g_errors>>

Square(v) == (v * v) % ValueMod

RRInit ==
    /\ Init
    /\ PortInit([p \in Port |-> IF p = server THEN "top" ELSE "new"])
    /\ value = [c \in Client |-> 0]
    /\ result = [c \in Client |-> -1]
    /\ g_rounds = 0 /\ g_served = 0 /\ g_errors = 0

-----------------------------------------------------------------------------
(* client() *)

client_new(c) ==
    /\ UserAt(c, "new")
    /\ value' = [value EXCEPT ![c] = (@ + 1) % ValueMod]
    /\ result' = [result EXCEPT ![c] = -1]
    /\ UserGoto(c, "put")
    /\ UNCHANGED <<vars, mp_MsgList, uret, uport, umsg, g_rounds, g_served, g_errors>>

client_put(c) ==
    /\ UserAt(c, "put")
    /\ PutMsg(c, server, c, "sent")
    /\ UNCHANGED dataVars

client_wait(c) ==
    /\ UserAt(c, "sent")
    /\ WaitPort(c, c, "peeked")
    /\ UNCHANGED dataVars

client_get(c) ==
    /\ UserAt(c, "peeked")
    /\ GetMsg(c, c, "check")
    /\ UNCHANGED dataVars

client_check(c) ==
    /\ UserAt(c, "check")
    /\ g_errors' = IF result[c] = Square(value[c]) THEN g_errors ELSE 1
    /\ g_rounds' = (g_rounds + 1) % ValueMod
    /\ umsg' = [umsg EXCEPT ![c] = NULL]
    /\ UserGoto(c, "new")
    /\ UNCHANGED <<vars, mp_MsgList, uret, uport, value, result, g_served>>

Client_(c) ==
    client_new(c) \/ client_put(c) \/ client_wait(c) \/ client_get(c) \/ client_check(c)

-----------------------------------------------------------------------------
(* server() *)

server_wait ==
    /\ UserAt(server, "top")
    /\ WaitPort(server, server, "drain")
    /\ UNCHANGED dataVars

server_get ==
    /\ UserAt(server, "drain")
    /\ GetMsg(server, server, "got")
    /\ UNCHANGED dataVars

server_none ==
    /\ UserAt(server, "got")
    /\ umsg[server] = NULL
    /\ UserGoto(server, "top")
    /\ UNCHANGED <<vars, mp_MsgList, uret, uport, umsg, dataVars>>

server_work ==
    /\ UserAt(server, "got")
    /\ umsg[server] # NULL
    /\ result' = [result EXCEPT ![umsg[server]] = Square(value[umsg[server]])]
    /\ g_served' = (g_served + 1) % ValueMod
    /\ UserGoto(server, "reply")
    /\ UNCHANGED <<vars, mp_MsgList, uret, uport, umsg, value, g_rounds, g_errors>>

server_reply ==
    /\ UserAt(server, "reply")
    /\ ReplyMsg(server, umsg[server], "drain")
    /\ UNCHANGED dataVars

Server_ == server_wait \/ server_get \/ server_none \/ server_work \/ server_reply

-----------------------------------------------------------------------------

RRNext ==
    \/ \E c \in Client : Client_(c)
    \/ Server_
    \/ (\E t \in Port : PortStep(t)) /\ UNCHANGED dataVars
    \/ (Boot \/ Tick) /\ UNCHANGED <<portVars, dataVars>>

RRSpec == RRInit /\ [][RRNext]_rrVars

\* As in ExecKernel: dispatched tasks execute, clean ticks keep arriving.
RRFairness ==
    /\ WF_rrVars(Boot /\ UNCHANGED <<portVars, dataVars>>)
    /\ WF_rrVars(tick_init /\ UNCHANGED <<portVars, dataVars>>)
    /\ SF_rrVars(tick_switch /\ UNCHANGED <<portVars, dataVars>>)
    /\ \A c \in Client : SF_rrVars(Client_(c) \/ (PortStep(c) /\ UNCHANGED dataVars))
    /\ SF_rrVars(Server_ \/ (PortStep(server) /\ UNCHANGED dataVars))

RRLive == RRSpec /\ RRFairness

\* Each request is in exactly one place: with its client, linked once in one
\* port, or held by the server.  A message that is linked twice corrupts the
\* list, one that is nowhere is lost.
MessageOnce ==
    \A c \in Client :
        LET linked == UNION {{<<p, i>> : i \in LinkedIn(p, c)} : p \in Port}
            mine   == ul[c] \in {"new", "put", "put_add", "check"}
            served == \/ ul[server] \in {"got", "reply", "put_add"} /\ umsg[server] = c
        IN  Cardinality(linked) + (IF mine THEN 1 ELSE 0) + (IF served THEN 1 ELSE 0) = 1

\* When the client verifies a reply it is the answer to the request it sent:
\* main() fails the demo on a single wrong reply.
NoWrongReply ==
    /\ g_errors = 0
    /\ \A c \in Client : ul[c] = "check" => umsg[c] = c

\* Every request is answered: each client keeps starting new requests,
\* whatever the timer interrupts, until the tick limit.
RoundTrips ==
    \A c \in Client, n \in 0..ValueMod - 1 :
        value[c] = n ~> (value[c] # n \/ expired)
=============================================================================
