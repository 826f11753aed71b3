----------------------------- MODULE ExecPorts ------------------------------
(***************************************************************************)
(* Message ports on top of the kernel: PutMsg, GetMsg, WaitPort, ReplyMsg  *)
(* of hosted/msgport.c (H10), repeated in hosted/device.c (H11).           *)
(*                                                                         *)
(* Every port of those programs is PA_SIGNAL and belongs to one task, so a *)
(* port is named by the task it signals (mp_SigTask); PortBit gives its    *)
(* mp_SigBit.  A task in one of these functions remembers the port, the    *)
(* message and the statement to return to.                                 *)
(***************************************************************************)
EXTENDS ExecKernel

CONSTANTS Port,      \* the tasks that own a port
          PortBit,   \* mp_SigBit of each port
          Message,   \* the messages of the program
          NULL

ASSUME PortAssumption ==
    /\ Port \subseteq Task
    /\ PortBit \in [Port -> SigBit]
    /\ NULL \notin Message
    \* msgport.c and its successors have Wait/Signal and Forbid/Permit
    /\ Ops = {"Wait", "Signal", "Crit"}

VARIABLES mp_MsgList,   \* the queue of each port
          ul,           \* the statement of the program, or of a port call
          uret,         \* where the port call returns to
          uport,        \* its port argument
          umsg          \* its message argument or result

portVars == <<mp_MsgList, ul, uret, uport, umsg>>

\* t is in its program (or in the user part of a port call) at l.
UserAt(t, l) == At(t, "user") /\ ul[t] = l

UserGoto(t, l) == ul' = [ul EXCEPT ![t] = l]

\* NewPort leaves every list empty.
PortInit(start) ==
    /\ mp_MsgList = [p \in Port |-> <<>>]
    /\ ul = start
    /\ uret = [p \in Port |-> "none"]
    /\ uport = [p \in Port |-> p]
    /\ umsg = [p \in Port |-> NULL]

-----------------------------------------------------------------------------
(* PutMsg(port, msg): AddTail under Forbid, then Signal outside of it *)

PutMsg(t, p, m, ret) ==
    /\ CallCrit(t)
    /\ UserGoto(t, "put_add")
    /\ uret' = [uret EXCEPT ![t] = ret]
    /\ uport' = [uport EXCEPT ![t] = p]
    /\ umsg' = [umsg EXCEPT ![t] = m]
    /\ UNCHANGED mp_MsgList

PutMsgAdd(t) ==
    /\ CritLast(t)
    /\ ul[t] = "put_add"
    /\ mp_MsgList' = [mp_MsgList EXCEPT ![uport[t]] = Append(@, umsg[t])]
    /\ UserGoto(t, "put_sig")
    /\ umsg' = [umsg EXCEPT ![t] = NULL]
    /\ UNCHANGED <<uret, uport>>

\* A mutated PutMsg: no signal when the port already has messages.  (With the
\* list read outside Forbid and after the AddTail.)
MutPutMsgSignal(t) ==
    /\ ul[t] = "put_sig"
    /\ \/ /\ mp_MsgList[uport[t]] = <<>>
          /\ CallSignal(t, uport[t], {PortBit[uport[t]]})
       \/ /\ mp_MsgList[uport[t]] # <<>>
          /\ At(t, "user")
          /\ UNCHANGED vars
    /\ UserGoto(t, uret[t])
    /\ UNCHANGED <<mp_MsgList, uret, uport, umsg>>

PutMsgSignal(t) ==
    /\ ul[t] = "put_sig"
    /\ CallSignal(t, uport[t], {PortBit[uport[t]]})
    /\ UserGoto(t, uret[t])
    /\ UNCHANGED <<mp_MsgList, uret, uport, umsg>>

\* ReplyMsg(msg) is PutMsg(msg->mn_ReplyPort, msg).
ReplyMsg(t, mn_ReplyPort, ret) == PutMsg(t, mn_ReplyPort, umsg[t], ret)

-----------------------------------------------------------------------------
(* GetMsg(port): RemHead under Forbid *)

GetMsg(t, p, ret) ==
    /\ CallCrit(t)
    /\ UserGoto(t, "get_rem")
    /\ uret' = [uret EXCEPT ![t] = ret]
    /\ uport' = [uport EXCEPT ![t] = p]
    /\ UNCHANGED <<mp_MsgList, umsg>>

\* A mutated GetMsg: it returns the head but leaves it linked.
MutGetMsgRem(t) ==
    /\ CritLast(t)
    /\ ul[t] = "get_rem"
    /\ umsg' = [umsg EXCEPT ![t] = IF mp_MsgList[uport[t]] = <<>> THEN NULL
                                   ELSE Head(mp_MsgList[uport[t]])]
    /\ UserGoto(t, uret[t])
    /\ UNCHANGED <<mp_MsgList, uret, uport>>

GetMsgRem(t) ==
    /\ CritLast(t)
    /\ ul[t] = "get_rem"
    /\ LET p == uport[t]
       IN  \/ /\ mp_MsgList[p] = <<>>
              /\ umsg' = [umsg EXCEPT ![t] = NULL]
              /\ UNCHANGED mp_MsgList
           \/ /\ mp_MsgList[p] # <<>>
              /\ umsg' = [umsg EXCEPT ![t] = Head(mp_MsgList[p])]
              /\ mp_MsgList' = [mp_MsgList EXCEPT ![p] = Tail(@)]
    /\ UserGoto(t, uret[t])
    /\ UNCHANGED <<uret, uport>>

-----------------------------------------------------------------------------
(* WaitPort(port): the list is tested outside Forbid *)

WaitPort(t, p, ret) ==
    /\ UserGoto(t, "wp_test")
    /\ uret' = [uret EXCEPT ![t] = ret]
    /\ uport' = [uport EXCEPT ![t] = p]
    /\ UNCHANGED <<vars, mp_MsgList, umsg>>

\* A mutated WaitPort: it waits once and does not test the list again.
MutWaitPortWait(t) ==
    /\ ul[t] = "wp_wait"
    /\ CallWait(t, {PortBit[uport[t]]})
    /\ UserGoto(t, uret[t])
    /\ UNCHANGED <<mp_MsgList, uret, uport, umsg>>

WaitPortTest(t) ==
    /\ UserAt(t, "wp_test")
    /\ \/ /\ mp_MsgList[uport[t]] = <<>>
          /\ UserGoto(t, "wp_wait")
          /\ UNCHANGED umsg
       \/ /\ mp_MsgList[uport[t]] # <<>>
          /\ umsg' = [umsg EXCEPT ![t] = Head(mp_MsgList[uport[t]])]
          /\ UserGoto(t, uret[t])
    /\ UNCHANGED <<vars, mp_MsgList, uret, uport>>

WaitPortWait(t) ==
    /\ ul[t] = "wp_wait"
    /\ CallWait(t, {PortBit[uport[t]]})
    /\ UserGoto(t, "wp_test")
    /\ UNCHANGED <<mp_MsgList, uret, uport, umsg>>

-----------------------------------------------------------------------------

\* The steps of t inside a port call or inside the kernel.
PortStep(t) ==
    \/ PutMsgAdd(t) \/ PutMsgSignal(t) \/ GetMsgRem(t)
    \/ WaitPortTest(t) \/ WaitPortWait(t)
    \/ (KernelStep(t) \/ CritFirst(t)) /\ UNCHANGED portVars

\* All places a message can be: linked in a port, or held by a task.
LinkedIn(p, m) == {i \in 1..Len(mp_MsgList[p]) : mp_MsgList[p][i] = m}
=============================================================================
