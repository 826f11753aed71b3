--------------------------- MODULE DeviceIOProofs ---------------------------
(***************************************************************************)
(* Proofs about DeviceIO, for any patterns, priorities, timer interrupts   *)
(* and failures of the host's transfers: the one IORequest has one owner,  *)
(* DoIO tells the truth, and the program is one of the kernel's.           *)
(***************************************************************************)
EXTENDS DeviceIO, FiniteSetTheorems, TLAPS

-----------------------------------------------------------------------------
(* The invariant *)

UserLabel == {"round", "DoIO", "sent", "peeked", "done", "top", "drain", "got", "reply",
              "put_add", "put_sig", "get_rem", "wp_test", "wp_wait"}
RetLabel  == {"none", "sent", "peeked", "done", "drain", "got"}

DIOType ==
  /\ mp_MsgList \in [Port -> {<<>>, <<io>>}]
  /\ ul \in [Port -> UserLabel] /\ uret \in [Port -> RetLabel]
  /\ uport \in [Port -> Port] /\ umsg \in [Port -> {io, NULL}]

\* Where the two tasks are, and the arguments of the port call they are in.
ClientAt ==
  /\ ul[client] \in {"round", "DoIO", "put_add", "put_sig", "sent", "wp_test", "wp_wait", "peeked", "get_rem", "done"}
  /\ ul[client] \in {"put_add", "put_sig"} => uret[client] = "sent" /\ uport[client] = device
  /\ ul[client] \in {"wp_test", "wp_wait"} => uret[client] = "peeked" /\ uport[client] = client
  /\ ul[client] = "get_rem" => uret[client] = "done" /\ uport[client] = client
  /\ ul[client] = "put_add" => umsg[client] = io
  /\ ul[client] \in {"round", "DoIO", "put_sig", "sent", "wp_test", "wp_wait"} => umsg[client] = NULL
DeviceAt ==
  /\ ul[device] \in {"top", "wp_test", "wp_wait", "drain", "get_rem", "got", "reply", "put_add", "put_sig"}
  /\ ul[device] \in {"put_add", "put_sig"} => uret[device] = "drain" /\ uport[device] = client
  /\ ul[device] \in {"wp_test", "wp_wait"} => uret[device] = "drain" /\ uport[device] = device
  /\ ul[device] = "get_rem" => uret[device] = "got" /\ uport[device] = device
  /\ ul[device] \in {"reply", "put_add"} => umsg[device] = io

\* The four places of the request.
Mine   == ul[client] \in {"round", "DoIO", "put_add", "done"}
Queued == mp_MsgList[device] = <<io>>
Served == ul[device] \in {"got", "reply", "put_add"} /\ umsg[device] = io
Back   == mp_MsgList[client] = <<io>>

PlaceInv ==
  /\ Mine \/ Queued \/ Served \/ Back
  /\ Mine => ~Queued /\ ~Served /\ ~Back
  /\ Queued => ~Served /\ ~Back
  /\ Served => ~Back
  /\ ul[client] \in {"peeked", "get_rem"} => Back

\* From the transfer on the request carries its result; a read is only asked
\* for after a write that went well, and nothing is written meanwhile.
Answered == Back \/ ul[client] = "done" \/ (Served /\ ul[device] \in {"reply", "put_add"})
DataInv ==
  /\ io_Command = "READ" => file = pat
  /\ Answered /\ io_Error = 0 => file = pat /\ (io_Command = "READ" => rbuf = pat)

DIOInv == DIOType /\ ClientAt /\ DeviceAt /\ PlaceInv /\ DataInv

LEMMA Names ==
  /\ Port = {client, device} /\ client # device /\ io # NULL /\ Port \subseteq Task
<1>1. client # device
  <2> SUFFICES ASSUME client = device PROVE FALSE
    OBVIOUS
  <2>1. Task = {client} \cup {idle} /\ Cardinality(Task) = 3
    BY DeviceAssumption
  <2>2. IsFiniteSet({client}) /\ Cardinality({client}) = 1
    BY FS_Singleton
  <2>3. Cardinality({client} \cup {idle}) = IF idle \in {client} THEN 1 ELSE 1 + 1
    BY <2>2, FS_AddElement
  <2> QED  BY <2>1, <2>3
<1> QED  BY <1>1, DeviceAssumption, PortAssumption

-----------------------------------------------------------------------------
(* The steps *)

LEMMA DIOStarts ==
  ASSUME DIOInit
  PROVE  DIOInv
<1>1. /\ mp_MsgList = [p \in Port |-> <<>>] /\ ul = [p \in Port |-> IF p = device THEN "top" ELSE "round"]
      /\ uret = [p \in Port |-> "none"] /\ uport = [p \in Port |-> p] /\ umsg = [p \in Port |-> NULL]
      /\ io_Command = "none"
  BY DEF DIOInit, PortInit
<1>2. DIOType
  BY <1>1, Names DEF DIOType, UserLabel, RetLabel
<1>3. ClientAt /\ DeviceAt
  BY <1>1, Names DEF ClientAt, DeviceAt
<1>4. PlaceInv /\ DataInv
  BY <1>1, Names DEF PlaceInv, Mine, Queued, Served, Back, DataInv, Answered
<1> QED  BY <1>2, <1>3, <1>4 DEF DIOInv

\* client_task and DoIO outside the ports.
LEMMA ClientSteps ==
  ASSUME DIOInv, Client_
  PROVE  DIOInv'
<1> USE Names DEF DIOInv
<1>1. CASE client_write
  <2>1. /\ ul[client] = "round" /\ ul' = [ul EXCEPT ![client] = "DoIO"] /\ io_Command' = "WRITE"
        /\ UNCHANGED <<mp_MsgList, uret, uport, umsg, io_Error, rbuf, file>>
    BY <1>1 DEF client_write, UserAt, UserGoto
  <2>2. DIOType' /\ ClientAt' /\ DeviceAt' /\ PlaceInv'
    BY <2>1 DEF DIOType, UserLabel, ClientAt, DeviceAt, PlaceInv, Mine, Queued, Served, Back
  <2>3. ~Answered'
    BY <2>1, <2>2 DEF DIOType, PlaceInv, Answered, Mine, Queued, Served, Back
  <2> QED  BY <2>1, <2>2, <2>3 DEF DataInv
<1>2. CASE DoIO_send
  <2>1. /\ ul[client] = "DoIO" /\ ul' = [ul EXCEPT ![client] = "put_add"] /\ uret' = [uret EXCEPT ![client] = "sent"]
        /\ uport' = [uport EXCEPT ![client] = device] /\ umsg' = [umsg EXCEPT ![client] = io]
        /\ UNCHANGED <<mp_MsgList, io_Command, io_Error, pat, rbuf, file>>
    BY <1>2 DEF DoIO_send, PutMsg, UserAt, UserGoto, devVars
  <2> QED  BY <2>1 DEF DIOType, UserLabel, RetLabel, ClientAt, DeviceAt, PlaceInv, Mine, Queued, Served, Back,
             DataInv, Answered
<1>3. CASE DoIO_wait
  <2>1. /\ ul[client] = "sent" /\ ul' = [ul EXCEPT ![client] = "wp_test"] /\ uret' = [uret EXCEPT ![client] = "peeked"]
        /\ uport' = [uport EXCEPT ![client] = client]
        /\ UNCHANGED <<mp_MsgList, umsg, io_Command, io_Error, pat, rbuf, file>>
    BY <1>3 DEF DoIO_wait, WaitPort, UserAt, UserGoto, devVars
  <2> QED  BY <2>1 DEF DIOType, UserLabel, RetLabel, ClientAt, DeviceAt, PlaceInv, Mine, Queued, Served, Back,
             DataInv, Answered
<1>4. CASE DoIO_get
  <2>1. /\ ul[client] = "peeked" /\ ul' = [ul EXCEPT ![client] = "get_rem"] /\ uret' = [uret EXCEPT ![client] = "done"]
        /\ uport' = [uport EXCEPT ![client] = client]
        /\ UNCHANGED <<mp_MsgList, umsg, io_Command, io_Error, pat, rbuf, file>>
    BY <1>4 DEF DoIO_get, GetMsg, UserAt, UserGoto, devVars
  <2> QED  BY <2>1 DEF DIOType, UserLabel, RetLabel, ClientAt, DeviceAt, PlaceInv, Mine, Queued, Served, Back,
             DataInv, Answered
<1>5. CASE client_failed \/ client_read \/ client_verify
  <2>1. /\ ul[client] = "done" /\ umsg' = [umsg EXCEPT ![client] = NULL]
        /\ UNCHANGED <<mp_MsgList, uret, uport, io_Error, pat, file>>
        /\ \E l \in {"round", "DoIO"} : ul' = [ul EXCEPT ![client] = l]
        /\ io_Command' = io_Command \/ (io_Command' = "READ" /\ io_Error = 0)
    BY <1>5 DEF client_failed, client_read, client_verify, UserAt, UserGoto
  <2>2. PICK l \in {"round", "DoIO"} : ul' = [ul EXCEPT ![client] = l]
    BY <2>1
  <2>3. DIOType' /\ ClientAt' /\ DeviceAt' /\ PlaceInv'
    BY <2>1, <2>2 DEF DIOType, UserLabel, ClientAt, DeviceAt, PlaceInv, Mine, Queued, Served, Back
  <2>4. ~Answered'
    BY <2>1, <2>2, <2>3 DEF DIOType, PlaceInv, Answered, Mine, Queued, Served, Back
  <2>5. io_Command' = "READ" => file' = pat'
    BY <2>1 DEF DataInv, Answered
  <2> QED  BY <2>3, <2>4, <2>5 DEF DataInv
<1> QED  BY <1>1, <1>2, <1>3, <1>4, <1>5 DEF Client_

\* device_task outside the ports: the transfer, between GetMsg and ReplyMsg.
LEMMA DeviceSteps ==
  ASSUME DIOInv, Device_
  PROVE  DIOInv'
<1> USE Names DEF DIOInv
<1>1. CASE device_wait
  <2>1. /\ ul[device] = "top" /\ ul' = [ul EXCEPT ![device] = "wp_test"] /\ uret' = [uret EXCEPT ![device] = "drain"]
        /\ uport' = [uport EXCEPT ![device] = device]
        /\ UNCHANGED <<mp_MsgList, umsg, io_Command, io_Error, pat, rbuf, file>>
    BY <1>1 DEF device_wait, WaitPort, UserAt, UserGoto, devVars
  <2> QED  BY <2>1 DEF DIOType, UserLabel, RetLabel, ClientAt, DeviceAt, PlaceInv, Mine, Queued, Served, Back,
             DataInv, Answered
<1>2. CASE device_get
  <2>1. /\ ul[device] = "drain" /\ ul' = [ul EXCEPT ![device] = "get_rem"] /\ uret' = [uret EXCEPT ![device] = "got"]
        /\ uport' = [uport EXCEPT ![device] = device]
        /\ UNCHANGED <<mp_MsgList, umsg, io_Command, io_Error, pat, rbuf, file>>
    BY <1>2 DEF device_get, GetMsg, UserAt, UserGoto, devVars
  <2> QED  BY <2>1 DEF DIOType, UserLabel, RetLabel, ClientAt, DeviceAt, PlaceInv, Mine, Queued, Served, Back,
             DataInv, Answered
<1>3. CASE device_none
  <2>1. /\ ul[device] = "got" /\ umsg[device] = NULL /\ ul' = [ul EXCEPT ![device] = "top"]
        /\ UNCHANGED <<mp_MsgList, uret, uport, umsg, io_Command, io_Error, pat, rbuf, file>>
    BY <1>3 DEF device_none, UserAt, UserGoto, devVars
  <2> QED  BY <2>1 DEF DIOType, UserLabel, RetLabel, ClientAt, DeviceAt, PlaceInv, Mine, Queued, Served, Back,
             DataInv, Answered
<1>4. CASE device_write \/ device_read
  <2>1. /\ ul[device] = "got" /\ umsg[device] = io /\ ul' = [ul EXCEPT ![device] = "reply"]
        /\ UNCHANGED <<mp_MsgList, uret, uport, umsg, io_Command, pat>>
    BY <1>4 DEF device_write, device_read, UserAt, UserGoto
  <2>2. DIOType' /\ ClientAt' /\ DeviceAt' /\ PlaceInv'
    BY <2>1 DEF DIOType, UserLabel, ClientAt, DeviceAt, PlaceInv, Mine, Queued, Served, Back
  <2>3. CASE device_write
    <3>1. io_Command' = "WRITE" /\ (io_Error' = 0 => file' = pat')
      BY <2>1, <2>3 DEF device_write
    <3> QED  BY <2>2, <3>1 DEF DataInv
  <2>4. CASE device_read
    <3>1. file' = pat' /\ (io_Error' = 0 => rbuf' = file')
      BY <2>1, <2>4 DEF device_read, DataInv
    <3> QED  BY <2>2, <3>1 DEF DataInv
  <2> QED  BY <1>4, <2>2, <2>3, <2>4
<1>5. CASE device_reply
  <2>1. /\ ul[device] = "reply" /\ ul' = [ul EXCEPT ![device] = "put_add"] /\ uret' = [uret EXCEPT ![device] = "drain"]
        /\ uport' = [uport EXCEPT ![device] = client] /\ umsg' = [umsg EXCEPT ![device] = umsg[device]]
        /\ UNCHANGED <<mp_MsgList, io_Command, io_Error, pat, rbuf, file>>
    BY <1>5 DEF device_reply, ReplyMsg, PutMsg, UserAt, UserGoto, devVars
  <2>2. umsg' = umsg
    BY <2>1 DEF DIOType
  <2> QED  BY <2>1, <2>2 DEF DIOType, UserLabel, RetLabel, ClientAt, DeviceAt, PlaceInv, Mine, Queued, Served, Back,
             DataInv, Answered
<1> QED  BY <1>1, <1>2, <1>3, <1>4, <1>5 DEF Device_

Still == UNCHANGED <<mp_MsgList, ul, uret, uport, umsg, io_Command, io_Error, pat, rbuf, file>>

\* The ports: the request is moved, its data is not touched.
LEMMA PortSteps ==
  ASSUME DIOInv, NEW t \in Port, PortStep(t), UNCHANGED devVars
  PROVE  DIOInv'
<1> USE Names DEF DIOInv
<1>0. UNCHANGED <<io_Command, io_Error, pat, rbuf, file>>
  BY DEF devVars
<1>1. CASE PutMsgAdd(t)
  <2>1. /\ ul[t] = "put_add" /\ ul' = [ul EXCEPT ![t] = "put_sig"] /\ umsg' = [umsg EXCEPT ![t] = NULL]
        /\ mp_MsgList' = [mp_MsgList EXCEPT ![uport[t]] = Append(@, umsg[t])] /\ UNCHANGED <<uret, uport>>
    BY <1>1 DEF PutMsgAdd, UserGoto
  <2> DEFINE u == IF t = client THEN device ELSE client
  <2>2. uport[t] = u /\ umsg[t] = io /\ mp_MsgList[u] = <<>>
    BY <2>1 DEF ClientAt, DeviceAt, DIOType, PlaceInv, Mine, Queued, Served, Back
  <2>3. mp_MsgList' = [mp_MsgList EXCEPT ![u] = <<io>>]
    BY <2>1, <2>2
  <2>4. DIOType' /\ ClientAt' /\ DeviceAt'
    <3> HIDE DEF u
    <3>1. mp_MsgList' \in [Port -> {<<>>, <<io>>}]
      BY <2>3 DEF DIOType
    <3>2. ul' \in [Port -> UserLabel] /\ umsg' \in [Port -> {io, NULL}]
      BY <2>1 DEF DIOType, UserLabel
    <3> QED  BY <2>1, <3>1, <3>2 DEF DIOType, ClientAt, DeviceAt
  <2>5. PlaceInv' /\ DataInv'
    BY <1>0, <2>1, <2>2, <2>3 DEF DIOType, ClientAt, PlaceInv, Mine, Queued, Served, Back, DataInv, Answered
  <2> QED  BY <2>4, <2>5
<1>2. CASE PutMsgSignal(t)
  <2>1. ul[t] = "put_sig" /\ ul' = [ul EXCEPT ![t] = uret[t]] /\ UNCHANGED <<mp_MsgList, uret, uport, umsg>>
    BY <1>2 DEF PutMsgSignal, UserGoto
  <2>2. uret[t] = IF t = device THEN "drain" ELSE "sent"
    BY <2>1 DEF DeviceAt, ClientAt
  <2> QED  BY <1>0, <2>1, <2>2 DEF DIOType, UserLabel, ClientAt, DeviceAt, PlaceInv, Mine, Queued, Served, Back,
             DataInv, Answered
<1>3. CASE GetMsgRem(t)
  <2>1. /\ ul[t] = "get_rem" /\ ul' = [ul EXCEPT ![t] = uret[t]] /\ UNCHANGED <<uret, uport>>
        /\ \/ /\ mp_MsgList[uport[t]] = <<>> /\ umsg' = [umsg EXCEPT ![t] = NULL] /\ UNCHANGED mp_MsgList
           \/ /\ mp_MsgList[uport[t]] # <<>> /\ umsg' = [umsg EXCEPT ![t] = Head(mp_MsgList[uport[t]])]
              /\ mp_MsgList' = [mp_MsgList EXCEPT ![uport[t]] = Tail(@)]
    BY <1>3 DEF GetMsgRem, UserGoto
  <2>2. uport[t] = t /\ uret[t] = IF t = device THEN "got" ELSE "done"
    BY <2>1 DEF DeviceAt, ClientAt
  <2>3. CASE mp_MsgList[t] = <<>>
    <3>1. t = device /\ umsg' = [umsg EXCEPT ![t] = NULL] /\ UNCHANGED mp_MsgList
      BY <2>1, <2>2, <2>3 DEF PlaceInv, Back
    <3> QED  BY <1>0, <2>1, <2>2, <3>1 DEF DIOType, UserLabel, ClientAt, DeviceAt, PlaceInv, Mine, Queued, Served, Back,
               DataInv, Answered
  <2>4. CASE mp_MsgList[t] # <<>>
    <3>1. mp_MsgList[t] = <<io>>
      BY <2>4 DEF DIOType
    <3>2. umsg' = [umsg EXCEPT ![t] = io] /\ mp_MsgList' = [mp_MsgList EXCEPT ![t] = <<>>]
      BY <2>1, <2>2, <2>4, <3>1
    <3>3. DIOType' /\ ClientAt' /\ DeviceAt'
      BY <2>1, <2>2, <3>2 DEF DIOType, UserLabel, ClientAt, DeviceAt
    <3>4. PlaceInv' /\ DataInv'
      BY <1>0, <2>1, <2>2, <3>1, <3>2 DEF DIOType, PlaceInv, Mine, Queued, Served, Back, DataInv, Answered
    <3> QED  BY <3>3, <3>4
  <2> QED  BY <2>3, <2>4
<1>4. CASE WaitPortWait(t)
  <2>1. ul[t] = "wp_wait" /\ ul' = [ul EXCEPT ![t] = "wp_test"] /\ UNCHANGED <<mp_MsgList, uret, uport, umsg>>
    BY <1>4 DEF WaitPortWait, UserGoto
  <2> QED  BY <1>0, <2>1 DEF DIOType, UserLabel, ClientAt, DeviceAt, PlaceInv, Mine, Queued, Served, Back,
             DataInv, Answered
<1>5. CASE WaitPortTest(t) /\ mp_MsgList[uport[t]] = <<>>
  <2>1. ul[t] = "wp_test" /\ ul' = [ul EXCEPT ![t] = "wp_wait"] /\ UNCHANGED <<mp_MsgList, uret, uport, umsg>>
    BY <1>5 DEF WaitPortTest, UserAt, UserGoto
  <2> QED  BY <1>0, <2>1 DEF DIOType, UserLabel, ClientAt, DeviceAt, PlaceInv, Mine, Queued, Served, Back,
             DataInv, Answered
<1>6. CASE WaitPortTest(t) /\ mp_MsgList[uport[t]] # <<>>
  <2>1. /\ ul[t] = "wp_test" /\ ul' = [ul EXCEPT ![t] = uret[t]]
        /\ umsg' = [umsg EXCEPT ![t] = Head(mp_MsgList[uport[t]])] /\ UNCHANGED <<mp_MsgList, uret, uport>>
    BY <1>6 DEF WaitPortTest, UserAt, UserGoto
  <2>2. uport[t] = t /\ uret[t] = IF t = device THEN "drain" ELSE "peeked"
    BY <2>1 DEF DeviceAt, ClientAt
  <2>3. mp_MsgList[t] = <<io>>
    BY <1>6, <2>2 DEF DIOType
  <2>4. umsg' = [umsg EXCEPT ![t] = io]
    BY <2>1, <2>2, <2>3
  <2>5. DIOType' /\ ClientAt' /\ DeviceAt'
    BY <2>1, <2>2, <2>4 DEF DIOType, UserLabel, ClientAt, DeviceAt
  <2>6. PlaceInv' /\ DataInv'
    BY <1>0, <2>1, <2>2, <2>3, <2>4 DEF DIOType, PlaceInv, Mine, Queued, Served, Back, DataInv, Answered
  <2> QED  BY <2>5, <2>6
<1>7. CASE UNCHANGED portVars
  BY <1>0, <1>7 DEF portVars, DIOType, ClientAt, DeviceAt, PlaceInv, Mine, Queued, Served, Back, DataInv, Answered
<1>8. WaitPortTest(t) => mp_MsgList[uport[t]] = <<>> \/ mp_MsgList[uport[t]] # <<>>
  OBVIOUS
<1> QED  BY <1>1, <1>2, <1>3, <1>4, <1>5, <1>6, <1>7, <1>8 DEF PortStep

LEMMA DIOSteps ==
  ASSUME DIOInv, [DIONext]_dioVars
  PROVE  DIOInv'
<1>1. ASSUME UNCHANGED <<portVars, devVars>> PROVE DIOInv'
  BY <1>1 DEF portVars, devVars, DIOInv, DIOType, ClientAt, DeviceAt, PlaceInv, Mine, Queued, Served, Back,
     DataInv, Answered
<1>2. UNCHANGED dioVars => UNCHANGED <<portVars, devVars>>
  BY DEF dioVars
<1> QED  BY <1>1, <1>2, ClientSteps, DeviceSteps, PortSteps DEF DIONext

LEMMA DIOInductive == DIOSpec => []DIOInv
<1>1. DIOInit => DIOInv
  BY DIOStarts
<1>2. DIOInv /\ [DIONext]_dioVars => DIOInv'
  BY DIOSteps
<1> QED  BY <1>1, <1>2, PTL DEF DIOSpec

-----------------------------------------------------------------------------
(* The program on the kernel *)

LEMMA KernelSteps ==
  ASSUME DIOInv, [DIONext]_dioVars
  PROVE  [Next]_vars
<1> USE Names
<1>1. ASSUME NEW t \in Task, TaskStep(t) PROVE Next
  BY <1>1 DEF Next
<1>2. ASSUME NEW t \in Port, NEW p \in Port, CallSignal(t, p, {PortBit[p]}) PROVE Next
  <2>1. {PortBit[p]} \in (SUBSET SigBit) \ {{}} /\ p \in Task /\ "Signal" \in Ops
    BY PortAssumption
  <2>2. Call(t)
    BY <1>2, <2>1 DEF Call
  <2> QED  BY <1>1, <2>2 DEF TaskStep
<1>3. ASSUME NEW t \in Port, NEW p \in Port, CallWait(t, {PortBit[p]}) PROVE Next
  <2>1. {PortBit[p]} \in (SUBSET SigBit) \ {{}} /\ "Wait" \in Ops
    BY PortAssumption
  <2>2. Call(t)
    BY <1>3, <2>1 DEF Call
  <2> QED  BY <1>1, <2>2 DEF TaskStep
<1>4. ASSUME NEW t \in Port, CallCrit(t) PROVE Next
  <2>1. Call(t)
    BY <1>4, PortAssumption DEF Call
  <2> QED  BY <1>1, <2>1 DEF TaskStep
<1>5. ASSUME NEW t \in Port, PortStep(t) PROVE [Next]_vars
  <2>1. uport[t] \in Port
    BY DEF DIOInv, DIOType
  <2>2. CASE PutMsgAdd(t) \/ GetMsgRem(t)
    BY <1>1, <2>2 DEF PutMsgAdd, GetMsgRem, TaskStep
  <2>3. CASE PutMsgSignal(t)
    BY <1>2, <2>1, <2>3 DEF PutMsgSignal
  <2>4. CASE WaitPortTest(t)
    BY <2>4 DEF WaitPortTest
  <2>5. CASE WaitPortWait(t)
    BY <1>3, <2>1, <2>5 DEF WaitPortWait
  <2>6. CASE KernelStep(t) \/ CritFirst(t)
    BY <1>1, <2>6 DEF TaskStep
  <2> QED  BY <1>5, <2>2, <2>3, <2>4, <2>5, <2>6 DEF PortStep
<1>6. ASSUME Client_ \/ Device_ PROVE [Next]_vars
  <2>1. CASE DoIO_send \/ DoIO_get
    BY <1>4, <2>1 DEF DoIO_send, DoIO_get, PutMsg, GetMsg
  <2>2. CASE device_get \/ device_reply
    BY <1>4, <2>2 DEF device_get, device_reply, ReplyMsg, PutMsg, GetMsg
  <2>3. CASE \/ client_write \/ DoIO_wait \/ client_failed \/ client_read \/ client_verify
             \/ device_wait \/ device_none \/ device_write \/ device_read
    BY <2>3 DEF client_write, DoIO_wait, client_failed, client_read, client_verify, device_wait, device_none,
       device_write, device_read, WaitPort
  <2> QED  BY <1>6, <2>1, <2>2, <2>3 DEF Client_, Device_
<1>7. CASE Boot \/ Tick
  BY <1>7 DEF Next
<1>8. CASE UNCHANGED dioVars
  BY <1>8 DEF dioVars
<1> QED  BY <1>5, <1>6, <1>7, <1>8 DEF DIONext

\* The program of device.c calls the kernel as any worker may: what is proved
\* of the scheduler, of Forbid and Permit and of Wait and Signal holds there.
THEOREM ProgramOnKernel == DIOSpec => Spec
<1>1. DIOInit => Init
  BY DEF DIOInit
<1>2. DIOInv /\ [DIONext]_dioVars => [Next]_vars
  BY KernelSteps
<1> QED  BY <1>1, <1>2, DIOInductive, PTL DEF DIOSpec, Spec

\* device_task touches the request, the client's buffers and the file only
\* while client_task waits inside DoIO.
THEOREM OneOwner == DIOSpec => []RequestOwnership
<1>1. DIOInv => RequestOwnership
  BY DEF DIOInv, DIOType, ClientAt, PlaceInv, Mine, Queued, Served, Back, RequestOwnership
<1> QED  BY <1>1, DIOInductive, PTL

\* When DoIO returns 0 the pattern is in the file, and after the read-back in
\* the buffer, whichever earlier transfers the host cut short.
THEOREM DoIOTellsTheTruth == DIOSpec => []DoIOTruthful
<1>1. DIOInv => DoIOTruthful
  BY DEF DIOInv, DataInv, Answered, DoIOTruthful
<1> QED  BY <1>1, DIOInductive, PTL
=============================================================================
