------------------------------ MODULE DeviceIO ------------------------------
(***************************************************************************)
(* The H11 program of hosted/device.c: a device task that owns a host file *)
(* and serves IORequests, a client that writes a pattern with DoIO and     *)
(* reads it back, and main()'s final check of the file.                    *)
(*                                                                         *)
(* A buffer full of one byte is that byte.  The host's pread and pwrite    *)
(* are external: they transfer everything, nothing, or a part.             *)
(***************************************************************************)
EXTENDS ExecPorts

CONSTANTS client, device, idle,
          io,          \* the client's one struct IOStdReq
          Mixed,       \* a buffer or file that is not one repeated byte
          Empty,       \* the file just after O_TRUNC
          PatMod,      \* the bound: patterns are round % PatMod
          Fails,       \* the transfers that the host may cut short
          MaxErrors    \* the bound: at most so many transfers are cut short

ASSUME DeviceAssumption ==
    /\ Task = {client, device, idle} /\ Cardinality(Task) = 3
    /\ Port = {client, device}
    /\ Message = {io}
    /\ PatMod \in Nat /\ PatMod > 1
    /\ Mixed \notin Nat /\ Empty \notin Nat /\ Mixed # Empty
    /\ Fails \subseteq {"WRITE", "READ"}
    /\ MaxErrors \in Nat

VARIABLES io_Command, io_Error,
          pat,          \* the pattern of this round, and wbuf
          rbuf,         \* the client's read buffer (0 while its content is dead)
          file,         \* the host file: Empty, one pattern, or Mixed
          g_last_pat,
          g_ok,         \* g_rounds > 0: at least one round was verified
          g_errors

devVars == <<io_Command, io_Error, pat, rbuf, file, g_last_pat, g_ok, g_errors>>
dioVars == <<vars, portVars, devVars>>

\* Whether the host may cut this transfer short (the client has one request, so
\* every earlier failure is already counted in g_errors).
MayFail(cmd) == cmd \in Fails /\ g_errors < MaxErrors

DIOInit ==
    /\ Init
    /\ PortInit([p \in Port |-> IF p = device THEN "top" ELSE "round"])
    /\ io_Command = "none" /\ io_Error = 0
    /\ pat = 0 /\ rbuf = 0
    /\ file = Empty
    /\ g_last_pat = 0 /\ g_ok = FALSE /\ g_errors = 0

-----------------------------------------------------------------------------
(* device_task() *)

device_wait ==
    /\ UserAt(device, "top")
    /\ WaitPort(device, device, "drain")
    /\ UNCHANGED devVars

device_get ==
    /\ UserAt(device, "drain")
    /\ GetMsg(device, device, "got")
    /\ UNCHANGED devVars

device_none ==
    /\ UserAt(device, "got")
    /\ umsg[device] = NULL
    /\ UserGoto(device, "top")
    /\ UNCHANGED <<vars, mp_MsgList, uret, uport, umsg, devVars>>

\* A mutated write: a short transfer is reported as success.
MutDeviceWrite ==
    /\ UserAt(device, "got")
    /\ umsg[device] = io
    /\ io_Command = "WRITE"
    /\ \/ file' = pat
       \/ MayFail("WRITE") /\ file' \in {file, Mixed}
    /\ io_Error' = 0
    /\ UserGoto(device, "reply")
    /\ UNCHANGED <<vars, mp_MsgList, uret, uport, umsg, io_Command, pat, rbuf,
                   g_last_pat, g_ok, g_errors>>

\* pwrite: io_Error is 0 exactly when all io_Length bytes were transferred.
device_write ==
    /\ UserAt(device, "got")
    /\ umsg[device] = io
    /\ io_Command = "WRITE"
    /\ \/ file' = pat /\ io_Error' = 0
       \/ MayFail("WRITE") /\ file' \in {file, Mixed} /\ io_Error' = -1
    /\ UserGoto(device, "reply")
    /\ UNCHANGED <<vars, mp_MsgList, uret, uport, umsg, io_Command, pat, rbuf,
                   g_last_pat, g_ok, g_errors>>

\* pread of an empty file returns 0 bytes, which is an error too.
device_read ==
    /\ UserAt(device, "got")
    /\ umsg[device] = io
    /\ io_Command = "READ"
    /\ \/ file # Empty /\ rbuf' = file /\ io_Error' = 0
       \/ file = Empty /\ rbuf' = rbuf /\ io_Error' = -1
       \/ MayFail("READ") /\ rbuf' \in {rbuf, Mixed} /\ io_Error' = -1
    /\ UserGoto(device, "reply")
    /\ UNCHANGED <<vars, mp_MsgList, uret, uport, umsg, io_Command, pat, file,
                   g_last_pat, g_ok, g_errors>>

device_reply ==
    /\ UserAt(device, "reply")
    /\ ReplyMsg(device, client, "drain")
    /\ UNCHANGED devVars

Device_ == device_wait \/ device_get \/ device_none \/ device_write
           \/ device_read \/ device_reply

-----------------------------------------------------------------------------
(* client_task(), and DoIO = PutMsg(dev_port), WaitPort(cli_port), GetMsg *)

client_write ==
    /\ UserAt(client, "round")
    /\ pat' = (pat + 1) % PatMod
    /\ io_Command' = "WRITE"
    /\ UserGoto(client, "DoIO")
    /\ UNCHANGED <<vars, mp_MsgList, uret, uport, umsg, io_Error, rbuf, file,
                   g_last_pat, g_ok, g_errors>>

DoIO_send ==
    /\ UserAt(client, "DoIO")
    /\ PutMsg(client, device, io, "sent")
    /\ UNCHANGED devVars

\* A mutated DoIO: it does not wait for the reply (SendIO without WaitIO).
MutDoIOWait ==
    /\ UserAt(client, "sent")
    /\ UserGoto(client, "peeked")
    /\ UNCHANGED <<vars, mp_MsgList, uret, uport, umsg, devVars>>

DoIO_wait ==
    /\ UserAt(client, "sent")
    /\ WaitPort(client, client, "peeked")
    /\ UNCHANGED devVars

DoIO_get ==
    /\ UserAt(client, "peeked")
    /\ GetMsg(client, client, "done")
    /\ UNCHANGED devVars

\* DoIO returned an error: g_errors++; continue.
client_failed ==
    /\ UserAt(client, "done")
    /\ io_Error # 0
    /\ g_errors' = g_errors + 1
    /\ rbuf' = 0
    /\ umsg' = [umsg EXCEPT ![client] = NULL]
    /\ UserGoto(client, "round")
    /\ UNCHANGED <<vars, mp_MsgList, uret, uport, io_Command, io_Error, pat,
                   file, g_last_pat, g_ok>>

\* The write went well: clear rbuf and read back.
client_read ==
    /\ UserAt(client, "done")
    /\ io_Error = 0
    /\ io_Command = "WRITE"
    /\ rbuf' = 0
    /\ io_Command' = "READ"
    /\ umsg' = [umsg EXCEPT ![client] = NULL]
    /\ UserGoto(client, "DoIO")
    /\ UNCHANGED <<vars, mp_MsgList, uret, uport, io_Error, pat, file,
                   g_last_pat, g_ok, g_errors>>

\* The read went well: memcmp, g_last_pat = pat, g_rounds++.
client_verify ==
    /\ UserAt(client, "done")
    /\ io_Error = 0
    /\ io_Command = "READ"
    /\ g_errors' = IF rbuf = pat THEN g_errors ELSE g_errors + 1
    /\ g_last_pat' = pat
    /\ g_ok' = TRUE
    /\ rbuf' = 0
    /\ umsg' = [umsg EXCEPT ![client] = NULL]
    /\ UserGoto(client, "round")
    /\ UNCHANGED <<vars, mp_MsgList, uret, uport, io_Command, io_Error, pat, file>>

Client_ == client_write \/ DoIO_send \/ DoIO_wait \/ DoIO_get
           \/ client_failed \/ client_read \/ client_verify

-----------------------------------------------------------------------------

DIONext ==
    \/ Client_
    \/ Device_
    \/ (\E t \in Port : PortStep(t)) /\ UNCHANGED devVars
    \/ (Boot \/ Tick) /\ UNCHANGED <<portVars, devVars>>

DIOSpec == DIOInit /\ [][DIONext]_dioVars

\* DoIO tells the truth: when it returned 0 for the write the pattern is in
\* the file, and when it returned 0 for the read the client's buffer equals
\* what it wrote, also when earlier transfers failed or were short.
DoIOTruthful ==
    ul[client] = "done" /\ io_Error = 0 =>
        /\ file = pat
        /\ io_Command = "READ" => rbuf = pat

\* The request belongs to one side at a time: the device does not touch it
\* (nor the buffers it points to) unless the client is waiting inside DoIO.
RequestOwnership ==
    umsg[device] = io /\ ul[device] \in {"got", "reply", "put_add"} =>
        ul[client] \in {"put_sig", "sent", "wp_test", "wp_wait"} /\ umsg[client] = NULL
=============================================================================
