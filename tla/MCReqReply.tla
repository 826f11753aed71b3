----------------------------- MODULE MCReqReply -----------------------------
(* The three workers of hosted/msgport.c: one client, the server, the idler. *)
EXTENDS ReqReply
CONSTANTS c1, reqBit, replyBit

PriFlat == [t \in Task |-> 0]
Bits    == [p \in Port |-> IF p = server THEN reqBit ELSE replyBit]
=============================================================================
