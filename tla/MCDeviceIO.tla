----------------------------- MODULE MCDeviceIO -----------------------------
(* The three workers of hosted/device.c. *)
EXTENDS DeviceIO
CONSTANTS devBit, cliBit

PriFlat == [t \in Task |-> 0]
Bits    == [p \in Port |-> IF p = device THEN devBit ELSE cliBit]
=============================================================================
