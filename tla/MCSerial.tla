------------------------------ MODULE MCSerial ------------------------------
(***************************************************************************)
(* SerialSystem with two clients.                                           *)
(***************************************************************************)
EXTENDS SerialSystem

CONSTANTS client1, client2
=============================================================================
