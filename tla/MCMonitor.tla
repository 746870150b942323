------------------------------ MODULE MCMonitor ------------------------------
(***************************************************************************)
(* Monitor with two clients and two callers: one only reads, the other one  *)
(* reads, writes and resets.                                                *)
(***************************************************************************)
EXTENDS Monitor, TLC

CONSTANTS mon1, mon2, rpc1, rpc2

MonitorCalls == (rpc1 :> {"mon/read"}) @@ (rpc2 :> {"mon/read", "mon/write", "mon/reset"})
=============================================================================
