----------------------------- MODULE MCNetwork -----------------------------
(* Two callers of the network API.  They use TCP, or send UDP packets, or   *)
(* receive them, or open and close sockets of all kinds.                    *)
EXTENDS NetworkApi

MCMixes ==
    {{"tcp/connect", "tcp/connectSSL", "tcp/listen", "tcp/closeListener",
      "tcp/accept", "tcp/read", "tcp/write", "tcp/close"},
     {"udp/connect", "udp/beginPacket", "udp/write", "udp/endPacket"},
     {"udp/connect", "udp/awaitPacket", "udp/read", "udp/dropPacket", "udp/close"},
     {"tcp/connect", "tcp/close", "tcp/listen", "tcp/closeListener", "tcp/accept",
      "udp/connect", "udp/close"}}
=============================================================================
