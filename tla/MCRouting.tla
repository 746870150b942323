------------------------------ MODULE MCRouting ------------------------------
(***************************************************************************)
(* Values of Router's CONSTANTS for TLC.                                    *)
(***************************************************************************)
EXTENDS RouterService, TLC

CONSTANTS peerP, peerA, peerB   \* three clients; peerP usually serves

Req(m, big)  == [type |-> "req", method |-> m, arg |-> m, ok |-> TRUE,
                 big |-> big]
Note(m, big) == [Req(m, big) EXCEPT !.type = "not"]
Ctl(m, arg)  == [Req(m, FALSE) EXCEPT !.arg = arg]
Bad(call)    == [call EXCEPT !.ok = FALSE]
Register(m)  == Ctl("$/register", m)

(* Two callers using the same message IDs, one of them pipelining, and a    *)
(* server that answers twice, out of order or not at all, or leaves.        *)
RoutingOffer == (peerP :> {Register("ping")})
             @@ (peerA :> {Req("ping", FALSE)}) @@ (peerB :> {Req("ping", FALSE)})
RoutingQuota == (peerP :> 1) @@ (peerA :> 2) @@ (peerB :> 1)

(* Two clients contend for a name, one of them releases it and may leave; a  *)
(* third one calls it, or calls the router itself.                           *)
RegistryOffer == (peerP :> {Register("ping"), Ctl("$/unregister", "ping"),
                        Ctl("$/reset", "ping")})
              @@ (peerA :> {Register("ping")})
              @@ (peerB :> {Req("ping", FALSE), Req("version", FALSE)})
RegistryQuota == (peerP :> 2) @@ (peerA :> 2) @@ (peerB :> 1)

(* A server and a caller that may each limit their connection: oversize      *)
(* calls, notifications, results and internal results, control methods with  *)
(* parameters that pass their checks and that do not, malformed packets and  *)
(* undecodable bytes.                                                        *)
MixedOffer == (peerP :> {Register("ping"), Bad(Register("ping")),
                     Bad(Ctl("$/unregister", "ping")), Bad(Ctl("$/reset", "ping")),
                     Ctl("$/setMaxMsgSize", "ping"), Bad(Ctl("$/setMaxMsgSize", "ping")),
                     Note("$/setMaxMsgSize", FALSE), Bad(Note("$/setMaxMsgSize", FALSE))})
           @@ (peerA :> {Req("ping", TRUE), Note("ping", TRUE), Req("version", FALSE),
                     Note("version", FALSE), Ctl("$/setMaxMsgSize", "ping"),
                     Note("$/register", FALSE),
                     [type |-> "invalid"], [type |-> "garbage"]})
MixedQuota == (peerP :> 2) @@ (peerA :> 2)
=============================================================================
