--------------------------- MODULE RouterService ---------------------------
(***************************************************************************)
(* Router implements RpcService.  What the clients have sent and received   *)
(* is all that the service speaks of: s stands for the packets the clients  *)
(* have sent, o for the messages delivered to them.                         *)
(***************************************************************************)
EXTENDS Router

Positions(c, seqs, type) == {i \in DOMAIN seqs[c] : seqs[c][i].type = type}

(* The requests made, and those that a server has answered.                  *)
AskedIn(s)   == UNION {{<<c, n>> : n \in Positions(c, s, "req")} : c \in Conn}
RepliedIn(s) == UNION {{s[d][n].call : n \in Positions(d, s, "res")} : d \in Conn}

(* The deliveries of requests, and those of answers.                         *)
ServedIn(o)  == UNION {{[to |-> d, at |-> i, call |-> o[d][i].call] :
                            i \in Positions(d, o, "req")} : d \in Conn}
AnswersIn(o) == UNION {{[to |-> c, at |-> i, id |-> o[c][i].id, call |-> o[c][i].call,
                         peer |-> o[c][i].code = "peer"] :
                            i \in Positions(c, o, "res")} : c \in Conn}

Service == INSTANCE RpcService WITH
    asked   <- AskedIn(sent),
    served  <- ServedIn(out),
    replied <- RepliedIn(sent),
    answers <- AnswersIn(out)

(* The router gives its clients the service: the locks, the two tables, the  *)
(* remapped IDs and the failure paths of the forwarding code together never  *)
(* serve a request twice or out of order, never answer one twice or with     *)
(* the answer to another, and never report as failed a request that a        *)
(* server has got (router.go:100-252, connection.go:292-460).                *)
ImplementsService == Service!Spec
=============================================================================
