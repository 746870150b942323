----------------------------- MODULE RpcService -----------------------------
(***************************************************************************)
(* What a client of the router may expect of its requests, without saying   *)
(* how the router does it: a request is served by at most one server, at    *)
(* most once, and the requests of one client in the order it made them; it  *)
(* is answered at most once, with an answer to this very request; a request *)
(* that reached a server is answered only after the server has answered,    *)
(* and a request that was answered is not served any more.  Nothing is      *)
(* promised about the order of the answers, nor that there is one.          *)
(*                                                                          *)
(* A request is a pair <<client, number>>.  Each delivery is recorded with  *)
(* the place `at' it has among all that its receiver gets, so that a second *)
(* delivery of the same thing is a second element.                          *)
(***************************************************************************)
EXTENDS Naturals

VARIABLES
    asked,    \* the requests made
    served,   \* the deliveries to servers: records with to, at, call
    replied,  \* the requests that a server has answered
    answers   \* the deliveries to callers: records with to, at, id, call, peer

vars == <<asked, served, replied, answers>>

Init == asked = {} /\ served = {} /\ replied = {} /\ answers = {}

Adds(set, new, x) == x \in new \ set /\ new = set \cup {x}

Served   == {s.call : s \in served}
Answered == {<<a.to, a.id>> : a \in answers}

Ask ==
    /\ \E call \in asked' : Adds(asked, asked', call)
    /\ UNCHANGED <<served, replied, answers>>

Serve ==
    /\ \E s \in served' :
           /\ Adds(served, served', s)
           /\ s.call \in asked \ Answered
           /\ \A call \in Served : call[1] = s.call[1] => call[2] < s.call[2]
    /\ UNCHANGED <<asked, replied, answers>>

(* A server may answer again: only its first answer counts.                  *)
Respond ==
    /\ \E call \in Served : Adds(replied, replied', call)
    /\ UNCHANGED <<asked, served, answers>>

(* With the server's answer, or with one of the router's own.                *)
Answer ==
    /\ \E a \in answers' :
           /\ Adds(answers, answers', a)
           /\ a.call = <<a.to, a.id>>
           /\ a.call \in asked \ Answered
           /\ a.peer \/ a.call \in Served => a.call \in replied
    /\ UNCHANGED <<asked, served, replied>>

Next == Ask \/ Serve \/ Respond \/ Answer

Spec == Init /\ [][Next]_vars
=============================================================================
