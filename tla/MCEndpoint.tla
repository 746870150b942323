---------------------------- MODULE MCEndpoint ----------------------------
(* One end makes three calls, the third under the ID of the first, and the  *)
(* other end one; or fewer calls are made and the connection is closed; or  *)
(* the answer of one call is lost at the end with a limit (k6) or at the    *)
(* other one (k7).                                                          *)
EXTENDS Endpoint

CONSTANTS a, b, k1, k2, k3, k4, k5, k6, k7

MCFrom  == [k \in Call |-> IF k \in {k4, k5, k7} THEN b ELSE a]
MCPlans == {[calls |-> {k1, k2, k3, k4}, closers |-> {}],
            [calls |-> {k1, k4}, closers |-> {a, b}],
            [calls |-> {k1, k5}, closers |-> {b}],
            [calls |-> {k1, k4, k6}, closers |-> {}],
            [calls |-> {k4, k7}, closers |-> {a}]}
=============================================================================
