------------------------------ MODULE Endpoint ------------------------------
(***************************************************************************)
(* Two connection endpoints of msgpackrpc/connection.go talking to each     *)
(* other, as the command line client and the router do.  At each end one    *)
(* goroutine runs Run, which answers a request before it reads on, and      *)
(* others call SendRequest.  They share the stream (outMutex), the table    *)
(* activeOutRequests and the ID counter.  The stream holds a bounded number *)
(* of bytes: a write waits for room with the lock held.                     *)
(*                                                                          *)
(* A message is written in two parts.  Without a size limit the encoder     *)
(* writes to the stream as it goes, so parameters or a result it cannot     *)
(* encode leave a first part with no second one; the reader then takes the  *)
(* next message for the missing element.  With a limit the message is       *)
(* encoded in a buffer first, and one that is too big is an error too.      *)
(***************************************************************************)
EXTENDS Naturals, Sequences

CONSTANTS
    End,          \* the two ends
    Call,         \* the calls of SendRequest
    From,         \* From[k]: the end that makes call k
    Unencodable,  \* the calls whose parameters cannot be encoded or are too big
    Unanswerable, \* the calls whose answer cannot be encoded or is too big
    Cancellable,  \* the calls whose context may end
    Limited,      \* the ends with a limit on the size of messages
    Plans,        \* who calls and who closes the connection (bound)
    Cap,          \* how many parts the stream holds
    IdMod,        \* lastOutRequestsIndex counts modulo IdMod (2^32)
    None

Id == 0 .. IdMod - 1

ASSUME EndAssumption  == \A e \in End : \E f \in End : End = {e, f} /\ e # f
ASSUME CallAssumption == /\ From \in [Call -> End]
                         /\ Unencodable \subseteq Call /\ Cancellable \subseteq Call
                         /\ Unanswerable \subseteq Call
                         /\ None \notin Call \cup End \cup {"garbled"}
                         /\ Call \cap End = {}
ASSUME BoundAssumption == /\ Cap \in Nat \ {0} /\ IdMod \in Nat \ {0}
                          /\ Limited \subseteq End
                          /\ Plans \subseteq [calls : SUBSET Call, closers : SUBSET End]

VARIABLES
    wire,    \* wire[e]: the parts written by e and not yet read
    outMutex,              \* outMutex[e]: who writes at e: a call, e itself (Run), or None
    activeOutRequests,     \* activeOutRequests[e][id]: the call that waits, or None
    lastOutRequestsIndex,  \* per end
    closed,  \* closed[e]: e has closed the connection
    cpc,     \* where call k is
    id,      \* id[k]: its message ID
    result,  \* result[k]: the call whose answer k was given, "garbled", or None
    rpc,     \* where the goroutine Run of e is
    packet,  \* packet[e]: what it reads or answers
    torn,    \* history: torn[e]: e has left a message half written
    reused,  \* history: an ID was given out again while its entry was there
    plan     \* who calls and who closes

callVars   == <<cpc, id, result>>
runVars    == <<rpc, packet>>
streamVars == <<wire, outMutex>>
tableVars  == <<activeOutRequests, lastOutRequestsIndex>>
vars == <<streamVars, tableVars, closed, callVars, runVars, torn, reused, plan>>

Peer(e) == CHOOSE f \in End : f # e

NoPacket == [type |-> "req", id |-> 0, call |-> None]
Packet   == [type : {"req", "res"}, id : Id, call : Call \cup {"garbled"}]

TypeOK ==
    /\ wire \in [End -> Seq([first : BOOLEAN, packet : Packet])]
    /\ outMutex \in [End -> Call \cup End \cup {None}]
    /\ activeOutRequests \in [End -> [Id -> Call \cup {None}]]
    /\ lastOutRequestsIndex \in [End -> Id]
    /\ closed \in [End -> BOOLEAN]
    /\ cpc \in [Call -> {"new", "insert", "lock", "first", "second", "undo", "wait",
                         "done", "failed", "cancelled"}]
    /\ id \in [Call -> Id]
    /\ result \in [Call -> Call \cup {"garbled", None}]
    /\ rpc \in [End -> {"read", "more", "lock", "first", "second", "stopped"}]
    /\ packet \in [End -> Packet \cup {NoPacket}]
    /\ torn \in [End -> BOOLEAN]
    /\ reused \in BOOLEAN
    /\ plan \in Plans

Init ==
    /\ wire = [e \in End |-> <<>>]
    /\ outMutex = [e \in End |-> None]
    /\ activeOutRequests = [e \in End |-> [i \in Id |-> None]]
    /\ lastOutRequestsIndex = [e \in End |-> 0]
    /\ closed = [e \in End |-> FALSE]
    /\ cpc = [k \in Call |-> "new"]
    /\ id = [k \in Call |-> 0]
    /\ result = [k \in Call |-> None]
    /\ rpc = [e \in End |-> "read"]
    /\ packet = [e \in End |-> NoPacket]
    /\ torn = [e \in End |-> FALSE]
    /\ reused = FALSE
    /\ plan \in Plans

-----------------------------------------------------------------------------
GotoCall(k, step) == cpc' = [cpc EXCEPT ![k] = step]
GotoRun(e, step)  == rpc' = [rpc EXCEPT ![e] = step]

(***************************************************************************)
(* send: outMutex is held from the first part to the last.                  *)
(***************************************************************************)
(* Mutant: outMutex is not taken.                                            *)
LockNotTaken(e, who) == UNCHANGED outMutex

Lock(e, who) == outMutex[e] = None /\ outMutex' = [outMutex EXCEPT ![e] = who]

Unlock(e) == outMutex' = [outMutex EXCEPT ![e] = None]

Broken(e) == \E f \in End : closed[f]

Put(e, first, p) ==
    /\ ~Broken(e)
    /\ Len(wire[e]) < Cap
    /\ wire' = [wire EXCEPT ![e] = Append(@, [first |-> first, packet |-> p])]

-----------------------------------------------------------------------------
(***************************************************************************)
(* SendRequest and sendRequest: ID, entry, message, wait.                   *)
(***************************************************************************)
(* Mutant: the counter is read and not advanced.                             *)
NewIdNotAdvanced(k) ==
    /\ k \in plan.calls
    /\ cpc[k] = "new"
    /\ id' = [id EXCEPT ![k] = (lastOutRequestsIndex[From[k]] + 1) % IdMod]
    /\ GotoCall(k, "insert")
    /\ UNCHANGED <<streamVars, tableVars, closed, result, runVars, torn, reused>>

NewId(k) ==
    LET e == From[k]
        i == (lastOutRequestsIndex[e] + 1) % IdMod
    IN  /\ k \in plan.calls
        /\ cpc[k] = "new"
        /\ lastOutRequestsIndex' = [lastOutRequestsIndex EXCEPT ![e] = i]
        /\ id' = [id EXCEPT ![k] = i]
        /\ GotoCall(k, "insert")
        /\ reused' = (reused \/ \E j \in Call \ {k} : /\ From[j] = e /\ id[j] = i
                                                     /\ cpc[j] \notin {"new", "done", "failed"})
        /\ UNCHANGED <<streamVars, activeOutRequests, closed, result, runVars, torn>>

InsertEntry(k) ==
    /\ cpc[k] = "insert"
    /\ activeOutRequests' = [activeOutRequests EXCEPT ![From[k]][id[k]] = k]
    /\ GotoCall(k, "lock")
    /\ UNCHANGED <<streamVars, lastOutRequestsIndex, closed, id, result, runVars, torn, reused>>

LockRequest(k) ==
    /\ cpc[k] = "lock"
    /\ Lock(From[k], k)
    /\ GotoCall(k, "first")
    /\ UNCHANGED <<wire, tableVars, closed, id, result, runVars, torn, reused>>

Request(k) == [type |-> "req", id |-> id[k], call |-> k]

(* With a limit an error of the encoder comes before anything is written.    *)
WriteFirst(k) ==
    /\ cpc[k] = "first"
    /\ ~(k \in Unencodable /\ From[k] \in Limited)
    /\ Put(From[k], TRUE, Request(k))
    /\ GotoCall(k, "second")
    /\ UNCHANGED <<outMutex, tableVars, closed, id, result, runVars, torn, reused>>

WriteSecond(k) ==
    /\ cpc[k] = "second"
    /\ k \notin Unencodable
    /\ Put(From[k], FALSE, Request(k))
    /\ Unlock(From[k])
    /\ GotoCall(k, "wait")
    /\ UNCHANGED <<tableVars, closed, id, result, runVars, torn, reused>>

(* The connection is broken, or the encoder gives up.                        *)
SendFails(k) ==
    LET e == From[k]
    IN  /\ \/ cpc[k] \in {"first", "second"} /\ Broken(e)
           \/ k \in Unencodable /\ cpc[k] = (IF e \in Limited THEN "first" ELSE "second")
        /\ Unlock(e)
        /\ torn' = [torn EXCEPT ![e] = @ \/ cpc[k] = "second"]
        /\ GotoCall(k, "undo")
        /\ UNCHANGED <<wire, tableVars, closed, id, result, runVars, reused>>

(* Mutant: the entry of a call that could not be sent stays.                 *)
DeleteEntryNot(k) ==
    /\ cpc[k] = "undo"
    /\ GotoCall(k, "failed")
    /\ UNCHANGED <<streamVars, tableVars, closed, id, result, runVars, torn, reused>>

DeleteEntry(k) ==
    /\ cpc[k] = "undo"
    /\ activeOutRequests' = [activeOutRequests EXCEPT ![From[k]][id[k]] = None]
    /\ GotoCall(k, "failed")
    /\ UNCHANGED <<streamVars, lastOutRequestsIndex, closed, id, result, runVars, torn,
                   reused>>

(* The select: the answer is there, or the context is done.                  *)
Returns(k) ==
    /\ cpc[k] = "wait"
    /\ result[k] # None
    /\ GotoCall(k, "done")
    /\ UNCHANGED <<streamVars, tableVars, closed, id, result, runVars, torn, reused>>

(* Nothing is done about the entry.                                          *)
Cancel(k) ==
    /\ k \in Cancellable
    /\ cpc[k] = "wait"
    /\ GotoCall(k, "cancelled")
    /\ UNCHANGED <<streamVars, tableVars, closed, id, result, runVars, torn, reused>>

-----------------------------------------------------------------------------
(***************************************************************************)
(* Run: read a message, then handle it to the end.                          *)
(***************************************************************************)
Arrived(e) == wire[Peer(e)]

Take(e) == wire' = [wire EXCEPT ![Peer(e)] = Tail(@)]

ReadFirst(e) ==
    /\ rpc[e] = "read"
    /\ ~closed[e]
    /\ Arrived(e) # <<>>
    /\ Take(e)
    /\ packet' = [packet EXCEPT ![e] = Head(Arrived(e)).packet]
    /\ GotoRun(e, "more")
    /\ UNCHANGED <<outMutex, tableVars, closed, callVars, torn, reused>>

(* Another first part instead of the second: it becomes the missing element. *)
ReadInstead(e) ==
    /\ rpc[e] = "more"
    /\ ~closed[e]
    /\ Arrived(e) # <<>>
    /\ Head(Arrived(e)).first
    /\ Take(e)
    /\ packet' = [packet EXCEPT ![e].call = "garbled"]
    /\ UNCHANGED <<outMutex, tableVars, closed, callVars, rpc, torn, reused>>

(* handleIncomingRequest calls the handler, which answers.                   *)
ReadRequest(e) ==
    /\ rpc[e] = "more"
    /\ ~closed[e]
    /\ Arrived(e) # <<>>
    /\ ~Head(Arrived(e)).first
    /\ packet[e].type = "req"
    /\ Take(e)
    /\ packet' = [packet EXCEPT ![e].type = "res"]
    /\ GotoRun(e, "lock")
    /\ UNCHANGED <<outMutex, tableVars, closed, callVars, torn, reused>>

(* handleIncomingResponse *)
ReadResponse(e) ==
    LET i == packet[e].id
        k == activeOutRequests[e][i]
    IN  /\ rpc[e] = "more"
        /\ ~closed[e]
        /\ Arrived(e) # <<>>
        /\ ~Head(Arrived(e)).first
        /\ packet[e].type = "res"
        /\ Take(e)
        /\ IF k = None
             THEN UNCHANGED <<activeOutRequests, result>>
             ELSE /\ activeOutRequests' = [activeOutRequests EXCEPT ![e][i] = None]
                  /\ result' = [result EXCEPT ![k] = packet[e].call]
        /\ packet' = [packet EXCEPT ![e] = NoPacket]
        /\ GotoRun(e, "read")
        /\ UNCHANGED <<outMutex, lastOutRequestsIndex, closed, cpc, id, torn, reused>>

LockAnswer(e) ==
    /\ rpc[e] = "lock"
    /\ Lock(e, e)
    /\ GotoRun(e, "first")
    /\ UNCHANGED <<wire, tableVars, closed, callVars, packet, torn, reused>>

(* The answer that Run has at hand cannot be encoded.                        *)
Dropped(e) == packet[e].call \in Unanswerable

AnswerFirst(e) ==
    /\ rpc[e] = "first"
    /\ ~(Dropped(e) /\ e \in Limited)
    /\ Put(e, TRUE, packet[e])
    /\ GotoRun(e, "second")
    /\ UNCHANGED <<outMutex, tableVars, closed, callVars, packet, torn, reused>>

(* Mutant: outMutex is not given back.                                       *)
AnswerSecondKeepsLock(e) ==
    /\ rpc[e] = "second"
    /\ Put(e, FALSE, packet[e])
    /\ packet' = [packet EXCEPT ![e] = NoPacket]
    /\ GotoRun(e, "read")
    /\ UNCHANGED <<outMutex, tableVars, closed, callVars, torn, reused>>

AnswerSecond(e) ==
    /\ rpc[e] = "second"
    /\ ~Dropped(e)
    /\ Put(e, FALSE, packet[e])
    /\ Unlock(e)
    /\ packet' = [packet EXCEPT ![e] = NoPacket]
    /\ GotoRun(e, "read")
    /\ UNCHANGED <<tableVars, closed, callVars, torn, reused>>

(* The connection is broken, or the encoder gives up.  The handler is told,  *)
(* and the caller is not.                                                    *)
AnswerFails(e) ==
    /\ \/ rpc[e] \in {"first", "second"} /\ Broken(e)
       \/ Dropped(e) /\ rpc[e] = (IF e \in Limited THEN "first" ELSE "second")
    /\ Unlock(e)
    /\ torn' = [torn EXCEPT ![e] = @ \/ rpc[e] = "second"]
    /\ packet' = [packet EXCEPT ![e] = NoPacket]
    /\ GotoRun(e, "read")
    /\ UNCHANGED <<wire, tableVars, closed, callVars, reused>>

(* The end of the stream.  Calls that wait are not told.                     *)
Stop(e) ==
    /\ rpc[e] \in {"read", "more"}
    /\ closed[e] \/ (closed[Peer(e)] /\ Arrived(e) = <<>>)
    /\ GotoRun(e, "stopped")
    /\ UNCHANGED <<streamVars, tableVars, closed, callVars, packet, torn, reused>>

Close(e) ==
    /\ e \in plan.closers
    /\ ~closed[e]
    /\ closed' = [closed EXCEPT ![e] = TRUE]
    /\ UNCHANGED <<streamVars, tableVars, callVars, runVars, torn, reused>>

-----------------------------------------------------------------------------
sendRequest(k) == InsertEntry(k) \/ LockRequest(k) \/ WriteFirst(k) \/ WriteSecond(k)
                  \/ SendFails(k) \/ DeleteEntry(k) \/ Returns(k)

Run(e) == ReadFirst(e) \/ ReadInstead(e) \/ ReadRequest(e) \/ ReadResponse(e)
          \/ LockAnswer(e) \/ AnswerFirst(e) \/ AnswerSecond(e) \/ AnswerFails(e) \/ Stop(e)

Next == /\ \/ \E k \in Call : NewId(k) \/ sendRequest(k) \/ Cancel(k)
           \/ \E e \in End : Run(e) \/ Close(e)
        /\ UNCHANGED plan

Spec == Init /\ [][Next]_vars

(* Every goroutine runs; nobody need call, cancel or close.                  *)
FairSpec == /\ Spec
            /\ \A k \in Call : WF_vars(sendRequest(k) /\ UNCHANGED plan)
            /\ \A e \in End : WF_vars(Run(e) /\ UNCHANGED plan)

-----------------------------------------------------------------------------
Torn == \E e \in End : torn[e]

(* A call returns the answer to itself, whatever the order of the calls of   *)
(* both ends and of the answers, also when earlier calls were cancelled and  *)
(* their answers come late, unless an ID was given out again before the      *)
(* entry under it was gone (connection.go:367), or a message was left half   *)
(* written.                                                                  *)
ResultMatches == ~reused /\ ~Torn => \A k \in Call : result[k] \in {k, None}

(* The parts of messages are never mixed: what waits in the stream is the    *)
(* rest of the message being read and then whole messages, but for a message *)
(* that is being written and for those an encoder has given up.              *)
Framed ==
    \A e \in End : ~torn[e] =>
        \A i \in 1 .. Len(wire[e]) - 1 :
            wire[e][i].first => wire[e][i + 1] = [wire[e][i] EXCEPT !.first = FALSE]

(* The entries are those of the calls that need them: a call that waits has  *)
(* its entry or its answer, so no answer finds nobody (the entry comes       *)
(* before the message, connection.go:369-378), and an entry belongs to a     *)
(* call that is being sent or waits, or was cancelled and not yet answered,  *)
(* so entries do not pile up otherwise.                                      *)
EntriesMatchWaiters ==
    /\ ~reused => \A k \in Call :
           cpc[k] = "wait" /\ result[k] = None => activeOutRequests[From[k]][id[k]] = k
    /\ \A e \in End, i \in Id :
           LET k == activeOutRequests[e][i]
           IN  k # None => cpc[k] \notin {"new", "insert", "done", "failed"} /\ result[k] = None

(* Both goroutines that could make room wait for room, or for a lock that is *)
(* held by a writer that waits for room.                                     *)
Wedged == \A e \in End : Len(wire[e]) = Cap /\ rpc[e] \in {"lock", "first", "second"}

(* Every call returns, but for what can go wrong: the answer is lost in      *)
(* send, the connection ended, the two ends wait for each other, an ID was   *)
(* reused or a message torn.  The loss of one answer holds up no other call. *)
CallsReturn ==
    \A k \in Call \ Unanswerable :
        cpc[k] = "insert" ~> \/ cpc[k] \in {"done", "failed", "cancelled"}
                             \/ (\E e \in End : closed[e])
                             \/ Wedged \/ reused \/ Torn
=============================================================================
