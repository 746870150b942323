------------------------------- MODULE Router -------------------------------
(***************************************************************************)
(* The MessagePack-RPC router: internal/msgpackrouter/router.go together    *)
(* with the connection endpoints of msgpackrpc/connection.go it is built    *)
(* on.  One goroutine per connection (connectionLoop) reads the packets of  *)
(* its client one at a time and handles each to the end before it reads the *)
(* next one.  The goroutines meet in three places, each behind a lock of    *)
(* its own: the routes table (routesLock), the activeOutRequests table of a *)
(* connection (activeOutRequestsMutex), and the writing side of a           *)
(* connection (outMutex).  One action is one such critical section.         *)
(*                                                                          *)
(* A client's packets are kept in a sequence that only grows, with a read   *)
(* index; the message ID a client gives its n-th packet is n.  The pair     *)
(* <<c, n>> identifies a call: it stands for the payload (parameters,       *)
(* result), so that a delivered message says which call it belongs to.      *)
(* Sizes are abstracted to one bit, `big': too long for a limited           *)
(* connection.                                                              *)
(***************************************************************************)
EXTENDS Naturals, Sequences, FiniteSets

CONSTANTS
    Conn,        \* the connections
    Method,      \* the method names clients use
    Internal,    \* the names bound by Router.RegisterMethod (routesInternal)
    Offer,       \* Offer[c]: the packets client c may send on its own
    Quota,       \* Quota[c]: how many such packets client c sends (bound)
    Leaver,      \* the clients that may disconnect (bound)
    MaxAnswers,  \* how often a client answers one request (bound)
    Sizes,       \* the sizes results come in: {FALSE}, {TRUE} or BOOLEAN
    IdMod,       \* lastOutRequestsIndex counts modulo IdMod (2^32 in the code)
    NoConn       \* nil

Control == {"$/register", "$/unregister", "$/reset", "$/setMaxMsgSize"}
Name    == Method \cup Control
Ids     == 0 .. IdMod - 1
CallId  == Conn \X Nat

(***************************************************************************)
(* What a client may send: requests and notifications (`ok': the            *)
(* parameters of a $/ method pass its checks), responses, packets that      *)
(* decodeRpcPacket skips ("invalid") and bytes it cannot get past           *)
(* ("garbage").                                                             *)
(***************************************************************************)
Call     == [type : {"req", "not"}, method : Name, arg : Name,
             ok : BOOLEAN, big : BOOLEAN]
Response == [type : {"res"}, id : Ids, call : CallId, big : BOOLEAN]
Junk     == [type : {"invalid", "garbage"}]
Packet   == Call \cup Response \cup Junk

(***************************************************************************)
(* What a client may receive.  `code' is the error code of errors.go, or    *)
(* "true" (a $/ method succeeded), "handler" (whatever an internal handler  *)
(* answered) or "peer" (whatever the serving client answered).              *)
(***************************************************************************)
Code    == {"true", "handler", "peer", "InvalidParams", "MethodNotAvailable",
            "FailedToSendRequests", "GenericError", "RouteAlreadyExists",
            "BufferLimitExceeded"}
Message == [type : {"req"}, id : Ids, method : Name, call : CallId, big : BOOLEAN]
           \cup [type : {"not"}, method : Name, call : CallId, big : BOOLEAN]
           \cup [type : {"res"}, id : Nat, code : Code, call : CallId, big : BOOLEAN]

ASSUME ConnAssumption  == NoConn \notin Conn
ASSUME NamesAssumption == Internal \subseteq Method
ASSUME IdModAssumption == IdMod \in Nat \ {0}
ASSUME OfferAssumption == Offer \in [Conn -> SUBSET (Call \cup Junk)]
ASSUME BoundAssumption == /\ Quota \in [Conn -> Nat]
                          /\ MaxAnswers \in Nat
                          /\ Leaver \subseteq Conn
                          /\ Sizes \subseteq BOOLEAN

VARIABLES
    sent,    \* sent[c]: the packets client c has sent
    rd,      \* rd[c]: how many of them the router has handled
    out,     \* out[c]: the messages delivered to client c
    up,      \* up[c]: client c is still connected
    routes,  \* routes[m]: the connection serving m (Router.routes)
    active,  \* active[c][id]: c's activeOutRequests, where the answer goes
    lastOutRequestsIndex,  \* per connection, before the wrap to IdMod
    limit,   \* limit[c]: msgpBuffer is set on c
    pc,      \* where the goroutine of c is
    fwd,     \* fwd[c]: target and new ID of the call being forwarded
    ans      \* ans[c]: the response being sent back

clientVars == <<sent, up>>
loopVars   == <<rd, pc, fwd, ans>>
tableVars  == <<active, lastOutRequestsIndex>>
vars       == <<sent, rd, out, up, routes, active, lastOutRequestsIndex,
                limit, pc, fwd, ans>>

(* An entry of activeOutRequests holds the closure fwdRes of a request: it   *)
(* answers connection `to' under that client's own message ID.               *)
NoReq   == [to |-> NoConn, id |-> 0]
NoAns   == [to |-> NoConn, id |-> 0, code |-> "true", call |-> <<NoConn, 0>>,
            big |-> FALSE]

Entry   == [to : Conn, id : Nat] \cup {NoReq}
Target  == [to : Conn \cup {NoConn}, id : Ids]
Answer  == [to : Conn, id : Nat, code : Code, call : CallId, big : BOOLEAN]
           \cup {NoAns}

Steps == {"new", "idle", "internal", "alloc", "insert", "write", "undo",
          "reply", "notify", "drop", "close", "closed"}

TypeOK ==
    /\ sent \in [Conn -> Seq(Packet)]
    /\ rd \in [Conn -> Nat]
    /\ out \in [Conn -> Seq(Message)]
    /\ up \in [Conn -> BOOLEAN]
    /\ routes \in [Name -> Conn \cup {NoConn}]
    /\ active \in [Conn -> [Ids -> Entry]]
    /\ lastOutRequestsIndex \in [Conn -> Nat]
    /\ limit \in [Conn -> BOOLEAN]
    /\ pc \in [Conn -> Steps]
    /\ fwd \in [Conn -> Target]
    /\ ans \in [Conn -> Answer]

(* What NewConnection gives every connection: no request is outstanding, no  *)
(* ID was handed out and messages are not limited in size.                   *)
NewConnection ==
    /\ active = [c \in Conn |-> [i \in Ids |-> NoReq]]
    /\ lastOutRequestsIndex = [c \in Conn |-> 0]
    /\ limit = [c \in Conn |-> FALSE]

Init ==
    /\ sent = [c \in Conn |-> <<>>]
    /\ rd = [c \in Conn |-> 0]
    /\ out = [c \in Conn |-> <<>>]
    /\ up = [c \in Conn |-> FALSE]
    /\ routes = [m \in Name |-> NoConn]
    /\ NewConnection
    /\ pc = [c \in Conn |-> "new"]
    /\ fwd = [c \in Conn |-> NoReq]
    /\ ans = [c \in Conn |-> NoAns]

-----------------------------------------------------------------------------
(***************************************************************************)
(* The clients.  They are free programs: they send what Offer allows,       *)
(* answer the requests they receive in any order, late, twice or never, and *)
(* may disconnect at any moment.                                            *)
(***************************************************************************)
Accept(c) ==
    /\ pc[c] = "new"
    /\ pc' = [pc EXCEPT ![c] = "idle"]
    /\ up' = [up EXCEPT ![c] = TRUE]
    /\ UNCHANGED <<sent, rd, out, routes, tableVars, limit, fwd, ans>>

Send(c, p) ==
    /\ up[c]
    /\ sent' = [sent EXCEPT ![c] = Append(@, p)]
    /\ UNCHANGED <<up, out, routes, tableVars, limit, loopVars>>

Own(c) == {n \in DOMAIN sent[c] : sent[c][n].type # "res"}

ClientSend(c) ==
    /\ Cardinality(Own(c)) < Quota[c]
    /\ \E p \in Offer[c] : Send(c, p)

Answers(c, i) == {n \in DOMAIN sent[c] : /\ sent[c][n].type = "res"
                                         /\ sent[c][n].id = out[c][i].id
                                         /\ sent[c][n].call = out[c][i].call}

ClientRespond(c) ==
    \E i \in DOMAIN out[c], b \in Sizes :
        /\ out[c][i].type = "req"
        /\ Cardinality(Answers(c, i)) < MaxAnswers
        /\ Send(c, [type |-> "res", id |-> out[c][i].id,
                    call |-> out[c][i].call, big |-> b])

Disconnect(c) ==
    /\ c \in Leaver
    /\ up[c]
    /\ up' = [up EXCEPT ![c] = FALSE]
    /\ UNCHANGED <<sent, out, routes, tableVars, limit, loopVars>>

-----------------------------------------------------------------------------
(***************************************************************************)
(* Connection.Run: the goroutine of c takes the next packet.                *)
(***************************************************************************)
Here(c)    == rd[c] + 1
Cur(c)     == sent[c][Here(c)]
Receive(c) == pc[c] = "idle" /\ rd[c] < Len(sent[c])

Incoming(c, type) == Receive(c) /\ Cur(c).type = type

Goto(c, step) == pc' = [pc EXCEPT ![c] = step]

Finish(c) ==
    /\ rd' = [rd EXCEPT ![c] = @ + 1]
    /\ Goto(c, "idle")

(* The handler of c's current request calls fwdRes with an answer of its own. *)
Reply(c, code, big) ==
    /\ ans' = [ans EXCEPT ![c] = [to |-> c, id |-> Here(c), code |-> code,
                                  call |-> <<c, Here(c)>>, big |-> big]]
    /\ Goto(c, "reply")

(***************************************************************************)
(* The outcome of Connection.send to connection d.  An oversize message is  *)
(* refused before anything is written.  A message written to a live client  *)
(* arrives.  When the client is gone the write may still succeed (the       *)
(* message is lost) or fail; on a connection the router has closed it       *)
(* fails.                                                                   *)
(***************************************************************************)
TooBig(d, msg)    == limit[d] /\ msg.big
Reachable(d)      == up[d] /\ pc[d] # "closed"
Deliver(d, msg)   == out' = [out EXCEPT ![d] = Append(@, msg)]
(* Mutant: the buffer limit is not consulted.                                *)
WrittenUnchecked(d, msg) == \/ Reachable(d) /\ Deliver(d, msg)
                            \/ ~up[d] /\ pc[d] # "closed" /\ UNCHANGED out

Written(d, msg)   == /\ ~TooBig(d, msg)
                     /\ \/ Reachable(d) /\ Deliver(d, msg)
                        \/ ~up[d] /\ pc[d] # "closed" /\ UNCHANGED out
WriteFails(d, msg) == /\ ~TooBig(d, msg)
                      /\ ~Reachable(d)
                      /\ UNCHANGED out

-----------------------------------------------------------------------------
(***************************************************************************)
(* The $/ methods, handled under routesLock (or outMutex) and then answered *)
(* by the separate step SendReply.                                          *)
(***************************************************************************)
(* Mutant: registering does not look at the owner of the name.               *)
registerMethodOverwrites(m, c) == routes' = [routes EXCEPT ![m] = c]

registerMethod(m, c) ==
    IF routes[m] = NoConn THEN routes' = [routes EXCEPT ![m] = c]
                          ELSE UNCHANGED routes

HandleRegister(c) ==
    /\ Incoming(c, "req")
    /\ Cur(c).method = "$/register"
    /\ IF ~Cur(c).ok
         THEN Reply(c, "InvalidParams", FALSE) /\ UNCHANGED routes
         ELSE /\ registerMethod(Cur(c).arg, c)
              /\ Reply(c, IF routes[Cur(c).arg] \in {NoConn, c}
                            THEN "true" ELSE "RouteAlreadyExists", FALSE)
    /\ UNCHANGED <<clientVars, rd, out, tableVars, limit, fwd>>

(* Mutant: unregistering does not look at the owner of the name.             *)
removeAnyonesMethod(m, c) == routes' = [routes EXCEPT ![m] = NoConn]

removeSingleMethodFromConnection(m, c) ==
    IF routes[m] = c THEN routes' = [routes EXCEPT ![m] = NoConn]
                     ELSE UNCHANGED routes

(* Mutant: $/unregister calls registerMethod.                                *)
HandleUnregisterPasted(c) ==
    /\ Incoming(c, "req")
    /\ Cur(c).method = "$/unregister"
    /\ registerMethod(Cur(c).arg, c)
    /\ Reply(c, "true", FALSE)
    /\ UNCHANGED <<clientVars, rd, out, tableVars, limit, fwd>>

HandleUnregister(c) ==
    /\ Incoming(c, "req")
    /\ Cur(c).method = "$/unregister"
    /\ IF ~Cur(c).ok
         THEN Reply(c, "InvalidParams", FALSE) /\ UNCHANGED routes
         ELSE /\ removeSingleMethodFromConnection(Cur(c).arg, c)
              /\ Reply(c, IF routes[Cur(c).arg] = c THEN "true" ELSE "GenericError",
                       FALSE)
    /\ UNCHANGED <<clientVars, rd, out, tableVars, limit, fwd>>

removeMethodsFromConnection(c) ==
    routes' = [m \in Name |-> IF routes[m] = c THEN NoConn ELSE routes[m]]

HandleReset(c) ==
    /\ Incoming(c, "req")
    /\ Cur(c).method = "$/reset"
    /\ IF ~Cur(c).ok
         THEN Reply(c, "InvalidParams", FALSE) /\ UNCHANGED routes
         ELSE removeMethodsFromConnection(c) /\ Reply(c, "true", FALSE)
    /\ UNCHANGED <<clientVars, rd, out, tableVars, limit, fwd>>

SetMaxOutgoingMessageSize(c) == limit' = [limit EXCEPT ![c] = TRUE]

HandleSetMaxMsgSize(c) ==
    /\ Incoming(c, "req")
    /\ Cur(c).method = "$/setMaxMsgSize"
    /\ IF ~Cur(c).ok
         THEN Reply(c, "InvalidParams", FALSE) /\ UNCHANGED limit
         ELSE SetMaxOutgoingMessageSize(c) /\ Reply(c, "true", FALSE)
    /\ UNCHANGED <<clientVars, rd, out, routes, tableVars, fwd>>

NotifySetMaxMsgSize(c) ==
    /\ Incoming(c, "not")
    /\ Cur(c).method = "$/setMaxMsgSize"
    /\ IF Cur(c).ok THEN SetMaxOutgoingMessageSize(c) ELSE UNCHANGED limit
    /\ Finish(c)
    /\ UNCHANGED <<clientVars, out, routes, tableVars, fwd, ans>>

-----------------------------------------------------------------------------
(***************************************************************************)
(* Calls.  A name handled by an internal handler is served on c's own       *)
(* goroutine for as long as the handler takes; only when there is none are  *)
(* the routes consulted.  A notification takes no notice of the $/ methods  *)
(* other than $/setMaxMsgSize.                                              *)
(***************************************************************************)
IsCall(c) == \/ Incoming(c, "req") /\ Cur(c).method \notin Control
             \/ Incoming(c, "not") /\ Cur(c).method # "$/setMaxMsgSize"

CallInternal(c) ==
    /\ IsCall(c)
    /\ Cur(c).method \in Internal
    /\ Goto(c, "internal")
    /\ UNCHANGED <<clientVars, rd, out, routes, tableVars, limit, fwd, ans>>

InternalReturns(c) ==
    /\ pc[c] = "internal"
    /\ IF Cur(c).type = "req"
         THEN (\E b \in Sizes : Reply(c, "handler", b)) /\ UNCHANGED rd
         ELSE Finish(c) /\ UNCHANGED ans
    /\ UNCHANGED <<clientVars, out, routes, tableVars, limit, fwd>>

getConnectionForMethod(m) == routes[m]

(* Mutant: a request nobody serves is dropped like a notification.           *)
LookupRouteSilent(c) ==
    /\ IsCall(c)
    /\ Cur(c).method \notin Internal
    /\ IF getConnectionForMethod(Cur(c).method) # NoConn
         THEN /\ fwd' = [fwd EXCEPT ![c].to = getConnectionForMethod(Cur(c).method)]
              /\ Goto(c, IF Cur(c).type = "req" THEN "alloc" ELSE "notify")
              /\ UNCHANGED rd
         ELSE Finish(c) /\ UNCHANGED fwd
    /\ UNCHANGED <<clientVars, out, routes, tableVars, limit, ans>>

LookupRoute(c) ==
    /\ IsCall(c)
    /\ Cur(c).method \notin Internal
    /\ IF getConnectionForMethod(Cur(c).method) # NoConn
         THEN /\ fwd' = [fwd EXCEPT ![c].to = getConnectionForMethod(Cur(c).method)]
              /\ Goto(c, IF Cur(c).type = "req" THEN "alloc" ELSE "notify")
              /\ UNCHANGED <<rd, ans>>
         ELSE /\ IF Cur(c).type = "req"
                  THEN Reply(c, "MethodNotAvailable", FALSE) /\ UNCHANGED rd
                  ELSE Finish(c) /\ UNCHANGED ans
              /\ UNCHANGED fwd
    /\ UNCHANGED <<clientVars, out, routes, tableVars, limit>>

(* Mutant: the packet is left in place after it was written.                 *)
WriteNotificationAgain(c) ==
    LET d   == fwd[c].to
        msg == [type |-> "not", method |-> Cur(c).method,
                call |-> <<c, Here(c)>>, big |-> Cur(c).big]
    IN  /\ pc[c] = "notify"
        /\ Written(d, msg)
        /\ Goto(c, "idle")
        /\ UNCHANGED <<clientVars, rd, routes, tableVars, limit, fwd, ans>>

WriteNotification(c) ==
    LET d   == fwd[c].to
        msg == [type |-> "not", method |-> Cur(c).method,
                call |-> <<c, Here(c)>>, big |-> Cur(c).big]
    IN  /\ pc[c] = "notify"
        /\ \/ Written(d, msg)
           \/ WriteFails(d, msg)
           \/ TooBig(d, msg) /\ UNCHANGED out
        /\ Finish(c)
        /\ UNCHANGED <<clientVars, routes, tableVars, limit, fwd, ans>>

(***************************************************************************)
(* Connection.sendRequest on the serving connection d, called from c's      *)
(* goroutine: take the next ID (atomic add), store the closure              *)
(* (activeOutRequestsMutex), write (outMutex), and on a failed write delete *)
(* the entry again before the error goes back to the caller.                *)
(***************************************************************************)
NextId(d) == (lastOutRequestsIndex[d] + 1) % IdMod

(* Mutant: the request is forwarded under the caller's own message ID.       *)
AllocIdNotRemapped(c) ==
    LET d == fwd[c].to
    IN  /\ pc[c] = "alloc"
        /\ lastOutRequestsIndex' = [lastOutRequestsIndex EXCEPT ![d] = @ + 1]
        /\ fwd' = [fwd EXCEPT ![c].id = Here(c) % IdMod]
        /\ Goto(c, "insert")
        /\ UNCHANGED <<clientVars, rd, out, routes, active, limit, ans>>

AllocId(c) ==
    LET d == fwd[c].to
    IN  /\ pc[c] = "alloc"
        /\ lastOutRequestsIndex' = [lastOutRequestsIndex EXCEPT ![d] = @ + 1]
        /\ fwd' = [fwd EXCEPT ![c].id = NextId(d)]
        /\ Goto(c, "insert")
        /\ UNCHANGED <<clientVars, rd, out, routes, active, limit, ans>>

InsertRequest(c) ==
    /\ pc[c] = "insert"
    /\ active' = [active EXCEPT ![fwd[c].to][fwd[c].id] =
                     [to |-> c, id |-> Here(c)]]
    /\ Goto(c, "write")
    /\ UNCHANGED <<clientVars, rd, out, routes, lastOutRequestsIndex, limit,
                   fwd, ans>>

(* Mutant: the request is written and yet reported as failed.                *)
WriteRequestReportsFailure(c) ==
    LET d   == fwd[c].to
        msg == [type |-> "req", id |-> fwd[c].id, method |-> Cur(c).method,
                call |-> <<c, Here(c)>>, big |-> Cur(c).big]
    IN  /\ pc[c] = "write"
        /\ Written(d, msg) \/ WriteFails(d, msg)
        /\ ans' = [ans EXCEPT ![c] = [to |-> c, id |-> Here(c), big |-> FALSE,
                                      code |-> "FailedToSendRequests",
                                      call |-> <<c, Here(c)>>]]
        /\ Goto(c, "undo")
        /\ UNCHANGED <<clientVars, rd, routes, tableVars, limit, fwd>>

WriteRequest(c) ==
    LET d   == fwd[c].to
        msg == [type |-> "req", id |-> fwd[c].id, method |-> Cur(c).method,
                call |-> <<c, Here(c)>>, big |-> Cur(c).big]
        Failed(code) == /\ ans' = [ans EXCEPT ![c] =
                             [to |-> c, id |-> Here(c), code |-> code,
                              call |-> <<c, Here(c)>>, big |-> FALSE]]
                        /\ Goto(c, "undo")
                        /\ UNCHANGED rd
    IN  /\ pc[c] = "write"
        /\ \/ Written(d, msg) /\ Finish(c) /\ UNCHANGED ans
           \/ WriteFails(d, msg) /\ Failed("FailedToSendRequests")
           \/ TooBig(d, msg) /\ Failed("BufferLimitExceeded") /\ UNCHANGED out
        /\ UNCHANGED <<clientVars, routes, tableVars, limit, fwd>>

UndoRequest(c) ==
    /\ pc[c] = "undo"
    /\ active' = [active EXCEPT ![fwd[c].to][fwd[c].id] = NoReq]
    /\ Goto(c, "reply")
    /\ UNCHANGED <<clientVars, rd, out, routes, lastOutRequestsIndex, limit,
                   fwd, ans>>

-----------------------------------------------------------------------------
(***************************************************************************)
(* Connection.handleIncomingResponse: the entry is looked up and deleted    *)
(* in one critical section; an unknown ID (a double answer) only reaches    *)
(* the error handler.                                                       *)
(***************************************************************************)
HandleResponse(c) ==
    /\ Incoming(c, "res")
    /\ LET req == active[c][Cur(c).id]
       IN  IF req = NoReq
             THEN Finish(c) /\ UNCHANGED <<active, ans>>
             ELSE /\ active' = [active EXCEPT ![c][Cur(c).id] = NoReq]
                  /\ ans' = [ans EXCEPT ![c] =
                         [to |-> req.to, id |-> req.id, code |-> "peer",
                          call |-> Cur(c).call, big |-> Cur(c).big]]
                  /\ Goto(c, "reply")
                  /\ UNCHANGED rd
    /\ UNCHANGED <<clientVars, out, routes, lastOutRequestsIndex, limit, fwd>>

(* Mutant: an answer that exceeds the limit is dropped.                      *)
SendReplyDropsBig(c) ==
    LET a   == ans[c]
        msg == [type |-> "res", id |-> a.id, code |-> a.code, call |-> a.call,
                big |-> a.big]
    IN  /\ pc[c] = "reply"
        /\ \/ Written(a.to, msg)
           \/ WriteFails(a.to, msg)
           \/ TooBig(a.to, msg) /\ UNCHANGED out
        /\ Finish(c)
        /\ UNCHANGED <<clientVars, routes, tableVars, limit, fwd, ans>>

(* The closure fwdRes, run by the goroutine of c, for connection ans[c].to:  *)
(* a response that exceeds the limit is replaced by a short error.           *)
SendReply(c) ==
    LET a   == ans[c]
        msg == [type |-> "res", id |-> a.id, code |-> a.code, call |-> a.call,
                big |-> a.big]
    IN  /\ pc[c] = "reply"
        /\ \/ /\ Written(a.to, msg) \/ WriteFails(a.to, msg)
              /\ Finish(c)
              /\ UNCHANGED ans
           \/ /\ TooBig(a.to, msg)
              /\ ans' = [ans EXCEPT ![c].code = "BufferLimitExceeded",
                                     ![c].big = FALSE]
              /\ UNCHANGED <<out, rd, pc>>
        /\ UNCHANGED <<clientVars, routes, tableVars, limit, fwd>>

-----------------------------------------------------------------------------
(***************************************************************************)
(* The end of a connection.  Run skips a malformed packet and returns on    *)
(* any other decoding error: end of stream or a broken connection once the  *)
(* client is gone, or undecodable bytes.  connectionLoop then drops the     *)
(* routes and closes the connection; it leaves activeOutRequests as it is.  *)
(***************************************************************************)
SkipInvalid(c) ==
    /\ Incoming(c, "invalid")
    /\ Finish(c)
    /\ UNCHANGED <<clientVars, out, routes, tableVars, limit, fwd, ans>>

(* Mutant: the loop ends without removeMethodsFromConnection.                *)
StopReadingKeepsRoutes(c) ==
    /\ pc[c] = "idle"
    /\ ~up[c] \/ Incoming(c, "garbage")
    /\ Goto(c, "close")
    /\ UNCHANGED <<clientVars, rd, out, routes, tableVars, limit, fwd, ans>>

StopReading(c) ==
    /\ pc[c] = "idle"
    /\ ~up[c] \/ Incoming(c, "garbage")
    /\ Goto(c, "drop")
    /\ UNCHANGED <<clientVars, rd, out, routes, tableVars, limit, fwd, ans>>

(* Mutant: the connection is closed first, then its routes are dropped.      *)
DropRoutesAfterClose(c) ==
    \/ /\ pc[c] = "drop"
       /\ Goto(c, "close")
       /\ UNCHANGED <<clientVars, rd, out, routes, tableVars, limit, fwd, ans>>
    \/ /\ pc[c] = "closed"
       /\ removeMethodsFromConnection(c)
       /\ UNCHANGED <<clientVars, loopVars, out, tableVars, limit>>

DropRoutes(c) ==
    /\ pc[c] = "drop"
    /\ removeMethodsFromConnection(c)
    /\ Goto(c, "close")
    /\ UNCHANGED <<clientVars, rd, out, tableVars, limit, fwd, ans>>

Close(c) ==
    /\ pc[c] = "close"
    /\ Goto(c, "closed")
    /\ UNCHANGED <<clientVars, rd, out, routes, tableVars, limit, fwd, ans>>

-----------------------------------------------------------------------------
Client(c) == Accept(c) \/ ClientSend(c) \/ ClientRespond(c) \/ Disconnect(c)

ControlCall(c) == HandleRegister(c) \/ HandleUnregister(c) \/ HandleReset(c)
               \/ HandleSetMaxMsgSize(c) \/ NotifySetMaxMsgSize(c)

Forward(c) == LookupRoute(c) \/ WriteNotification(c) \/ AllocId(c)
              \/ InsertRequest(c) \/ WriteRequest(c) \/ UndoRequest(c)

connectionLoop(c) ==
    \/ ControlCall(c) \/ CallInternal(c) \/ InternalReturns(c) \/ Forward(c)
    \/ HandleResponse(c) \/ SendReply(c)
    \/ SkipInvalid(c) \/ StopReading(c) \/ DropRoutes(c) \/ Close(c)

Next == \E c \in Conn : Client(c) \/ connectionLoop(c)

Spec == Init /\ [][Next]_vars

(***************************************************************************)
(* Fairness.  Go schedules every goroutine that can run, so a connection's  *)
(* goroutine that has a step to take takes it; a write returns because the  *)
(* peer's operating system takes the bytes, and an internal handler         *)
(* returns.  A client answers each request once; it need not send,          *)
(* connect, answer twice or disconnect.                                     *)
(***************************************************************************)
FirstAnswer(c) ==
    \E i \in DOMAIN out[c], b \in Sizes :
        /\ out[c][i].type = "req"
        /\ Answers(c, i) = {}
        /\ Send(c, [type |-> "res", id |-> out[c][i].id,
                    call |-> out[c][i].call, big |-> b])

FairSpec == Spec /\ \A c \in Conn : /\ WF_vars(connectionLoop(c))
                                     /\ WF_vars(FirstAnswer(c))

-----------------------------------------------------------------------------
(***************************************************************************)
(* Properties of the registry.                                              *)
(***************************************************************************)

(* Once connectionLoop has run removeMethodsFromConnection for a terminated  *)
(* connection, no route leads to it, whatever the other goroutines do        *)
(* meanwhile (router.go:256).                                                *)
NoStaleRoute ==
    \A m \in Name : routes[m] # NoConn => pc[routes[m]] \notin {"close", "closed"}

Succeeded(c, n) == \E i \in DOMAIN out[c] : /\ out[c][i].type = "res"
                                           /\ out[c][i].id = n
                                           /\ out[c][i].code = "true"

IsRegister(q, m) == q.type = "req" /\ q.method = "$/register" /\ q.arg = m /\ q.ok
IsRelease(q, m)  == /\ q.type = "req"
                    /\ q.ok
                    /\ q.method = "$/reset" \/ (q.method = "$/unregister" /\ q.arg = m)

(* A client that was told its $/register succeeded owns the route until the  *)
(* router has taken up a $/unregister or $/reset of that same client, or has *)
(* ended the connection: nobody else can register over it or drop it         *)
(* (router.go:261-294).  Hence no two clients ever both believe they own m.  *)
RegistrationHonoured ==
    \A c \in Conn, m \in Name : \A n \in 1 .. rd[c] :
        /\ IsRegister(sent[c][n], m)
        /\ Succeeded(c, n)
        /\ \A k \in n + 1 .. Len(sent[c]) :
               k <= Here(c) => ~IsRelease(sent[c][k], m)
        /\ pc[c] \notin {"close", "closed"}
        => routes[m] = c

(* A step changes a route only between nil and one connection, and only the  *)
(* goroutine of that connection does it, while it handles its client's       *)
(* request or its end: no route passes directly from one client to another.  *)
RouteMovesByOwner ==
    [][\A m \in Name : routes'[m] # routes[m] =>
          \E c \in Conn : /\ {routes[m], routes'[m]} = {NoConn, c}
                         /\ pc'[c] # pc[c]]_vars

(* Requests and notifications reach only a client that asked for that method *)
(* to be registered, in a request the router had taken up by then: a lookup  *)
(* that races with unregistering or with a re-registration by another client *)
(* still never sends a call to a client that never served it                 *)
(* (router.go:179-188, 231-238).                                             *)
OnlyRegistrantsServe ==
    \A c \in Conn : \A i \in DOMAIN out[c] :
        out[c][i].type \in {"req", "not"} =>
            \E n \in DOMAIN sent[c] :
                n <= Here(c) /\ IsRegister(sent[c][n], out[c][i].method)

-----------------------------------------------------------------------------
(***************************************************************************)
(* Properties of the calls.  They hold as long as the 32-bit request        *)
(* counter of a connection has not wrapped around.                          *)
(***************************************************************************)
NoWrap == \A c \in Conn : lastOutRequestsIndex[c] < IdMod

IsRes(msg) == msg.type = "res"

(* The ID remapping is undone correctly: a response delivered to client c    *)
(* under ID n carries the outcome of c's own n-th packet, although all       *)
(* clients use the same IDs and a server may answer in any order and twice   *)
(* (connection.go:340-370).                                                  *)
ResponseMatchesRequest ==
    NoWrap => \A c \in Conn : \A i \in DOMAIN out[c] :
        IsRes(out[c][i]) => out[c][i].call = <<c, out[c][i].id>>

Answered(c, n)  == \E i \in DOMAIN out[c] : IsRes(out[c][i]) /\ out[c][i].id = n
Returning(c, n) == \E d \in Conn : /\ pc[d] = "reply"
                                   /\ ans[d].to = c
                                   /\ ans[d].id = n
HasRequest(d, id, call) == \E i \in DOMAIN out[d] : /\ out[d][i].type = "req"
                                                    /\ out[d][i].id = id
                                                    /\ out[d][i].call = call
Waiting(c, n)   == \E d \in Conn, id \in Ids :
                      /\ active[d][id] = [to |-> c, id |-> n]
                      /\ up[d] => HasRequest(d, id, <<c, n>>)

(* No request falls through: once the router has handled a request of a      *)
(* client that is still there, it has answered it, or a goroutine is about   *)
(* to answer it, or its entry waits at a server that was really sent the     *)
(* request (or that has gone: such entries are never answered).              *)
NoRequestLost ==
    NoWrap => \A c \in Conn : \A n \in 1 .. rd[c] :
        sent[c][n].type = "req" =>
            \/ Answered(c, n) \/ Returning(c, n) \/ Waiting(c, n)
            \/ ~Reachable(c)

(* Requests and notifications of one client reach one server in the order    *)
(* they were sent, each at most once: the goroutine of a connection forwards *)
(* a packet completely before it reads the next (connection.go:292-320).     *)
ForwardedInOrder ==
    \A d \in Conn : \A i, j \in DOMAIN out[d] :
        /\ i < j
        /\ ~IsRes(out[d][i]) /\ ~IsRes(out[d][j])
        /\ out[d][i].call[1] = out[d][j].call[1]
        => out[d][i].call[2] < out[d][j].call[2]

(* After a client has been told that its $/setMaxMsgSize succeeded it never  *)
(* receives an oversize message again, from any goroutine (router.go:156,    *)
(* connection.go:429-460).                                                   *)
LimitRespected ==
    \A c \in Conn : \A i, j \in DOMAIN out[c] :
        /\ i < j
        /\ IsRes(out[c][i]) /\ out[c][i].code = "true"
        /\ sent[c][out[c][i].id].method = "$/setMaxMsgSize"
        => ~out[c][j].big

(* Every request of a client that stays is answered, unless its server has   *)
(* gone with the request: there is no other way to wait forever as long as   *)
(* writes and internal handlers return.  A goroutine that stays in           *)
(* tcp/accept (network-api.go:163), udp/awaitPacket (564) or mon/read        *)
(* (monitor-api.go:107) neither reads requests nor passes answers on.        *)
Orphaned(c, n) == \E d \in Conn, id \in Ids :
                     active[d][id] = [to |-> c, id |-> n] /\ ~Reachable(d)

RequestsSettle ==
    \A c \in Conn : \A n \in 1 .. Quota[c] :
        n <= Len(sent[c]) /\ sent[c][n].type = "req"
        ~> Answered(c, n) \/ Orphaned(c, n) \/ ~Reachable(c)

(* After a client has gone its routes are dropped, for good, provided that   *)
(* its goroutine comes back from internal handlers, as above: one that stays *)
(* in tcp/accept keeps the routes of a client that has left.                 *)
RoutesReleased ==
    \A c \in Conn :
        pc[c] # "new" /\ ~up[c] ~> [](\A m \in Name : routes[m] # c)

=============================================================================
