---------------------------- MODULE RouterProofs ----------------------------
(***************************************************************************)
(* Proofs about Router, for every number of connections, every set of       *)
(* names, every behaviour of the clients and every size of the request      *)
(* counter.                                                                 *)
(***************************************************************************)
EXTENDS RouterService, TLAPS

(***************************************************************************)
(* What the program counter of a goroutine says about its local variables:  *)
(* the packet being handled is there and is of the right kind, the target   *)
(* of a forwarded call is a connection, and so is the receiver of an        *)
(* answer.                                                                  *)
(***************************************************************************)
Sending  == {"insert", "write", "undo"}
Directed == {"notify", "alloc"} \cup Sending
Calling  == {"internal"} \cup Directed

LoopOK(c) ==
    /\ pc[c] \in Calling \cup {"reply"} => rd[c] < Len(sent[c])
    /\ pc[c] \in Calling => Cur(c) \in Call
    /\ pc[c] \in Directed => fwd[c].to \in Conn
    /\ pc[c] \in {"reply", "undo"} => ans[c].to \in Conn

LoopInv == \A c \in Conn : LoopOK(c)

TypeInv == TypeOK /\ LoopInv

-----------------------------------------------------------------------------
(***************************************************************************)
(* Facts about the operators the actions are built from.                    *)
(***************************************************************************)

(* A request ID is one of the IdMod values of the counter.                   *)
LEMMA IdInRange ==
    ASSUME NEW x \in Nat
    PROVE  x % IdMod \in Ids
BY IdModAssumption DEF Ids

(* Appending to a sequence does not change the elements already there.       *)
LEMMA AppendKeeps ==
    ASSUME NEW S, NEW s \in Seq(S), NEW e \in S
    PROVE  /\ Append(s, e) \in Seq(S)
           /\ Len(Append(s, e)) = Len(s) + 1
           /\ \A n \in 1 .. Len(s) : Append(s, e)[n] = s[n]
           /\ Append(s, e)[Len(s) + 1] = e
OBVIOUS

(* The type field of a packet tells its kind.                                *)
LEMMA PacketKinds ==
    ASSUME NEW q \in Packet
    PROVE  /\ q.type \in {"req", "not"} => q \in Call
           /\ q.type = "res" => q \in Response
BY DEF Packet, Call, Response, Junk

(* The packet a goroutine takes up is one of its client's packets.           *)
LEMMA CurrentPacket ==
    ASSUME TypeOK, NEW c \in Conn
    PROVE  /\ Here(c) \in Nat
           /\ <<c, Here(c)>> \in CallId
           /\ rd[c] < Len(sent[c]) => Cur(c) \in Packet
BY DEF TypeOK, Cur, Here, CallId

(* An answer that fwdRes of c's own request is called with.                  *)
LEMMA ReplyType ==
    ASSUME TypeOK, NEW c \in Conn, NEW code \in Code, NEW big \in BOOLEAN,
           Reply(c, code, big)
    PROVE  /\ ans' \in [Conn -> Answer]
           /\ ans'[c].to = c
           /\ \A d \in Conn : d # c => ans'[d] = ans[d]
           /\ pc' = [pc EXCEPT ![c] = "reply"]
<1>1. [to |-> c, id |-> Here(c), code |-> code, call |-> <<c, Here(c)>>,
       big |-> big] \in Answer
  BY CurrentPacket DEF Answer
<1> QED BY <1>1 DEF Reply, Goto, TypeOK

(* Going back for the next packet.                                           *)
LEMMA FinishType ==
    ASSUME TypeOK, NEW c \in Conn, Finish(c)
    PROVE  /\ rd' \in [Conn -> Nat]
           /\ pc' \in [Conn -> Steps]
           /\ pc'[c] = "idle"
           /\ \A d \in Conn : d # c => rd'[d] = rd[d] /\ pc'[d] = pc[d]
BY DEF Finish, Goto, TypeOK, Steps

(* Connection.send only ever appends messages.                               *)
LEMMA SendingType ==
    ASSUME TypeOK, NEW d \in Conn, NEW msg \in Message,
           Written(d, msg) \/ WriteFails(d, msg) \/ UNCHANGED out
    PROVE  out' \in [Conn -> Seq(Message)]
<1>1. CASE UNCHANGED out
  BY <1>1 DEF TypeOK
<1>2. CASE Deliver(d, msg)
  BY <1>2, AppendKeeps DEF Deliver, TypeOK
<1> QED BY <1>1, <1>2 DEF Written, WriteFails

(* A step of c's goroutine leaves the others' local variables alone.         *)
LEMMA LoopFrame ==
    ASSUME LoopInv, NEW c \in Conn, sent' = sent, LoopOK(c)',
           \A d \in Conn : d # c => /\ rd'[d] = rd[d] /\ pc'[d] = pc[d]
                                   /\ fwd'[d] = fwd[d] /\ ans'[d] = ans[d]
    PROVE  LoopInv'
<1> SUFFICES ASSUME NEW d \in Conn, d # c PROVE LoopOK(d)'
  BY DEF LoopInv
<1> QED BY DEF LoopInv, LoopOK, Cur, Here

(* A client's sending leaves the packets being handled as they are.          *)
LEMMA SendType ==
    ASSUME TypeInv, NEW c \in Conn, NEW q \in Packet, Send(c, q)
    PROVE  TypeInv'
<1> USE DEF TypeInv, Send, loopVars, tableVars
<1>1. sent' \in [Conn -> Seq(Packet)]
  BY AppendKeeps DEF TypeOK
<1>2. TypeOK'
  BY <1>1 DEF TypeOK
<1>3. ASSUME NEW d \in Conn, rd[d] < Len(sent[d])
      PROVE  rd'[d] < Len(sent'[d]) /\ Cur(d)' = Cur(d)
  <2>1. sent[d] \in Seq(Packet) /\ rd[d] \in Nat
    BY DEF TypeOK
  <2>2. Len(sent[d]) <= Len(sent'[d])
        /\ \A n \in 1 .. Len(sent[d]) : sent'[d][n] = sent[d][n]
    BY <2>1, AppendKeeps DEF TypeOK
  <2> QED BY <1>3, <2>1, <2>2 DEF Cur, Here
<1>4. LoopInv'
  BY <1>3 DEF LoopInv, LoopOK, Calling
<1> QED BY <1>2, <1>4

LEMMA InitType == Init => TypeInv
<1> SUFFICES ASSUME Init PROVE TypeInv
  OBVIOUS
<1>1. NoReq \in Entry /\ NoReq \in Target /\ NoAns \in Answer
  BY IdModAssumption DEF Entry, Target, Answer, NoReq, Ids
<1>2. TypeOK
  BY <1>1 DEF Init, NewConnection, TypeOK, Steps
<1>3. LoopInv
  BY DEF Init, NewConnection, LoopInv, LoopOK, Calling, Directed, Sending
<1> QED BY <1>2, <1>3 DEF TypeInv

(* Every step of a client preserves the type invariant.                      *)
LEMMA ClientType ==
    ASSUME TypeInv, NEW c \in Conn, Client(c)
    PROVE  TypeInv'
<1>1. CASE Accept(c)
  BY <1>1 DEF Accept, TypeInv, TypeOK, LoopInv, LoopOK, Calling, Directed, Sending,
     Steps, tableVars, Cur, Here
<1>2. CASE ClientSend(c)
  <2>1. PICK q \in Offer[c] : Send(c, q)
    BY <1>2 DEF ClientSend
  <2>2. q \in Packet
    BY OfferAssumption DEF Packet
  <2> QED BY <2>1, <2>2, SendType
<1>3. CASE ClientRespond(c)
  <2>1. PICK i \in DOMAIN out[c], b \in Sizes :
           /\ out[c][i].type = "req"
           /\ Send(c, [type |-> "res", id |-> out[c][i].id,
                       call |-> out[c][i].call, big |-> b])
    BY <1>3 DEF ClientRespond
  <2>2. out[c][i] \in Message
    BY DEF TypeInv, TypeOK
  <2>3. [type |-> "res", id |-> out[c][i].id, call |-> out[c][i].call,
         big |-> b] \in Packet
    BY <2>1, <2>2, BoundAssumption DEF Message, Packet, Response
  <2> QED BY <2>1, <2>3, SendType
<1>4. CASE Disconnect(c)
  BY <1>4 DEF Disconnect, TypeInv, TypeOK, LoopInv, LoopOK, tableVars, loopVars,
     Cur, Here
<1> QED BY <1>1, <1>2, <1>3, <1>4 DEF Client

(* Every step of a $/ method preserves the type invariant.                   *)
LEMMA ControlType ==
    ASSUME TypeInv, NEW c \in Conn, ControlCall(c)
    PROVE  TypeInv'
<1> USE DEF TypeInv, clientVars, tableVars, Steps, Calling, Directed, Sending
<1>1. CASE HandleRegister(c)
  <2>1. Cur(c) \in Call /\ rd[c] < Len(sent[c])
    BY <1>1, CurrentPacket, PacketKinds DEF HandleRegister, Incoming, Receive
  <2>2. PICK code \in {"InvalidParams", "true", "RouteAlreadyExists"} : Reply(c, code, FALSE)
    BY <1>1 DEF HandleRegister
  <2>3. routes' \in [Name -> Conn \cup {NoConn}]
    BY <1>1, <2>1 DEF HandleRegister, registerMethod, TypeOK, Call
  <2>4. /\ ans' \in [Conn -> Answer]
        /\ ans'[c].to = c
        /\ \A d \in Conn : d # c => ans'[d] = ans[d]
        /\ pc' = [pc EXCEPT ![c] = "reply"]
    BY <2>2, ReplyType DEF Code
  <2>5. TypeOK'
    BY <1>1, <2>3, <2>4 DEF HandleRegister, TypeOK
  <2>6. LoopOK(c)'
    BY <1>1, <2>1, <2>4 DEF HandleRegister, LoopOK, TypeOK
  <2> QED BY <1>1, <2>4, <2>5, <2>6, LoopFrame DEF HandleRegister, TypeOK
<1>2. CASE HandleUnregister(c)
  <2>1. Cur(c) \in Call /\ rd[c] < Len(sent[c])
    BY <1>2, CurrentPacket, PacketKinds DEF HandleUnregister, Incoming, Receive
  <2>2. PICK code \in {"InvalidParams", "true", "GenericError"} : Reply(c, code, FALSE)
    BY <1>2 DEF HandleUnregister
  <2>3. routes' \in [Name -> Conn \cup {NoConn}]
    BY <1>2, <2>1 DEF HandleUnregister, removeSingleMethodFromConnection, TypeOK, Call
  <2>4. /\ ans' \in [Conn -> Answer]
        /\ ans'[c].to = c
        /\ \A d \in Conn : d # c => ans'[d] = ans[d]
        /\ pc' = [pc EXCEPT ![c] = "reply"]
    BY <2>2, ReplyType DEF Code
  <2>5. TypeOK'
    BY <1>2, <2>3, <2>4 DEF HandleUnregister, TypeOK
  <2>6. LoopOK(c)'
    BY <1>2, <2>1, <2>4 DEF HandleUnregister, LoopOK, TypeOK
  <2> QED BY <1>2, <2>4, <2>5, <2>6, LoopFrame DEF HandleUnregister, TypeOK
<1>3. CASE HandleReset(c)
  <2>1. Cur(c) \in Call /\ rd[c] < Len(sent[c])
    BY <1>3, CurrentPacket, PacketKinds DEF HandleReset, Incoming, Receive
  <2>2. PICK code \in {"InvalidParams", "true"} : Reply(c, code, FALSE)
    BY <1>3 DEF HandleReset
  <2>3. routes' \in [Name -> Conn \cup {NoConn}]
    BY <1>3, <2>1 DEF HandleReset, removeMethodsFromConnection, TypeOK, Call
  <2>4. /\ ans' \in [Conn -> Answer]
        /\ ans'[c].to = c
        /\ \A d \in Conn : d # c => ans'[d] = ans[d]
        /\ pc' = [pc EXCEPT ![c] = "reply"]
    BY <2>2, ReplyType DEF Code
  <2>5. TypeOK'
    BY <1>3, <2>3, <2>4 DEF HandleReset, TypeOK
  <2>6. LoopOK(c)'
    BY <1>3, <2>1, <2>4 DEF HandleReset, LoopOK, TypeOK
  <2> QED BY <1>3, <2>4, <2>5, <2>6, LoopFrame DEF HandleReset, TypeOK
<1>4. CASE HandleSetMaxMsgSize(c)
  <2>1. Cur(c) \in Call /\ rd[c] < Len(sent[c])
    BY <1>4, CurrentPacket, PacketKinds DEF HandleSetMaxMsgSize, Incoming, Receive
  <2>2. PICK code \in {"InvalidParams", "true"} : Reply(c, code, FALSE)
    BY <1>4 DEF HandleSetMaxMsgSize
  <2>3. limit' \in [Conn -> BOOLEAN]
    BY <1>4, <2>1 DEF HandleSetMaxMsgSize, SetMaxOutgoingMessageSize, TypeOK, Call
  <2>4. /\ ans' \in [Conn -> Answer]
        /\ ans'[c].to = c
        /\ \A d \in Conn : d # c => ans'[d] = ans[d]
        /\ pc' = [pc EXCEPT ![c] = "reply"]
    BY <2>2, ReplyType DEF Code
  <2>5. TypeOK'
    BY <1>4, <2>3, <2>4 DEF HandleSetMaxMsgSize, TypeOK
  <2>6. LoopOK(c)'
    BY <1>4, <2>1, <2>4 DEF HandleSetMaxMsgSize, LoopOK, TypeOK
  <2> QED BY <1>4, <2>4, <2>5, <2>6, LoopFrame DEF HandleSetMaxMsgSize, TypeOK
<1>5. CASE NotifySetMaxMsgSize(c)
  <2>1. limit' \in [Conn -> BOOLEAN]
    BY <1>5 DEF NotifySetMaxMsgSize, SetMaxOutgoingMessageSize, TypeOK
  <2>2. TypeOK'
    BY <1>5, <2>1, FinishType DEF NotifySetMaxMsgSize, TypeOK
  <2>3. LoopOK(c)'
    BY <1>5 DEF NotifySetMaxMsgSize, Finish, Goto, LoopOK, TypeOK
  <2> QED BY <1>5, <2>2, <2>3, LoopFrame
          DEF NotifySetMaxMsgSize, Finish, Goto, TypeOK
<1> QED BY <1>1, <1>2, <1>3, <1>4, <1>5 DEF ControlCall

(* Every step of a call, internal or forwarded, preserves the type           *)
(* invariant.                                                                *)
LEMMA CallType ==
    ASSUME TypeInv, NEW c \in Conn,
           CallInternal(c) \/ InternalReturns(c) \/ Forward(c)
    PROVE  TypeInv'
<1> USE DEF TypeInv, clientVars, tableVars, Steps, Calling, Directed, Sending
<1>1. CASE CallInternal(c)
  <2>1. Cur(c) \in Call /\ rd[c] < Len(sent[c])
    BY <1>1, CurrentPacket, PacketKinds DEF CallInternal, IsCall, Incoming, Receive
  <2>2. TypeOK'
    BY <1>1 DEF CallInternal, Goto, TypeOK
  <2>3. LoopOK(c)'
    BY <1>1, <2>1 DEF CallInternal, Goto, LoopOK, TypeOK, Cur, Here
  <2> QED BY <1>1, <2>2, <2>3, LoopFrame DEF CallInternal, Goto, TypeOK
<1>2. CASE InternalReturns(c) /\ Cur(c).type = "req"
  <2>1. PICK b \in Sizes : Reply(c, "handler", b)
    BY <1>2 DEF InternalReturns
  <2>2. /\ ans' \in [Conn -> Answer]
        /\ ans'[c].to = c
        /\ \A d \in Conn : d # c => ans'[d] = ans[d]
        /\ pc' = [pc EXCEPT ![c] = "reply"]
    BY <2>1, BoundAssumption, ReplyType DEF Code
  <2>3. rd[c] < Len(sent[c])
    BY <1>2 DEF InternalReturns, LoopInv, LoopOK
  <2>4. TypeOK'
    BY <1>2, <2>2 DEF InternalReturns, TypeOK
  <2>5. LoopOK(c)'
    BY <1>2, <2>2, <2>3 DEF InternalReturns, LoopOK, TypeOK
  <2> QED BY <1>2, <2>2, <2>4, <2>5, LoopFrame DEF InternalReturns, TypeOK
<1>3. CASE InternalReturns(c) /\ Cur(c).type # "req"
  <2>1. TypeOK'
    BY <1>3, FinishType DEF InternalReturns, TypeOK
  <2>2. LoopOK(c)'
    BY <1>3 DEF InternalReturns, Finish, Goto, LoopOK, TypeOK
  <2> QED BY <1>3, <2>1, <2>2, LoopFrame DEF InternalReturns, Finish, Goto, TypeOK
<1>4. CASE LookupRoute(c)
  <2>1. Cur(c) \in Call /\ rd[c] < Len(sent[c])
    BY <1>4, CurrentPacket, PacketKinds DEF LookupRoute, IsCall, Incoming, Receive
  <2> DEFINE d == getConnectionForMethod(Cur(c).method)
  <2>2. d \in Conn \cup {NoConn}
    BY <2>1 DEF getConnectionForMethod, TypeOK, Call
  <2>3. CASE d # NoConn
    <3>1. /\ fwd' = [fwd EXCEPT ![c].to = d]
          /\ d \in Conn
          /\ \/ pc' = [pc EXCEPT ![c] = "alloc"]
             \/ pc' = [pc EXCEPT ![c] = "notify"]
          /\ UNCHANGED <<sent, up, out, routes, active, lastOutRequestsIndex,
                         limit, rd, ans>>
      BY <1>4, <2>2, <2>3 DEF LookupRoute, Goto
    <3>2. fwd' \in [Conn -> Target]
      <4> HIDE DEF d
      <4>1. fwd[c] \in Target
        BY DEF TypeOK
      <4>2. [fwd[c] EXCEPT !.to = d] \in Target
        BY <3>1, <4>1 DEF Target
      <4> QED BY <3>1, <4>2 DEF TypeOK
    <3>3. TypeOK'
      BY <3>1, <3>2 DEF TypeOK
    <3>4. LoopOK(c)'
      BY <2>1, <3>1 DEF LoopOK, TypeOK, Cur, Here, Target
    <3> QED BY <3>1, <3>3, <3>4, LoopFrame DEF TypeOK
  <2>4. CASE d = NoConn /\ Cur(c).type = "req"
    <3>1. /\ Reply(c, "MethodNotAvailable", FALSE)
          /\ UNCHANGED <<sent, up, out, routes, active, lastOutRequestsIndex,
                         limit, rd, fwd>>
      BY <1>4, <2>4 DEF LookupRoute
    <3>2. /\ ans' \in [Conn -> Answer]
          /\ ans'[c].to = c
          /\ \A e \in Conn : e # c => ans'[e] = ans[e]
          /\ pc' = [pc EXCEPT ![c] = "reply"]
      BY <3>1, ReplyType DEF Code
    <3>3. TypeOK'
      BY <3>1, <3>2 DEF TypeOK
    <3>4. LoopOK(c)'
      BY <2>1, <3>1, <3>2 DEF LoopOK, TypeOK
    <3> QED BY <3>1, <3>2, <3>3, <3>4, LoopFrame DEF TypeOK
  <2>5. CASE d = NoConn /\ Cur(c).type # "req"
    <3>1. /\ Finish(c)
          /\ UNCHANGED <<sent, up, out, routes, active, lastOutRequestsIndex,
                         limit, fwd, ans>>
      BY <1>4, <2>5 DEF LookupRoute
    <3>2. TypeOK'
      BY <3>1 DEF Finish, Goto, TypeOK
    <3>3. LoopOK(c)'
      BY <3>1 DEF Finish, Goto, LoopOK, TypeOK
    <3> QED BY <3>1, <3>2, <3>3, LoopFrame DEF Finish, Goto, TypeOK
  <2> QED BY <2>3, <2>4, <2>5
<1>5. CASE WriteNotification(c)
  <2> DEFINE msg == [type |-> "not", method |-> Cur(c).method,
                     call |-> <<c, Here(c)>>, big |-> Cur(c).big]
  <2>1. fwd[c].to \in Conn /\ Cur(c) \in Call
    BY <1>5 DEF WriteNotification, LoopInv, LoopOK
  <2>2. msg \in Message
    BY <2>1, CurrentPacket DEF Message, Call
  <2>3. out' \in [Conn -> Seq(Message)]
    BY <1>5, <2>1, <2>2, SendingType DEF WriteNotification
  <2>4. TypeOK'
    BY <1>5, <2>3, FinishType DEF WriteNotification, TypeOK
  <2>5. LoopOK(c)'
    BY <1>5 DEF WriteNotification, Finish, Goto, LoopOK, TypeOK
  <2> QED BY <1>5, <2>4, <2>5, LoopFrame DEF WriteNotification, Finish, Goto, TypeOK
<1>6. CASE AllocId(c)
  <2> DEFINE d == fwd[c].to
  <2>1. d \in Conn /\ lastOutRequestsIndex[d] + 1 \in Nat
    BY <1>6 DEF AllocId, LoopInv, LoopOK, TypeOK
  <2>2. NextId(d) \in Ids
    BY <2>1, IdInRange DEF NextId
  <2>3. /\ fwd' = [fwd EXCEPT ![c].id = NextId(d)]
        /\ lastOutRequestsIndex' = [lastOutRequestsIndex EXCEPT
                                      ![d] = lastOutRequestsIndex[d] + 1]
        /\ pc' = [pc EXCEPT ![c] = "insert"]
        /\ UNCHANGED <<sent, up, rd, out, routes, active, limit, ans>>
    BY <1>6 DEF AllocId, Goto
  <2>4. fwd' \in [Conn -> Target] /\ fwd'[c].to = d
    BY <2>2, <2>3 DEF TypeOK, Target
  <2>5. lastOutRequestsIndex' \in [Conn -> Nat]
    BY <2>1, <2>3 DEF TypeOK
  <2>6. TypeOK'
    BY <2>3, <2>4, <2>5 DEF TypeOK
  <2>7. LoopOK(c)'
    BY <1>6, <2>1, <2>3, <2>4 DEF AllocId, LoopInv, LoopOK, TypeOK, Cur, Here
  <2> QED BY <2>3, <2>6, <2>7, LoopFrame DEF TypeOK
<1>7. CASE InsertRequest(c)
  <2>1. fwd[c].to \in Conn /\ fwd[c].id \in Ids
    BY <1>7 DEF InsertRequest, LoopInv, LoopOK, TypeOK, Target
  <2>2. [to |-> c, id |-> Here(c)] \in Entry
    BY CurrentPacket DEF Entry
  <2>3. active' \in [Conn -> [Ids -> Entry]]
    BY <1>7, <2>1, <2>2 DEF InsertRequest, TypeOK
  <2>4. TypeOK'
    BY <1>7, <2>3 DEF InsertRequest, Goto, TypeOK
  <2>5. LoopOK(c)'
    BY <1>7 DEF InsertRequest, Goto, LoopInv, LoopOK, TypeOK, Cur, Here
  <2> QED BY <1>7, <2>4, <2>5, LoopFrame DEF InsertRequest, Goto, TypeOK
<1>8. CASE WriteRequest(c)
  <2> DEFINE msg == [type |-> "req", id |-> fwd[c].id, method |-> Cur(c).method,
                     call |-> <<c, Here(c)>>, big |-> Cur(c).big]
  <2>1. /\ fwd[c].to \in Conn /\ fwd[c].id \in Ids
        /\ Cur(c) \in Call /\ rd[c] < Len(sent[c])
    BY <1>8 DEF WriteRequest, LoopInv, LoopOK, TypeOK, Target
  <2>2. msg \in Message
    BY <2>1, CurrentPacket DEF Message, Call
  <2>3. out' \in [Conn -> Seq(Message)]
    BY <1>8, <2>1, <2>2, SendingType DEF WriteRequest
  <2>4. UNCHANGED <<sent, up, routes, active, lastOutRequestsIndex, limit, fwd>>
    BY <1>8 DEF WriteRequest
  <2>5. CASE Finish(c) /\ UNCHANGED ans
    <3>1. TypeOK'
      BY <2>3, <2>4, <2>5 DEF Finish, Goto, TypeOK
    <3>2. LoopOK(c)'
      BY <2>4, <2>5 DEF Finish, Goto, LoopOK, TypeOK
    <3> QED BY <2>4, <2>5, <3>1, <3>2, LoopFrame DEF Finish, Goto, TypeOK
  <2>6. ASSUME NEW code \in Code,
               ans' = [ans EXCEPT ![c] = [to |-> c, id |-> Here(c), code |-> code,
                                         call |-> <<c, Here(c)>>, big |-> FALSE]],
               Goto(c, "undo"), UNCHANGED rd
        PROVE  TypeInv'
    <3>1. [to |-> c, id |-> Here(c), code |-> code, call |-> <<c, Here(c)>>,
           big |-> FALSE] \in Answer
      BY CurrentPacket DEF Answer
    <3>2. ans' \in [Conn -> Answer] /\ ans'[c].to = c
      BY <2>6, <3>1 DEF TypeOK
    <3>3. TypeOK'
      BY <2>3, <2>4, <2>6, <3>2 DEF Goto, TypeOK
    <3>4. LoopOK(c)'
      BY <2>1, <2>4, <2>6, <3>2 DEF Goto, LoopOK, TypeOK, Cur, Here
    <3> QED BY <2>4, <2>6, <3>3, <3>4, LoopFrame DEF Goto, TypeOK
  <2> QED BY <1>8, <2>5, <2>6 DEF WriteRequest, Code
<1>9. CASE UndoRequest(c)
  <2>1. active' \in [Conn -> [Ids -> Entry]]
    BY <1>9 DEF UndoRequest, TypeOK, Entry
  <2>2. TypeOK'
    BY <1>9, <2>1 DEF UndoRequest, Goto, TypeOK
  <2>3. LoopOK(c)'
    BY <1>9 DEF UndoRequest, Goto, LoopInv, LoopOK, TypeOK
  <2> QED BY <1>9, <2>2, <2>3, LoopFrame DEF UndoRequest, Goto, TypeOK
<1> QED BY <1>1, <1>2, <1>3, <1>4, <1>5, <1>6, <1>7, <1>8, <1>9 DEF Forward

(* Every step of an answer, and of the end of a connection, preserves the    *)
(* type invariant.                                                           *)
LEMMA AnswerType ==
    ASSUME TypeInv, NEW c \in Conn, HandleResponse(c) \/ SendReply(c)
    PROVE  TypeInv'
<1> USE DEF TypeInv, clientVars, tableVars, Steps, Calling, Directed, Sending
<1>1. CASE HandleResponse(c)
  <2>1. Cur(c) \in Response /\ rd[c] < Len(sent[c])
    BY <1>1, CurrentPacket, PacketKinds DEF HandleResponse, Incoming, Receive
  <2> DEFINE req == active[c][Cur(c).id]
  <2>2. req \in Entry /\ Cur(c).id \in Ids
    BY <2>1 DEF TypeOK, Response
  <2>3. CASE req = NoReq
    <3>1. TypeOK'
      BY <1>1, <2>3, FinishType DEF HandleResponse, TypeOK
    <3>2. LoopOK(c)'
      BY <1>1, <2>3 DEF HandleResponse, Finish, Goto, LoopOK, TypeOK
    <3> QED BY <1>1, <2>3, <3>1, <3>2, LoopFrame
            DEF HandleResponse, Finish, Goto, TypeOK
  <2>4. CASE req # NoReq
    <3> DEFINE new == [to |-> req.to, id |-> req.id, code |-> "peer",
                       call |-> Cur(c).call, big |-> Cur(c).big]
    <3>1. new \in Answer /\ new.to \in Conn
      BY <2>1, <2>2, <2>4 DEF Answer, Entry, Response, Code
    <3>2. /\ active' = [active EXCEPT ![c][Cur(c).id] = NoReq]
          /\ ans' = [ans EXCEPT ![c] = new]
          /\ pc' = [pc EXCEPT ![c] = "reply"]
          /\ UNCHANGED <<sent, up, out, routes, lastOutRequestsIndex, limit, fwd, rd>>
      BY <1>1, <2>4 DEF HandleResponse, Goto
    <3>3. active' \in [Conn -> [Ids -> Entry]]
      BY <3>2 DEF TypeOK, Entry
    <3>4. ans' \in [Conn -> Answer] /\ ans'[c].to \in Conn
      BY <3>1, <3>2 DEF TypeOK
    <3>5. TypeOK'
      BY <3>2, <3>3, <3>4 DEF TypeOK
    <3>6. LoopOK(c)'
      BY <2>1, <3>2, <3>4 DEF LoopOK, TypeOK
    <3> QED BY <3>2, <3>5, <3>6, LoopFrame DEF TypeOK
  <2> QED BY <2>3, <2>4
<1>2. CASE SendReply(c)
  <2> DEFINE a   == ans[c]
             msg == [type |-> "res", id |-> a.id, code |-> a.code,
                     call |-> a.call, big |-> a.big]
  <2>1. a.to \in Conn /\ rd[c] < Len(sent[c])
    BY <1>2 DEF SendReply, LoopInv, LoopOK
  <2>2. a \in [to : Conn, id : Nat, code : Code, call : CallId, big : BOOLEAN]
    BY <2>1, ConnAssumption DEF TypeOK, Answer, NoAns
  <2>3. msg \in Message
    BY <2>2 DEF Message
  <2>4. UNCHANGED <<sent, up, routes, active, lastOutRequestsIndex, limit, fwd>>
    BY <1>2 DEF SendReply
  <2>5. CASE (Written(a.to, msg) \/ WriteFails(a.to, msg)) /\ Finish(c) /\ UNCHANGED ans
    <3>1. out' \in [Conn -> Seq(Message)]
      BY <2>1, <2>3, <2>5, SendingType
    <3>2. TypeOK'
      BY <2>4, <2>5, <3>1, FinishType DEF TypeOK
    <3>3. LoopOK(c)'
      BY <2>4, <2>5 DEF Finish, Goto, LoopOK, TypeOK
    <3> QED BY <2>4, <2>5, <3>2, <3>3, LoopFrame DEF Finish, Goto, TypeOK
  <2>6. CASE /\ ans' = [ans EXCEPT ![c].code = "BufferLimitExceeded", ![c].big = FALSE]
             /\ UNCHANGED <<out, rd, pc>>
    <3>1. ans' \in [Conn -> Answer] /\ ans'[c].to = a.to
      BY <2>2, <2>6 DEF TypeOK, Answer, Code
    <3>2. TypeOK'
      BY <2>4, <2>6, <3>1 DEF TypeOK
    <3>3. LoopOK(c)'
      BY <1>2, <2>1, <2>4, <2>6, <3>1 DEF SendReply, LoopOK, TypeOK
    <3> QED BY <2>4, <2>6, <3>2, <3>3, LoopFrame DEF TypeOK
  <2> QED BY <1>2, <2>5, <2>6 DEF SendReply
<1> QED BY <1>1, <1>2

LEMMA EndType ==
    ASSUME TypeInv, NEW c \in Conn,
           SkipInvalid(c) \/ StopReading(c) \/ DropRoutes(c) \/ Close(c)
    PROVE  TypeInv'
<1> USE DEF TypeInv, clientVars, tableVars, SkipInvalid, StopReading, DropRoutes,
    Close
<1>1. routes' \in [Name -> Conn \cup {NoConn}]
  BY DEF removeMethodsFromConnection, TypeOK
<1>2. /\ rd' \in [Conn -> Nat]
      /\ pc' \in [Conn -> Steps]
      /\ pc'[c] \notin Calling \cup {"reply"}
      /\ \A d \in Conn : d # c => rd'[d] = rd[d] /\ pc'[d] = pc[d]
  BY FinishType DEF Goto, TypeOK, Steps, Calling, Directed, Sending
<1>3. TypeOK'
  BY <1>1, <1>2 DEF TypeOK
<1>4. LoopOK(c)'
  BY <1>2 DEF LoopOK, Calling, Directed, Sending
<1> QED BY <1>2, <1>3, <1>4, LoopFrame

LEMMA StepType == TypeInv /\ [Next]_vars => TypeInv'
<1> SUFFICES ASSUME TypeInv, [Next]_vars PROVE TypeInv'
  OBVIOUS
<1>1. CASE UNCHANGED vars
  BY <1>1 DEF vars, TypeInv, TypeOK, LoopInv, LoopOK, Cur, Here
<1>2. ASSUME NEW c \in Conn, connectionLoop(c) PROVE TypeInv'
  BY <1>2, ControlType, CallType, AnswerType, EndType DEF connectionLoop
<1> QED BY <1>1, <1>2, ClientType DEF Next

(* The state of the router is well formed in every behaviour: in particular  *)
(* every route, every pending answer and every forwarded call refers to a    *)
(* connection, and every request ID is within the counter's range.           *)
THEOREM TypeCorrect == Spec => []TypeOK
<1>1. Spec => []TypeInv
  BY InitType, StepType, PTL DEF Spec
<1> QED BY <1>1, PTL DEF TypeInv

-----------------------------------------------------------------------------
(***************************************************************************)
(* The registry.                                                            *)
(***************************************************************************)

(* What a step of c's goroutine may do to the routes: nothing (and then it   *)
(* does not enter the closing phase), add one free name, or drop names of    *)
(* its own (all of them when it enters the closing phase).                   *)
Untouched(c) == routes' = routes /\ (pc'[c] \in {"close", "closed"} => pc[c] = "close")
Claimed(c)   == /\ pc[c] = "idle" /\ pc'[c] = "reply"
                /\ \E m \in Name : /\ routes[m] = NoConn
                                   /\ routes' = [routes EXCEPT ![m] = c]
Dropped(c)   == /\ pc[c] # pc'[c]
                /\ \/ pc'[c] = "reply"
                   \/ pc'[c] = "close" /\ \A m \in Name : routes'[m] # c
                /\ \A m \in Name : \/ routes'[m] = routes[m]
                                   \/ routes[m] = c /\ routes'[m] = NoConn

LEMMA RouteSteps ==
    ASSUME TypeInv, NEW c \in Conn, connectionLoop(c)
    PROVE  /\ \A d \in Conn : d # c => pc'[d] = pc[d]
           /\ pc'[c] # "new"
           /\ Untouched(c) \/ Claimed(c) \/ Dropped(c)
<1> USE DEF TypeInv, clientVars, tableVars, loopVars
<1>1. pc \in [Conn -> Steps] /\ routes \in [Name -> Conn \cup {NoConn}]
  BY DEF TypeOK
<1>2. CASE HandleRegister(c)
  <2>1. Cur(c) \in Call /\ pc[c] = "idle"
    BY <1>2, CurrentPacket, PacketKinds DEF HandleRegister, Incoming, Receive
  <2>2. pc' = [pc EXCEPT ![c] = "reply"]
    BY <1>2 DEF HandleRegister, Reply, Goto
  <2>3. routes' = routes \/ (/\ routes[Cur(c).arg] = NoConn
                            /\ routes' = [routes EXCEPT ![Cur(c).arg] = c])
    BY <1>2 DEF HandleRegister, registerMethod
  <2> QED BY <1>1, <2>1, <2>2, <2>3 DEF Call, Untouched, Claimed
<1>3. CASE HandleUnregister(c)
  <2>1. Cur(c) \in Call /\ pc[c] = "idle"
    BY <1>3, CurrentPacket, PacketKinds DEF HandleUnregister, Incoming, Receive
  <2>2. pc' = [pc EXCEPT ![c] = "reply"]
    BY <1>3 DEF HandleUnregister, Reply, Goto
  <2>3. routes' = routes \/ (/\ routes[Cur(c).arg] = c
                            /\ routes' = [routes EXCEPT ![Cur(c).arg] = NoConn])
    BY <1>3 DEF HandleUnregister, removeSingleMethodFromConnection
  <2> QED BY <1>1, <2>1, <2>2, <2>3 DEF Call, Untouched, Dropped
<1>4. CASE HandleReset(c)
  <2>1. pc[c] = "idle" /\ pc' = [pc EXCEPT ![c] = "reply"]
    BY <1>4 DEF HandleReset, Reply, Goto, Incoming, Receive
  <2>2. routes' = routes \/ removeMethodsFromConnection(c)
    BY <1>4 DEF HandleReset
  <2> QED BY <1>1, <2>1, <2>2 DEF removeMethodsFromConnection, Untouched, Dropped
<1>5. CASE DropRoutes(c)
  <2>1. pc[c] = "drop" /\ pc' = [pc EXCEPT ![c] = "close"]
    BY <1>5 DEF DropRoutes, Goto
  <2>2. removeMethodsFromConnection(c)
    BY <1>5 DEF DropRoutes
  <2> QED BY <1>1, <2>1, <2>2, ConnAssumption
          DEF removeMethodsFromConnection, Dropped
<1>6. CASE Close(c)
  BY <1>1, <1>6 DEF Close, Goto, Untouched
<1>7. CASE HandleSetMaxMsgSize(c) \/ NotifySetMaxMsgSize(c)
  BY <1>1, <1>7 DEF HandleSetMaxMsgSize, NotifySetMaxMsgSize, Reply, Finish, Goto,
     Untouched
<1>8. CASE CallInternal(c) \/ InternalReturns(c)
  BY <1>1, <1>8 DEF CallInternal, InternalReturns, Reply, Finish, Goto, Untouched
<1>9. CASE LookupRoute(c) \/ WriteNotification(c)
  BY <1>1, <1>9 DEF LookupRoute, WriteNotification, Reply, Finish, Goto, Untouched
<1>10. CASE AllocId(c) \/ InsertRequest(c) \/ UndoRequest(c)
  BY <1>1, <1>10 DEF AllocId, InsertRequest, UndoRequest, Goto, Untouched
<1>11. CASE WriteRequest(c)
  BY <1>1, <1>11 DEF WriteRequest, Finish, Goto, Untouched
<1>12. CASE HandleResponse(c) \/ SendReply(c)
  BY <1>1, <1>12 DEF HandleResponse, SendReply, Finish, Goto, Untouched
<1>13. CASE SkipInvalid(c) \/ StopReading(c)
  BY <1>1, <1>13 DEF SkipInvalid, StopReading, Finish, Goto, Untouched
<1> QED BY <1>2, <1>3, <1>4, <1>5, <1>6, <1>7, <1>8, <1>9, <1>10, <1>11, <1>12, <1>13
        DEF connectionLoop, ControlCall, Forward

LEMMA ClientRoutes ==
    ASSUME TypeInv, NEW c \in Conn, Client(c)
    PROVE  /\ routes' = routes
           /\ \/ pc' = pc
              \/ pc[c] = "new" /\ pc' = [pc EXCEPT ![c] = "idle"]
BY DEF Client, Accept, ClientSend, ClientRespond, Disconnect, Send, loopVars

(***************************************************************************)
(* A route leads to a connection whose goroutine is between Accept and      *)
(* removeMethodsFromConnection.  NoStaleRoute alone would do as an          *)
(* invariant; "new" is excluded as well because a route cannot precede its  *)
(* connection.                                                              *)
(***************************************************************************)
RouteInv == \A m \in Name : routes[m] # NoConn =>
                pc[routes[m]] \notin {"new", "close", "closed"}

LEMMA StepRoutes == TypeInv /\ RouteInv /\ [Next]_vars => RouteInv'
<1> SUFFICES ASSUME TypeInv, RouteInv, [Next]_vars PROVE RouteInv'
  OBVIOUS
<1>1. pc \in [Conn -> Steps] /\ routes \in [Name -> Conn \cup {NoConn}]
  BY DEF TypeInv, TypeOK
<1>2. CASE UNCHANGED vars
  BY <1>2 DEF vars, RouteInv
<1>3. ASSUME NEW c \in Conn, Client(c) PROVE RouteInv'
  BY <1>1, <1>3, ClientRoutes DEF RouteInv
<1>4. ASSUME NEW c \in Conn, connectionLoop(c) PROVE RouteInv'
  <2>1. \A d \in Conn : d # c => pc'[d] = pc[d]
    BY <1>4, RouteSteps
  <2>2. CASE Untouched(c)
    BY <1>1, <1>4, <2>1, <2>2, RouteSteps DEF RouteInv, Untouched
  <2>3. CASE Claimed(c)
    BY <1>1, <2>1, <2>3 DEF RouteInv, Claimed
  <2>4. CASE Dropped(c)
    BY <1>1, <2>1, <2>4 DEF RouteInv, Dropped
  <2> QED BY <1>4, <2>2, <2>3, <2>4, RouteSteps
<1> QED BY <1>2, <1>3, <1>4 DEF Next

(* No route ever leads to a connection the router has finished with.         *)
THEOREM RoutesAreLive == Spec => []NoStaleRoute
<1>1. Init => RouteInv
  BY DEF Init, NewConnection, RouteInv
<1>2. Init => TypeInv
  BY InitType
<1>3. Spec => [](TypeInv /\ RouteInv)
  BY <1>1, <1>2, StepType, StepRoutes, PTL DEF Spec
<1>4. RouteInv => NoStaleRoute
  BY DEF RouteInv, NoStaleRoute
<1> QED BY <1>3, <1>4, PTL

(* A route is claimed or dropped only by the goroutine of the connection it  *)
(* belongs to, and never passes directly from one client to another.         *)
THEOREM RoutesMoveByOwner == Spec => RouteMovesByOwner
<1> DEFINE Moves == \A m \in Name : routes'[m] # routes[m] =>
              \E c \in Conn : /\ {routes[m], routes'[m]} = {NoConn, c}
                             /\ pc'[c] # pc[c]
<1>1. TypeInv /\ [Next]_vars => [Moves]_vars
  <2> SUFFICES ASSUME TypeInv, Next PROVE Moves
    OBVIOUS
  <2>1. ASSUME NEW c \in Conn, Client(c) PROVE Moves
    BY <2>1, ClientRoutes
  <2>2. ASSUME NEW c \in Conn, connectionLoop(c) PROVE Moves
    <3>1. routes \in [Name -> Conn \cup {NoConn}]
      BY DEF TypeInv, TypeOK
    <3>2. CASE Untouched(c)
      BY <3>2 DEF Untouched
    <3>3. CASE Claimed(c)
      BY <3>1, <3>3 DEF Claimed
    <3>4. CASE Dropped(c)
      BY <3>1, <3>4 DEF Dropped
    <3> QED BY <2>2, <3>2, <3>3, <3>4, RouteSteps
  <2> QED BY <2>1, <2>2 DEF Next
<1>2. Spec => []TypeInv
  BY InitType, StepType, PTL DEF Spec
<1> QED BY <1>1, <1>2, PTL DEF Spec, RouteMovesByOwner

-----------------------------------------------------------------------------
(***************************************************************************)
(* The remapping of message IDs.  That every answer reaches its request is  *)
(* not inductive: it rests on who may hold an ID.  A goroutine between      *)
(* taking an ID and writing the request is its only holder, nobody has been *)
(* sent a request under that ID yet, and so nobody can answer it; an entry  *)
(* of activeOutRequests agrees with the request sent under its ID; and a    *)
(* client answers what it was sent.                                         *)
(***************************************************************************)
IsReq(msg) == msg.type = "req"

HeldIds ==
    \A c \in Conn : pc[c] \in Sending =>
        /\ fwd[c].id <= lastOutRequestsIndex[fwd[c].to]
        /\ \A d \in Conn : /\ d # c /\ pc[d] \in Sending
                           /\ fwd[d].to = fwd[c].to
                           => fwd[d].id # fwd[c].id
        /\ \A i \in DOMAIN out[fwd[c].to] :
               IsReq(out[fwd[c].to][i]) => out[fwd[c].to][i].id # fwd[c].id

UsedIds ==
    \A d \in Conn : \A i \in DOMAIN out[d] :
        IsReq(out[d][i]) => out[d][i].id <= lastOutRequestsIndex[d]

StoredEntry ==
    \A c \in Conn : pc[c] = "write" =>
        active[fwd[c].to][fwd[c].id] = [to |-> c, id |-> Here(c)]

EntriesMatch ==
    \A d \in Conn : \A i \in DOMAIN out[d] :
        IsReq(out[d][i]) =>
            LET e == active[d][out[d][i].id]
            IN  e # NoReq => out[d][i].call = <<e.to, e.id>>

AnswersMatch ==
    \A d \in Conn : \A n \in DOMAIN sent[d] :
        IsRes(sent[d][n]) =>
            \E i \in DOMAIN out[d] : /\ IsReq(out[d][i])
                                    /\ out[d][i].id = sent[d][n].id
                                    /\ out[d][i].call = sent[d][n].call

RepliesMatch ==
    \A c \in Conn : pc[c] \in {"reply", "undo"} =>
        ans[c].call = <<ans[c].to, ans[c].id>>

DeliveredMatch ==
    \A c \in Conn : \A i \in DOMAIN out[c] :
        IsRes(out[c][i]) => out[c][i].call = <<c, out[c][i].id>>

MapInv == HeldIds /\ UsedIds /\ StoredEntry /\ EntriesMatch /\ AnswersMatch
          /\ RepliesMatch /\ DeliveredMatch

RemapInv == NoWrap => MapInv

(* The messages delivered only grow, by msg to d if at all.                  *)
Grows(d, msg) ==
    \A e \in Conn :
        /\ \A i \in DOMAIN out[e] : i \in DOMAIN out'[e] /\ out'[e][i] = out[e][i]
        /\ \A i \in DOMAIN out'[e] : i \in DOMAIN out[e] \/ (e = d /\ out'[e][i] = msg)

LEMMA SendGrows ==
    ASSUME TypeOK, NEW d \in Conn, NEW msg \in Message,
           Written(d, msg) \/ WriteFails(d, msg) \/ UNCHANGED out
    PROVE  Grows(d, msg)
<1>1. CASE UNCHANGED out
  BY <1>1 DEF Grows
<1>2. CASE Deliver(d, msg)
  <2>1. out[d] \in Seq(Message) /\ out'[d] = Append(out[d], msg)
    BY <1>2 DEF Deliver, TypeOK
  <2>2. /\ DOMAIN out[d] = 1 .. Len(out[d])
        /\ DOMAIN out'[d] = 1 .. (Len(out[d]) + 1)
        /\ Len(out[d]) \in Nat
    BY <2>1
  <2>3. \A i \in 1 .. Len(out[d]) : out'[d][i] = out[d][i]
    BY <2>1, AppendKeeps
  <2>4. out'[d][Len(out[d]) + 1] = msg
    BY <2>1, AppendKeeps
  <2>5. \A e \in Conn : e # d => out'[e] = out[e]
    BY <1>2 DEF Deliver, TypeOK
  <2> QED BY <2>2, <2>3, <2>4, <2>5 DEF Grows
<1> QED BY <1>1, <1>2 DEF Written, WriteFails

(* The locals of the goroutines other than c are unchanged.                  *)
OthersIdle(c) == \A d \in Conn : d # c => /\ rd'[d] = rd[d] /\ pc'[d] = pc[d]
                                         /\ fwd'[d] = fwd[d] /\ ans'[d] = ans[d]

(* A step of c that touches no table and delivers at most one response or    *)
(* notification preserves the invariant if what it delivers, or is about to  *)
(* answer, is right.                                                         *)
LEMMA QuietMap ==
    ASSUME MapInv, NEW c \in Conn, NEW d \in Conn, NEW msg, Grows(d, msg),
           ~IsReq(msg), IsRes(msg) => msg.call = <<d, msg.id>>,
           UNCHANGED <<sent, active, lastOutRequestsIndex>>,
           OthersIdle(c), pc'[c] \notin Sending,
           pc'[c] = "reply" => ans'[c].call = <<ans'[c].to, ans'[c].id>>,
           TypeInv
    PROVE  MapInv'
<1> USE DEF MapInv, OthersIdle
<1>1. \A e \in Conn : pc[e] \in Sending => fwd[e].to \in Conn
  BY DEF TypeInv, LoopInv, LoopOK, Directed
<1>2. HeldIds'
  <2> SUFFICES ASSUME NEW e \in Conn, pc'[e] \in Sending
               PROVE  /\ fwd'[e].id <= lastOutRequestsIndex[fwd'[e].to]
                      /\ \A f \in Conn : /\ f # e /\ pc'[f] \in Sending
                                         /\ fwd'[f].to = fwd'[e].to
                                         => fwd'[f].id # fwd'[e].id
                      /\ \A i \in DOMAIN out'[fwd'[e].to] :
                             IsReq(out'[fwd'[e].to][i])
                             => out'[fwd'[e].to][i].id # fwd'[e].id
    BY DEF HeldIds
  <2>1. e # c /\ pc[e] \in Sending /\ fwd'[e] = fwd[e] /\ fwd[e].to \in Conn
    BY <1>1
  <2>2. \A f \in Conn : pc'[f] \in Sending => pc[f] \in Sending /\ fwd'[f] = fwd[f]
    OBVIOUS
  <2>3. \A i \in DOMAIN out'[fwd[e].to] :
            IsReq(out'[fwd[e].to][i])
            => i \in DOMAIN out[fwd[e].to] /\ out'[fwd[e].to][i] = out[fwd[e].to][i]
    BY <2>1 DEF Grows
  <2>4. \A i \in DOMAIN out'[fwd[e].to] :
            IsReq(out'[fwd[e].to][i]) => out'[fwd[e].to][i].id # fwd[e].id
    BY <2>1, <2>3 DEF HeldIds
  <2>5. fwd[e].id <= lastOutRequestsIndex[fwd[e].to]
    BY <2>1 DEF HeldIds
  <2>6. \A f \in Conn : f # e /\ pc[f] \in Sending /\ fwd[f].to = fwd[e].to
                       => fwd[f].id # fwd[e].id
    BY <2>1 DEF HeldIds
  <2> QED  BY <2>1, <2>2, <2>4, <2>5, <2>6
<1>3. UsedIds'
  BY DEF UsedIds, Grows
<1>4. StoredEntry'
  BY DEF StoredEntry, Sending, Here
<1>5. EntriesMatch'
  BY DEF EntriesMatch, Grows
<1>6. AnswersMatch'
  BY DEF AnswersMatch, Grows
<1>7. RepliesMatch'
  BY DEF RepliesMatch, Sending
<1>8. DeliveredMatch'
  BY DEF DeliveredMatch, Grows
<1> QED BY <1>2, <1>3, <1>4, <1>5, <1>6, <1>7, <1>8

(* The invariant does not depend on the other variables.                     *)
LEMMA SameMap ==
    ASSUME MapInv,
           UNCHANGED <<sent, out, active, lastOutRequestsIndex, rd, pc, fwd, ans>>
    PROVE  MapInv'
<1>1. HeldIds' /\ UsedIds'
  BY DEF MapInv, HeldIds, UsedIds
<1>2. StoredEntry' /\ EntriesMatch'
  BY DEF MapInv, StoredEntry, EntriesMatch, Here
<1>3. AnswersMatch' /\ RepliesMatch' /\ DeliveredMatch'
  BY DEF MapInv, AnswersMatch, RepliesMatch, DeliveredMatch
<1> QED BY <1>1, <1>2, <1>3 DEF MapInv

(* Sending a packet that is no response, or answers a received request.      *)
LEMMA SendMap ==
    ASSUME TypeInv, MapInv, NEW c \in Conn, NEW q \in Packet, Send(c, q),
           IsRes(q) => \E i \in DOMAIN out[c] : /\ IsReq(out[c][i])
                                              /\ out[c][i].id = q.id
                                              /\ out[c][i].call = q.call
    PROVE  MapInv'
<1>1. UNCHANGED <<out, active, lastOutRequestsIndex, rd, pc, fwd, ans>>
  BY DEF Send, loopVars, tableVars
<1>2. \A d \in Conn : \A n \in DOMAIN sent'[d] :
         (n \in DOMAIN sent[d] /\ sent'[d][n] = sent[d][n]) \/ (d = c /\ sent'[d][n] = q)
  <2>1. sent[c] \in Seq(Packet) /\ sent'[c] = Append(sent[c], q)
    BY DEF Send, TypeInv, TypeOK
  <2>2. /\ DOMAIN sent[c] = 1 .. Len(sent[c])
        /\ DOMAIN sent'[c] = 1 .. (Len(sent[c]) + 1)
        /\ Len(sent[c]) \in Nat
    BY <2>1
  <2>3. \A n \in 1 .. Len(sent[c]) : sent'[c][n] = sent[c][n]
    BY <2>1, AppendKeeps
  <2>4. sent'[c][Len(sent[c]) + 1] = q
    BY <2>1, AppendKeeps
  <2>5. \A d \in Conn : d # c => sent'[d] = sent[d]
    BY DEF Send, TypeInv, TypeOK
  <2> QED BY <2>2, <2>3, <2>4, <2>5
<1>3. AnswersMatch'
  BY <1>1, <1>2 DEF AnswersMatch, MapInv
<1> QED BY <1>1, <1>3 DEF MapInv, HeldIds, UsedIds, StoredEntry, EntriesMatch,
        RepliesMatch, DeliveredMatch, Here

LEMMA ClientMap ==
    ASSUME TypeInv, MapInv, NEW c \in Conn, Client(c)
    PROVE  MapInv'
<1>1. CASE Accept(c) \/ Disconnect(c)
  <2> DEFINE nothing == [type |-> "none"]
  <2>1. Grows(c, nothing) /\ ~IsReq(nothing) /\ ~IsRes(nothing)
    BY <1>1 DEF Accept, Disconnect, Grows, IsReq, IsRes
  <2>2. OthersIdle(c) /\ UNCHANGED <<sent, out, active, lastOutRequestsIndex>>
    BY <1>1 DEF Accept, Disconnect, OthersIdle, tableVars, loopVars, TypeInv, TypeOK
  <2>3. CASE Accept(c)
    <3>1. pc'[c] = "idle"
      BY <2>3 DEF Accept, TypeInv, TypeOK
    <3> HIDE DEF nothing
    <3> QED BY <2>1, <2>2, <3>1, QuietMap DEF Sending
  <2>4. CASE Disconnect(c)
    BY <2>4, SameMap DEF Disconnect, loopVars, tableVars
  <2> QED BY <1>1, <2>3, <2>4
<1>2. CASE ClientSend(c)
  <2>1. PICK q \in Offer[c] : Send(c, q)
    BY <1>2 DEF ClientSend
  <2>2. q \in Packet /\ ~IsRes(q)
    BY OfferAssumption DEF Packet, Call, Junk, IsRes
  <2> QED BY <2>1, <2>2, SendMap
<1>3. CASE ClientRespond(c)
  <2>1. PICK i \in DOMAIN out[c], b \in Sizes :
           /\ out[c][i].type = "req"
           /\ Send(c, [type |-> "res", id |-> out[c][i].id,
                       call |-> out[c][i].call, big |-> b])
    BY <1>3 DEF ClientRespond
  <2> DEFINE q == [type |-> "res", id |-> out[c][i].id, call |-> out[c][i].call,
                   big |-> b]
  <2>2. out[c][i] \in Message
    BY DEF TypeInv, TypeOK
  <2>3. q \in Packet
    BY <2>1, <2>2, BoundAssumption DEF Message, Packet, Response
  <2>4. IsReq(out[c][i]) /\ out[c][i].id = q.id /\ out[c][i].call = q.call
    BY <2>1 DEF IsReq
  <2>5. Send(c, q)
    BY <2>1
  <2> HIDE DEF q
  <2> QED BY <2>3, <2>4, <2>5, SendMap
<1> QED BY <1>1, <1>2, <1>3 DEF Client

(* A step that delivers nothing and only moves c's goroutine.                *)
LEMMA SilentMap ==
    ASSUME TypeInv, MapInv, NEW c \in Conn,
           UNCHANGED <<sent, out, active, lastOutRequestsIndex>>,
           OthersIdle(c), pc'[c] \notin Sending,
           pc'[c] = "reply" => ans'[c].call = <<ans'[c].to, ans'[c].id>>
    PROVE  MapInv'
<1> DEFINE nothing == [type |-> "none"]
<1>1. Grows(c, nothing) /\ ~IsReq(nothing) /\ ~IsRes(nothing)
  BY DEF Grows, IsReq, IsRes
<1> HIDE DEF nothing
<1> QED BY <1>1, QuietMap

(* fwdRes called with an answer to c's own request.                          *)
LEMMA ReplyMap ==
    ASSUME TypeInv, MapInv, NEW c \in Conn, NEW code, NEW big, Reply(c, code, big),
           UNCHANGED <<sent, out, active, lastOutRequestsIndex, rd, fwd>>
    PROVE  MapInv'
<1>1. pc' = [pc EXCEPT ![c] = "reply"]
  BY DEF Reply, Goto
<1>2. /\ ans'[c].call = <<ans'[c].to, ans'[c].id>>
      /\ \A d \in Conn : d # c => ans'[d] = ans[d]
  BY DEF Reply, TypeInv, TypeOK
<1>3. OthersIdle(c) /\ pc'[c] = "reply"
  BY <1>1, <1>2 DEF OthersIdle, TypeInv, TypeOK
<1> QED BY <1>2, <1>3, SilentMap DEF Sending

(* Going back for the next packet without answering.                         *)
LEMMA FinishMap ==
    ASSUME TypeInv, MapInv, NEW c \in Conn, Finish(c),
           UNCHANGED <<sent, out, active, lastOutRequestsIndex, fwd, ans>>
    PROVE  MapInv'
<1>1. OthersIdle(c) /\ pc'[c] = "idle"
  BY FinishType DEF OthersIdle, TypeInv
<1> QED BY <1>1, SilentMap DEF Sending

LEMMA LocalMap ==
    ASSUME TypeInv, MapInv, NEW c \in Conn,
           ControlCall(c) \/ CallInternal(c) \/ InternalReturns(c) \/ LookupRoute(c)
           \/ SkipInvalid(c) \/ StopReading(c) \/ DropRoutes(c) \/ Close(c)
    PROVE  MapInv'
<1> USE DEF clientVars, tableVars
<1>1. CASE HandleRegister(c) \/ HandleUnregister(c) \/ HandleReset(c)
           \/ HandleSetMaxMsgSize(c)
  <2>1. \E code : Reply(c, code, FALSE)
    BY <1>1 DEF HandleRegister, HandleUnregister, HandleReset, HandleSetMaxMsgSize
  <2>2. UNCHANGED <<sent, out, active, lastOutRequestsIndex, rd, fwd>>
    BY <1>1 DEF HandleRegister, HandleUnregister, HandleReset, HandleSetMaxMsgSize
  <2> QED BY <2>1, <2>2, ReplyMap
<1>2. CASE NotifySetMaxMsgSize(c) \/ SkipInvalid(c)
  BY <1>2, FinishMap DEF NotifySetMaxMsgSize, SkipInvalid
<1>3. CASE InternalReturns(c)
  BY <1>3, ReplyMap, FinishMap DEF InternalReturns
<1>4. CASE CallInternal(c) \/ StopReading(c) \/ DropRoutes(c) \/ Close(c)
  <2>1. UNCHANGED <<sent, out, active, lastOutRequestsIndex, rd, fwd, ans>>
    BY <1>4 DEF CallInternal, StopReading, DropRoutes, Close
  <2>2. \E step \in {"internal", "drop", "close", "closed"} : Goto(c, step)
    BY <1>4 DEF CallInternal, StopReading, DropRoutes, Close
  <2>3. OthersIdle(c) /\ pc'[c] \in {"internal", "drop", "close", "closed"}
    BY <2>1, <2>2 DEF Goto, OthersIdle, TypeInv, TypeOK
  <2> QED BY <2>1, <2>3, SilentMap DEF Sending
<1>5. CASE LookupRoute(c)
  <2>1. UNCHANGED <<sent, out, active, lastOutRequestsIndex>>
    BY <1>5 DEF LookupRoute
  <2>2. CASE getConnectionForMethod(Cur(c).method) # NoConn
    <3>1. OthersIdle(c) /\ pc'[c] \in {"alloc", "notify"}
      BY <1>5, <2>2 DEF LookupRoute, Goto, OthersIdle, TypeInv, TypeOK
    <3> QED BY <2>1, <3>1, SilentMap DEF Sending
  <2>3. CASE getConnectionForMethod(Cur(c).method) = NoConn
    BY <1>5, <2>1, <2>3, ReplyMap, FinishMap DEF LookupRoute
  <2> QED BY <2>2, <2>3
<1> QED BY <1>1, <1>2, <1>3, <1>4, <1>5 DEF ControlCall

(* Delivering a notification, or the answer of fwdRes.                       *)
LEMMA DeliveryMap ==
    ASSUME TypeInv, MapInv, NEW c \in Conn, WriteNotification(c) \/ SendReply(c)
    PROVE  MapInv'
<1> USE DEF clientVars, tableVars
<1>1. CASE WriteNotification(c)
  <2> DEFINE msg == [type |-> "not", method |-> Cur(c).method,
                     call |-> <<c, Here(c)>>, big |-> Cur(c).big]
  <2>1. fwd[c].to \in Conn /\ Cur(c) \in Call
    BY <1>1 DEF WriteNotification, TypeInv, LoopInv, LoopOK, Directed, Calling
  <2>2. msg \in Message /\ ~IsReq(msg) /\ ~IsRes(msg)
    BY <2>1, CurrentPacket DEF Message, Call, TypeInv, IsReq, IsRes
  <2>3. Grows(fwd[c].to, msg)
    BY <1>1, <2>1, <2>2, SendGrows DEF WriteNotification, TypeInv
  <2>4. /\ OthersIdle(c) /\ pc'[c] = "idle"
        /\ UNCHANGED <<sent, active, lastOutRequestsIndex>>
    BY <1>1, FinishType DEF WriteNotification, OthersIdle, TypeInv
  <2> HIDE DEF msg
  <2> QED BY <2>1, <2>2, <2>3, <2>4, QuietMap DEF Sending
<1>2. CASE SendReply(c)
  <2> DEFINE a   == ans[c]
             msg == [type |-> "res", id |-> a.id, code |-> a.code,
                     call |-> a.call, big |-> a.big]
  <2>1. a.to \in Conn /\ pc[c] = "reply"
    BY <1>2 DEF SendReply, TypeInv, LoopInv, LoopOK
  <2>2. a \in [to : Conn, id : Nat, code : Code, call : CallId, big : BOOLEAN]
    BY <2>1, ConnAssumption DEF TypeInv, TypeOK, Answer, NoAns
  <2>3. a.call = <<a.to, a.id>>
    BY <2>1 DEF MapInv, RepliesMatch
  <2>4. msg \in Message /\ ~IsReq(msg) /\ msg.call = <<a.to, msg.id>>
    BY <2>2, <2>3 DEF Message, IsReq
  <2>5. UNCHANGED <<sent, active, lastOutRequestsIndex, fwd>>
    BY <1>2 DEF SendReply
  <2>6. CASE /\ Written(a.to, msg) \/ WriteFails(a.to, msg)
             /\ Finish(c)
             /\ UNCHANGED ans
    <3>1. Grows(a.to, msg)
      BY <2>1, <2>4, <2>6, SendGrows DEF TypeInv
    <3>2. OthersIdle(c) /\ pc'[c] = "idle"
      BY <2>5, <2>6, FinishType DEF OthersIdle, TypeInv
    <3> HIDE DEF msg
    <3> QED BY <2>1, <2>4, <2>5, <3>1, <3>2, QuietMap DEF Sending
  <2>7. CASE /\ ans' = [ans EXCEPT ![c].code = "BufferLimitExceeded", ![c].big = FALSE]
             /\ UNCHANGED <<out, rd, pc>>
    <3>1. ans'[c].call = a.call /\ ans'[c].to = a.to /\ ans'[c].id = a.id
      BY <2>2, <2>7 DEF TypeInv, TypeOK
    <3>2. OthersIdle(c) /\ pc'[c] = "reply"
      BY <2>1, <2>5, <2>7 DEF OthersIdle, TypeInv, TypeOK
    <3> QED BY <2>3, <2>5, <2>7, <3>1, <3>2, SilentMap DEF Sending
  <2> QED BY <1>2, <2>6, <2>7 DEF SendReply
<1> QED BY <1>1, <1>2

(* Taking an ID: the new one is above all that were ever used.               *)
LEMMA AllocMap ==
    ASSUME TypeInv, MapInv, NoWrap', NEW c \in Conn, AllocId(c)
    PROVE  MapInv'
<1> DEFINE d == fwd[c].to
           k == lastOutRequestsIndex[d] + 1
<1>1. d \in Conn /\ pc[c] = "alloc"
  BY DEF AllocId, TypeInv, LoopInv, LoopOK, Directed
<1>2. /\ lastOutRequestsIndex' = [lastOutRequestsIndex EXCEPT ![d] = k]
      /\ fwd' = [fwd EXCEPT ![c].id = NextId(d)]
      /\ pc' = [pc EXCEPT ![c] = "insert"]
      /\ UNCHANGED <<sent, rd, out, active, ans>>
  BY DEF AllocId, Goto, clientVars
<1>3. k \in Nat /\ k < IdMod
  BY <1>1, <1>2 DEF NoWrap, TypeInv, TypeOK
<1>4. NextId(d) = k
  BY <1>3, IdModAssumption DEF NextId
<1>5. /\ \A e \in Conn : lastOutRequestsIndex[e] \in Nat
      /\ \A e \in Conn : lastOutRequestsIndex'[e] \in Nat
      /\ \A e \in Conn : lastOutRequestsIndex[e] <= lastOutRequestsIndex'[e]
      /\ lastOutRequestsIndex'[d] = k
  BY <1>1, <1>2, <1>3 DEF TypeInv, TypeOK
<1>6. /\ fwd'[c].to = d /\ fwd'[c].id = k /\ pc'[c] = "insert"
      /\ \A e \in Conn : e # c => fwd'[e] = fwd[e] /\ pc'[e] = pc[e]
  BY <1>2, <1>4 DEF TypeInv, TypeOK, Target
<1>7. \A e \in Conn : pc[e] \in Sending => fwd[e].to \in Conn /\ fwd[e].id \in Nat
  BY IdModAssumption DEF TypeInv, TypeOK, LoopInv, LoopOK, Directed, Target, Ids
<1>8. \A e \in Conn : \A i \in DOMAIN out[e] :
         IsReq(out[e][i]) => /\ out[e][i].id \in Nat
                             /\ out[e][i].id <= lastOutRequestsIndex[e]
  <2> SUFFICES ASSUME NEW e \in Conn, NEW i \in DOMAIN out[e], IsReq(out[e][i])
               PROVE  /\ out[e][i].id \in Nat
                      /\ out[e][i].id <= lastOutRequestsIndex[e]
    OBVIOUS
  <2>1. out[e][i] \in Message
    BY DEF TypeInv, TypeOK
  <2> QED BY <2>1, IdModAssumption DEF Message, Ids, IsReq, MapInv, UsedIds
<1> HIDE DEF d, k
<1>9. \A e \in Conn : e # c /\ pc[e] \in Sending /\ fwd[e].to = d => fwd[e].id < k
  BY <1>5, <1>7 DEF MapInv, HeldIds, k
<1>10. \A i \in DOMAIN out[d] : IsReq(out[d][i]) => out[d][i].id < k
  BY <1>1, <1>5, <1>8 DEF k
<1>11. HeldIds'
  <2> SUFFICES ASSUME NEW e \in Conn, pc'[e] \in Sending
               PROVE  /\ fwd'[e].id <= lastOutRequestsIndex'[fwd'[e].to]
                      /\ \A f \in Conn : /\ f # e /\ pc'[f] \in Sending
                                         /\ fwd'[f].to = fwd'[e].to
                                         => fwd'[f].id # fwd'[e].id
                      /\ \A i \in DOMAIN out[fwd'[e].to] :
                            IsReq(out[fwd'[e].to][i]) => out[fwd'[e].to][i].id # fwd'[e].id
    BY <1>2 DEF HeldIds
  <2>1. CASE e = c
    <3>1. fwd'[e].id <= lastOutRequestsIndex'[fwd'[e].to]
      BY <1>3, <1>5, <1>6, <2>1
    <3>2. \A f \in Conn : f # e /\ pc'[f] \in Sending /\ fwd'[f].to = fwd'[e].to
                         => fwd'[f].id # fwd'[e].id
      BY <1>3, <1>6, <1>7, <1>9, <2>1
    <3>3. \A i \in DOMAIN out[fwd'[e].to] :
             IsReq(out[fwd'[e].to][i]) => out[fwd'[e].to][i].id # fwd'[e].id
      BY <1>1, <1>3, <1>6, <1>8, <1>10, <2>1
    <3> QED BY <3>1, <3>2, <3>3
  <2>2. CASE e # c
    <3>0. pc[e] \in Sending /\ fwd'[e] = fwd[e]
      BY <1>6, <2>2
    <3>1. fwd'[e].id <= lastOutRequestsIndex'[fwd'[e].to]
      <4>1. fwd[e].id <= lastOutRequestsIndex[fwd[e].to]
        BY <3>0 DEF MapInv, HeldIds
      <4> QED BY <1>5, <1>7, <3>0, <4>1
    <3>2. \A f \in Conn : f # e /\ pc'[f] \in Sending /\ fwd'[f].to = fwd'[e].to
                         => fwd'[f].id # fwd'[e].id
      <4> SUFFICES ASSUME NEW f \in Conn, f # e, pc'[f] \in Sending,
                          fwd'[f].to = fwd'[e].to
                   PROVE  fwd'[f].id # fwd'[e].id
        OBVIOUS
      <4>1. CASE f = c
        BY <1>3, <1>6, <1>7, <1>9, <2>2, <3>0, <4>1
      <4>2. CASE f # c
        BY <1>6, <3>0, <4>2 DEF MapInv, HeldIds
      <4> QED BY <4>1, <4>2
    <3>3. \A i \in DOMAIN out[fwd'[e].to] :
             IsReq(out[fwd'[e].to][i]) => out[fwd'[e].to][i].id # fwd'[e].id
      BY <3>0 DEF MapInv, HeldIds
    <3> QED BY <3>1, <3>2, <3>3
  <2> QED BY <2>1, <2>2
<1>12. UsedIds'
  <2> SUFFICES ASSUME NEW e \in Conn, NEW i \in DOMAIN out[e], IsReq(out[e][i])
               PROVE  out[e][i].id <= lastOutRequestsIndex'[e]
    BY <1>2 DEF UsedIds
  <2> QED BY <1>5, <1>8
<1>13. StoredEntry'
  BY <1>2, <1>6 DEF MapInv, StoredEntry, Here
<1>14. EntriesMatch' /\ AnswersMatch' /\ DeliveredMatch'
  BY <1>2 DEF MapInv, EntriesMatch, AnswersMatch, DeliveredMatch
<1>15. RepliesMatch'
  BY <1>2, <1>6 DEF MapInv, RepliesMatch
<1> QED BY <1>11, <1>12, <1>13, <1>14, <1>15 DEF MapInv

(* Storing the entry: nobody has been sent a request under this ID.          *)
LEMMA InsertMap ==
    ASSUME TypeInv, MapInv, NEW c \in Conn, InsertRequest(c)
    PROVE  MapInv'
<1> DEFINE d == fwd[c].to
           k == fwd[c].id
<1>1. d \in Conn /\ k \in Ids /\ pc[c] \in Sending
  BY DEF InsertRequest, TypeInv, LoopInv, LoopOK, Directed, Sending, TypeOK, Target
<1>2. /\ active' = [active EXCEPT ![d][k] = [to |-> c, id |-> Here(c)]]
      /\ pc' = [pc EXCEPT ![c] = "write"]
      /\ UNCHANGED <<sent, rd, out, lastOutRequestsIndex, fwd, ans>>
  BY DEF InsertRequest, Goto, clientVars
<1>3. /\ pc'[c] = "write"
      /\ \A e \in Conn : e # c => pc'[e] = pc[e]
      /\ \A e \in Conn : pc'[e] \in Sending <=> pc[e] \in Sending
  BY <1>1, <1>2 DEF TypeInv, TypeOK, Sending
<1>4. /\ active'[d][k] = [to |-> c, id |-> Here(c)]
      /\ \A e \in Conn, j \in Ids : e # d \/ j # k => active'[e][j] = active[e][j]
  BY <1>1, <1>2 DEF TypeInv, TypeOK
<1>5. \A e \in Conn : pc[e] \in Sending => fwd[e].to \in Conn /\ fwd[e].id \in Ids
  BY DEF TypeInv, TypeOK, LoopInv, LoopOK, Directed, Target
<1> HIDE DEF d, k
<1>6. HeldIds'
  BY <1>2, <1>3 DEF MapInv, HeldIds
<1>7. StoredEntry'
  <2> SUFFICES ASSUME NEW e \in Conn, pc'[e] = "write"
               PROVE  active'[fwd[e].to][fwd[e].id] = [to |-> e, id |-> Here(e)]
    BY <1>2 DEF StoredEntry, Here
  <2>1. CASE e = c
    BY <1>4, <2>1 DEF d, k
  <2>2. CASE e # c
    <3>1. pc[e] = "write" /\ pc[e] \in Sending
      BY <1>3, <2>2 DEF Sending
    <3>2. fwd[e].to # d \/ fwd[e].id # k
      BY <1>1, <2>2, <3>1 DEF MapInv, HeldIds, d, k
    <3> QED BY <1>4, <1>5, <3>1, <3>2 DEF MapInv, StoredEntry
  <2> QED BY <2>1, <2>2
<1>8. EntriesMatch'
  <2> SUFFICES ASSUME NEW e \in Conn, NEW i \in DOMAIN out[e], IsReq(out[e][i]),
                      active'[e][out[e][i].id] # NoReq
               PROVE  out[e][i].call = <<active'[e][out[e][i].id].to,
                                         active'[e][out[e][i].id].id>>
    BY <1>2 DEF EntriesMatch
  <2>1. out[e][i].id \in Ids
    <3>1. out[e][i] \in Message
      BY DEF TypeInv, TypeOK
    <3> QED BY <3>1 DEF Message, IsReq
  <2>2. e # d \/ out[e][i].id # k
    BY <1>1 DEF MapInv, HeldIds, d, k
  <2> QED BY <1>4, <2>1, <2>2 DEF MapInv, EntriesMatch
<1>9. UsedIds' /\ AnswersMatch' /\ DeliveredMatch'
  BY <1>2 DEF MapInv, UsedIds, AnswersMatch, DeliveredMatch
<1>10. RepliesMatch'
  BY <1>2, <1>3 DEF MapInv, RepliesMatch
<1> QED BY <1>6, <1>7, <1>8, <1>9, <1>10 DEF MapInv

(* Writing the request under the ID held, or failing to.                     *)
LEMMA WriteMap ==
    ASSUME TypeInv, MapInv, NEW c \in Conn, WriteRequest(c)
    PROVE  MapInv'
<1> DEFINE d   == fwd[c].to
           k   == fwd[c].id
           msg == [type |-> "req", id |-> k, method |-> Cur(c).method,
                   call |-> <<c, Here(c)>>, big |-> Cur(c).big]
<1>1. d \in Conn /\ k \in Ids /\ pc[c] = "write" /\ pc[c] \in Sending /\ Cur(c) \in Call
  BY DEF WriteRequest, TypeInv, LoopInv, LoopOK, Calling, Directed, Sending, TypeOK, Target
<1>2. msg \in Message /\ IsReq(msg) /\ ~IsRes(msg)
      /\ msg.id = k /\ msg.call = <<c, Here(c)>>
  BY <1>1, CurrentPacket DEF Message, Call, TypeInv, IsReq, IsRes
<1>3. UNCHANGED <<sent, active, lastOutRequestsIndex, fwd>>
  BY DEF WriteRequest, clientVars, tableVars
<1>4. active[d][k] = [to |-> c, id |-> Here(c)]
  BY <1>1 DEF MapInv, StoredEntry
<1>5. CASE Written(d, msg) /\ Finish(c) /\ UNCHANGED ans
  <2>1. Grows(d, msg)
    BY <1>1, <1>2, <1>5, SendGrows DEF TypeInv
  <2>2. OthersIdle(c) /\ pc'[c] = "idle"
    BY <1>3, <1>5, FinishType DEF OthersIdle, TypeInv
  <2>3. \A e \in Conn : e # c /\ pc[e] \in Sending /\ fwd[e].to = d => fwd[e].id # k
    BY <1>1 DEF MapInv, HeldIds
  <2>4. k <= lastOutRequestsIndex[d]
    BY <1>1 DEF MapInv, HeldIds
  <2>5. \A e \in Conn : pc'[e] \in Sending => e # c /\ pc[e] \in Sending /\ fwd[e].to \in Conn
    BY <2>2 DEF OthersIdle, Sending, TypeInv, LoopInv, LoopOK, Directed
  <2> HIDE DEF d, k, msg
  <2>6. HeldIds'
    <3> SUFFICES ASSUME NEW e \in Conn, pc'[e] \in Sending
                 PROVE  /\ fwd[e].id <= lastOutRequestsIndex[fwd[e].to]
                        /\ \A f \in Conn : /\ f # e /\ pc'[f] \in Sending
                                           /\ fwd[f].to = fwd[e].to
                                           => fwd[f].id # fwd[e].id
                        /\ \A i \in DOMAIN out'[fwd[e].to] :
                              IsReq(out'[fwd[e].to][i])
                              => out'[fwd[e].to][i].id # fwd[e].id
      BY <1>3 DEF HeldIds
    <3>1. /\ fwd[e].id <= lastOutRequestsIndex[fwd[e].to]
          /\ \A f \in Conn : f # e /\ pc'[f] \in Sending /\ fwd[f].to = fwd[e].to
                             => fwd[f].id # fwd[e].id
      BY <2>5 DEF MapInv, HeldIds
    <3>2. ASSUME NEW i \in DOMAIN out'[fwd[e].to], IsReq(out'[fwd[e].to][i])
          PROVE  out'[fwd[e].to][i].id # fwd[e].id
      <4>1. CASE i \in DOMAIN out[fwd[e].to]
        BY <2>1, <2>5, <3>2, <4>1 DEF Grows, MapInv, HeldIds
      <4>2. CASE i \notin DOMAIN out[fwd[e].to]
        BY <1>2, <2>1, <2>3, <2>5, <4>2 DEF Grows
      <4> QED BY <4>1, <4>2
    <3> QED BY <3>1, <3>2
  <2>7. UsedIds'
    BY <1>2, <1>3, <2>1, <2>4 DEF MapInv, UsedIds, Grows
  <2>8. StoredEntry'
    BY <1>3, <2>2 DEF MapInv, StoredEntry, OthersIdle, Here
  <2>9. EntriesMatch'
    BY <1>2, <1>3, <1>4, <2>1 DEF MapInv, EntriesMatch, Grows
  <2>10. AnswersMatch'
    BY <1>3, <2>1 DEF MapInv, AnswersMatch, Grows
  <2>11. RepliesMatch'
    BY <2>2 DEF MapInv, RepliesMatch, OthersIdle
  <2>12. DeliveredMatch'
    BY <1>2, <2>1 DEF MapInv, DeliveredMatch, Grows
  <2> QED BY <2>6, <2>7, <2>8, <2>9, <2>10, <2>11, <2>12 DEF MapInv
<1>6. ASSUME NEW code,
             ans' = [ans EXCEPT ![c] = [to |-> c, id |-> Here(c), code |-> code,
                                       call |-> <<c, Here(c)>>, big |-> FALSE]],
             Goto(c, "undo"), UNCHANGED <<rd, out>>
      PROVE  MapInv'
  <2>1. /\ pc'[c] = "undo" /\ ans'[c].call = <<ans'[c].to, ans'[c].id>>
        /\ \A e \in Conn : e # c => pc'[e] = pc[e] /\ ans'[e] = ans[e]
        /\ \A e \in Conn : pc'[e] \in Sending <=> pc[e] \in Sending
    BY <1>1, <1>6 DEF Goto, TypeInv, TypeOK, Sending
  <2>2. HeldIds' /\ UsedIds'
    BY <1>3, <1>6, <2>1 DEF MapInv, HeldIds, UsedIds
  <2>3. StoredEntry' /\ EntriesMatch'
    BY <1>3, <1>6, <2>1 DEF MapInv, StoredEntry, EntriesMatch, Here
  <2>4. AnswersMatch' /\ RepliesMatch' /\ DeliveredMatch'
    BY <1>3, <1>6, <2>1 DEF MapInv, AnswersMatch, RepliesMatch, DeliveredMatch
  <2> QED BY <2>2, <2>3, <2>4 DEF MapInv
<1> QED BY <1>5, <1>6 DEF WriteRequest, WriteFails

(* Deleting the entry again: its ID goes unused.                             *)
LEMMA UndoMap ==
    ASSUME TypeInv, MapInv, NEW c \in Conn, UndoRequest(c)
    PROVE  MapInv'
<1> DEFINE d == fwd[c].to
           k == fwd[c].id
<1>1. d \in Conn /\ k \in Ids /\ pc[c] = "undo" /\ pc[c] \in Sending
  BY DEF UndoRequest, TypeInv, LoopInv, LoopOK, Directed, Sending, TypeOK, Target
<1>2. /\ active' = [active EXCEPT ![d][k] = NoReq]
      /\ pc' = [pc EXCEPT ![c] = "reply"]
      /\ UNCHANGED <<sent, rd, out, lastOutRequestsIndex, fwd, ans>>
  BY DEF UndoRequest, Goto, clientVars
<1>3. /\ pc'[c] = "reply"
      /\ \A e \in Conn : e # c => pc'[e] = pc[e]
      /\ \A e \in Conn : pc'[e] \in Sending => pc[e] \in Sending /\ e # c
  BY <1>1, <1>2 DEF TypeInv, TypeOK, Sending
<1>4. /\ active'[d][k] = NoReq
      /\ \A e \in Conn, j \in Ids : e # d \/ j # k => active'[e][j] = active[e][j]
  BY <1>1, <1>2 DEF TypeInv, TypeOK
<1>5. \A e \in Conn : pc[e] \in Sending => fwd[e].to \in Conn /\ fwd[e].id \in Ids
  BY DEF TypeInv, TypeOK, LoopInv, LoopOK, Directed, Target
<1> HIDE DEF d, k
<1>6. HeldIds'
  BY <1>2, <1>3 DEF MapInv, HeldIds
<1>7. StoredEntry'
  <2> SUFFICES ASSUME NEW e \in Conn, pc'[e] = "write"
               PROVE  active'[fwd[e].to][fwd[e].id] = [to |-> e, id |-> Here(e)]
    BY <1>2 DEF StoredEntry, Here
  <2>1. e # c /\ pc[e] = "write" /\ pc[e] \in Sending
    BY <1>3 DEF Sending
  <2>2. fwd[e].to # d \/ fwd[e].id # k
    BY <1>1, <2>1 DEF MapInv, HeldIds, d, k
  <2> QED BY <1>4, <1>5, <2>1, <2>2 DEF MapInv, StoredEntry
<1>8. EntriesMatch'
  <2> SUFFICES ASSUME NEW e \in Conn, NEW i \in DOMAIN out[e], IsReq(out[e][i]),
                      active'[e][out[e][i].id] # NoReq
               PROVE  out[e][i].call = <<active'[e][out[e][i].id].to,
                                         active'[e][out[e][i].id].id>>
    BY <1>2 DEF EntriesMatch
  <2>1. out[e][i].id \in Ids
    <3>1. out[e][i] \in Message
      BY DEF TypeInv, TypeOK
    <3> QED BY <3>1 DEF Message, IsReq
  <2> QED BY <1>4, <2>1 DEF MapInv, EntriesMatch
<1>9. UsedIds' /\ AnswersMatch' /\ DeliveredMatch'
  BY <1>2 DEF MapInv, UsedIds, AnswersMatch, DeliveredMatch
<1>10. RepliesMatch'
  BY <1>1, <1>2, <1>3 DEF MapInv, RepliesMatch
<1> QED BY <1>6, <1>7, <1>8, <1>9, <1>10 DEF MapInv

(* Taking up an answer: it answers a request sent under its ID, so the entry *)
(* found there, if any, is the one of that request.                          *)
LEMMA ResponseMap ==
    ASSUME TypeInv, MapInv, NEW c \in Conn, HandleResponse(c)
    PROVE  MapInv'
<1> DEFINE k   == Cur(c).id
           req == active[c][k]
<1>1. Cur(c) \in Response /\ Here(c) \in DOMAIN sent[c] /\ IsRes(Cur(c))
  <2>1. rd[c] < Len(sent[c]) /\ IsRes(Cur(c))
    BY DEF HandleResponse, Incoming, Receive, IsRes
  <2>2. sent[c] \in Seq(Packet) /\ rd[c] \in Nat
    BY DEF TypeInv, TypeOK
  <2>3. Here(c) \in DOMAIN sent[c]
    BY <2>1, <2>2 DEF Here
  <2>4. Cur(c) \in Packet
    BY <2>1, CurrentPacket DEF TypeInv
  <2> QED BY <2>1, <2>3, <2>4, PacketKinds DEF IsRes
<1>2. k \in Ids /\ req \in Entry
  BY <1>1 DEF Response, TypeInv, TypeOK
<1>3. PICK i \in DOMAIN out[c] : /\ IsReq(out[c][i])
                                /\ out[c][i].id = k
                                /\ out[c][i].call = Cur(c).call
  BY <1>1 DEF MapInv, AnswersMatch, Cur
<1>4. CASE req = NoReq
  BY <1>4, FinishMap DEF HandleResponse, clientVars
<1>5. CASE req # NoReq
  <2> DEFINE new == [to |-> req.to, id |-> req.id, code |-> "peer",
                     call |-> Cur(c).call, big |-> Cur(c).big]
  <2>1. /\ active' = [active EXCEPT ![c][k] = NoReq]
        /\ ans' = [ans EXCEPT ![c] = new]
        /\ pc' = [pc EXCEPT ![c] = "reply"]
        /\ UNCHANGED <<sent, out, lastOutRequestsIndex, fwd, rd>>
    BY <1>5 DEF HandleResponse, Goto, clientVars
  <2>2. Cur(c).call = <<req.to, req.id>>
    BY <1>3, <1>5 DEF MapInv, EntriesMatch
  <2>3. ans'[c].call = <<ans'[c].to, ans'[c].id>>
    BY <2>1, <2>2 DEF TypeInv, TypeOK
  <2>4. /\ pc'[c] = "reply"
        /\ \A e \in Conn : e # c => pc'[e] = pc[e] /\ ans'[e] = ans[e]
        /\ \A e \in Conn : pc'[e] \in Sending => pc[e] \in Sending /\ e # c
    BY <2>1 DEF TypeInv, TypeOK, Sending
  <2>5. /\ active'[c][k] = NoReq
        /\ \A e \in Conn, j \in Ids : e # c \/ j # k => active'[e][j] = active[e][j]
    BY <1>2, <2>1 DEF TypeInv, TypeOK
  <2>6. \A e \in Conn : pc[e] \in Sending => fwd[e].to \in Conn /\ fwd[e].id \in Ids
    BY DEF TypeInv, TypeOK, LoopInv, LoopOK, Directed, Target
  <2> HIDE DEF k, req, new
  <2>7. HeldIds'
    BY <2>1, <2>4 DEF MapInv, HeldIds
  <2>8. StoredEntry'
    <3> SUFFICES ASSUME NEW e \in Conn, pc'[e] = "write"
                 PROVE  active'[fwd[e].to][fwd[e].id] = [to |-> e, id |-> Here(e)]
      BY <2>1 DEF StoredEntry, Here
    <3>1. pc[e] = "write" /\ pc[e] \in Sending
      BY <2>4 DEF Sending
    <3>2. fwd[e].to # c \/ fwd[e].id # k
      BY <1>3, <3>1 DEF MapInv, HeldIds
    <3> QED BY <2>5, <2>6, <3>1, <3>2 DEF MapInv, StoredEntry
  <2>9. EntriesMatch'
    <3> SUFFICES ASSUME NEW e \in Conn, NEW j \in DOMAIN out[e], IsReq(out[e][j]),
                        active'[e][out[e][j].id] # NoReq
                 PROVE  out[e][j].call = <<active'[e][out[e][j].id].to,
                                           active'[e][out[e][j].id].id>>
      BY <2>1 DEF EntriesMatch
    <3>1. out[e][j].id \in Ids
      <4>1. out[e][j] \in Message
        BY DEF TypeInv, TypeOK
      <4> QED BY <4>1 DEF Message, IsReq
    <3> QED BY <2>5, <3>1 DEF MapInv, EntriesMatch
  <2>10. UsedIds' /\ AnswersMatch' /\ DeliveredMatch'
    BY <2>1 DEF MapInv, UsedIds, AnswersMatch, DeliveredMatch
  <2>11. RepliesMatch'
    BY <2>3, <2>4 DEF MapInv, RepliesMatch
  <2> QED BY <2>7, <2>8, <2>9, <2>10, <2>11 DEF MapInv
<1> QED BY <1>4, <1>5

(* The request counters never go back.                                       *)
LEMMA CountersGrow ==
    ASSUME TypeInv, [Next]_vars, NoWrap'
    PROVE  NoWrap
<1>1. lastOutRequestsIndex \in [Conn -> Nat] /\ IdMod \in Nat
  BY IdModAssumption DEF TypeInv, TypeOK
<1>2. CASE lastOutRequestsIndex' = lastOutRequestsIndex
  BY <1>2 DEF NoWrap
<1>3. ASSUME NEW c \in Conn, AllocId(c) PROVE NoWrap
  BY <1>1, <1>3 DEF AllocId, NoWrap
<1>4. ASSUME NEW c \in Conn, Client(c) PROVE lastOutRequestsIndex' = lastOutRequestsIndex
  BY <1>4 DEF Client, Accept, ClientSend, ClientRespond, Send, Disconnect, tableVars
<1>5. ASSUME NEW c \in Conn, connectionLoop(c), ~AllocId(c)
      PROVE  lastOutRequestsIndex' = lastOutRequestsIndex
  BY <1>5 DEF connectionLoop, ControlCall, HandleRegister, HandleUnregister,
     HandleReset, HandleSetMaxMsgSize, NotifySetMaxMsgSize, CallInternal,
     InternalReturns, Forward, LookupRoute, WriteNotification, InsertRequest,
     WriteRequest, UndoRequest, HandleResponse, SendReply, SkipInvalid, StopReading,
     DropRoutes, Close, tableVars
<1>6. CASE UNCHANGED vars
  BY <1>2, <1>6 DEF vars
<1> QED BY <1>2, <1>3, <1>4, <1>5, <1>6 DEF Next

LEMMA StepRemap == TypeInv /\ RemapInv /\ [Next]_vars => RemapInv'
<1> SUFFICES ASSUME TypeInv, RemapInv, [Next]_vars, NoWrap' PROVE MapInv'
  BY DEF RemapInv
<1>1. MapInv
  BY CountersGrow DEF RemapInv
<1>2. CASE UNCHANGED vars
  BY <1>1, <1>2, SameMap DEF vars
<1>3. ASSUME NEW c \in Conn, Client(c) PROVE MapInv'
  BY <1>1, <1>3, ClientMap
<1>4. ASSUME NEW c \in Conn, connectionLoop(c) PROVE MapInv'
  BY <1>1, <1>4, LocalMap, DeliveryMap, AllocMap, InsertMap, WriteMap, UndoMap,
     ResponseMap DEF connectionLoop, Forward
<1> QED BY <1>2, <1>3, <1>4 DEF Next

(* Whatever the clients do and however their calls interleave, a response    *)
(* delivered to a client carries the outcome of that client's own request of *)
(* that ID, as long as no request counter has wrapped around.                *)
THEOREM ResponsesMatchRequests == Spec => []ResponseMatchesRequest
<1>1. Init => MapInv
  BY DEF Init, NewConnection, MapInv, HeldIds, UsedIds, StoredEntry, EntriesMatch, AnswersMatch,
     RepliesMatch, DeliveredMatch, Sending
<1>2. Init => RemapInv
  BY <1>1 DEF RemapInv
<1>3. Spec => [](TypeInv /\ RemapInv)
  BY <1>2, InitType, StepType, StepRemap, PTL DEF Spec
<1>4. RemapInv => ResponseMatchesRequest
  BY DEF RemapInv, MapInv, DeliveredMatch, ResponseMatchesRequest
<1> QED BY <1>3, <1>4, PTL

-----------------------------------------------------------------------------
(***************************************************************************)
(* What one step may do, for the properties of the registry and of the      *)
(* messages delivered.                                                      *)
(***************************************************************************)

(* The packets of a client only grow.                                        *)
SentKept == \A c \in Conn :
                /\ Len(sent[c]) <= Len(sent'[c])
                /\ \A n \in 1 .. Len(sent[c]) : sent'[c][n] = sent[c][n]

LEMMA ClientFrame ==
    ASSUME TypeInv, NEW c \in Conn, Client(c)
    PROVE  /\ UNCHANGED <<rd, out, routes, active, lastOutRequestsIndex, limit, fwd, ans>>
           /\ SentKept
           /\ \A d \in Conn : /\ pc'[d] = pc[d] \/ (pc[d] = "new" /\ pc'[d] = "idle")
                              /\ up'[d] => up[d] \/ pc[d] = "new"
                              /\ pc'[d] = "new" => pc[d] = "new"
<1> USE DEF TypeInv, TypeOK, loopVars, tableVars
<1>1. CASE Accept(c) \/ Disconnect(c)
  <2>1. UNCHANGED sent
    BY <1>1 DEF Accept, Disconnect
  <2>2. SentKept
    BY <2>1 DEF SentKept
  <2> QED  BY <1>1, <2>2 DEF Accept, Disconnect
<1>2. CASE ClientSend(c) \/ ClientRespond(c)
  <2>1. PICK q : Send(c, q)
    BY <1>2 DEF ClientSend, ClientRespond
  <2>2. sent[c] \in Seq(Packet) /\ sent' = [sent EXCEPT ![c] = Append(sent[c], q)]
    BY <2>1 DEF Send
  <2>3. /\ Len(Append(sent[c], q)) = Len(sent[c]) + 1
        /\ \A n \in 1 .. Len(sent[c]) : Append(sent[c], q)[n] = sent[c][n]
        /\ Len(sent[c]) \in Nat
    BY <2>2
  <2>4. \A d \in Conn : Len(sent[d]) \in Nat
    OBVIOUS
  <2>5. SentKept
    BY <2>2, <2>3, <2>4 DEF SentKept
  <2> QED  BY <2>1, <2>5 DEF Send
<1> QED  BY <1>1, <1>2 DEF Client

(* A goroutine leaves its client and the locals of the others alone, handles *)
(* one packet at a time, and never gives a size limit up.                    *)
LEMMA LoopKeeps ==
    ASSUME TypeInv, NEW c \in Conn, connectionLoop(c)
    PROVE  /\ UNCHANGED <<sent, up>> /\ OthersIdle(c)
           /\ rd'[c] = rd[c] \/ (rd'[c] = rd[c] + 1 /\ rd[c] < Len(sent[c]) /\ pc'[c] = "idle")
           /\ pc[c] \notin {"new", "closed"}
           /\ pc[c] = "close" => pc'[c] = "closed"
           /\ \A d \in Conn : limit[d] => limit'[d]
<1> USE DEF TypeInv, TypeOK, clientVars, tableVars, loopVars, OthersIdle
<1>0. \A d \in Conn : pc[d] \in {"internal", "notify", "write", "reply"} => rd[d] < Len(sent[d])
  BY DEF LoopInv, LoopOK, Calling, Directed, Sending
<1>1. CASE HandleRegister(c) \/ HandleUnregister(c) \/ HandleReset(c)
  BY <1>1 DEF HandleRegister, HandleUnregister, HandleReset, Reply, Goto, Incoming, Receive
<1>2. CASE HandleSetMaxMsgSize(c)
  BY <1>2 DEF HandleSetMaxMsgSize, SetMaxOutgoingMessageSize, Reply, Goto, Incoming, Receive
<1>3. CASE NotifySetMaxMsgSize(c)
  BY <1>3 DEF NotifySetMaxMsgSize, SetMaxOutgoingMessageSize, Finish, Goto, Incoming, Receive
<1>4. CASE CallInternal(c) \/ InternalReturns(c)
  BY <1>0, <1>4 DEF CallInternal, InternalReturns, IsCall, Incoming, Receive, Reply, Finish, Goto
<1>5. CASE LookupRoute(c)
  BY <1>5 DEF LookupRoute, IsCall, Incoming, Receive, Reply, Finish, Goto
<1>6. CASE WriteNotification(c)
  BY <1>0, <1>6 DEF WriteNotification, Finish, Goto
<1>7. CASE AllocId(c) \/ InsertRequest(c) \/ UndoRequest(c)
  BY <1>7 DEF AllocId, InsertRequest, UndoRequest, Goto
<1>8. CASE WriteRequest(c)
  BY <1>0, <1>8 DEF WriteRequest, Finish, Goto
<1>9. CASE HandleResponse(c)
  BY <1>9 DEF HandleResponse, Incoming, Receive, Finish, Goto
<1>10. CASE SendReply(c)
  BY <1>0, <1>10 DEF SendReply, Finish, Goto
<1>11. CASE SkipInvalid(c) \/ StopReading(c) \/ DropRoutes(c) \/ Close(c)
  BY <1>11 DEF SkipInvalid, StopReading, DropRoutes, Close, Incoming, Receive, Finish, Goto
<1> QED
  BY <1>1, <1>2, <1>3, <1>4, <1>5, <1>6, <1>7, <1>8, <1>9, <1>10, <1>11
  DEF connectionLoop, ControlCall, Forward

(* The messages a goroutine writes.                                          *)
Note(c) == [type |-> "not", method |-> Cur(c).method, call |-> <<c, Here(c)>>,
            big |-> Cur(c).big]
Req(c)  == [type |-> "req", id |-> fwd[c].id, method |-> Cur(c).method,
            call |-> <<c, Here(c)>>, big |-> Cur(c).big]
Res(c)  == [type |-> "res", id |-> ans[c].id, code |-> ans[c].code, call |-> ans[c].call,
            big |-> ans[c].big]

Says(d, msg) == ~TooBig(d, msg) /\ Reachable(d) /\ Deliver(d, msg)

Notes(c)   == pc[c] = "notify" /\ Finish(c) /\ Says(fwd[c].to, Note(c))
Asks(c)    == pc[c] = "write" /\ Finish(c) /\ Says(fwd[c].to, Req(c))
Replies(c) == pc[c] = "reply" /\ Finish(c) /\ Says(ans[c].to, Res(c))

LEMMA LoopOutput ==
    ASSUME NEW c \in Conn, connectionLoop(c)
    PROVE  UNCHANGED out \/ Notes(c) \/ Asks(c) \/ Replies(c)
<1> USE DEF clientVars, tableVars, loopVars
<1>1. CASE WriteNotification(c)
  BY <1>1 DEF WriteNotification, Written, WriteFails, Notes, Note, Says
<1>2. CASE WriteRequest(c)
  BY <1>2 DEF WriteRequest, Written, WriteFails, Asks, Req, Says
<1>3. CASE SendReply(c)
  BY <1>3 DEF SendReply, Written, WriteFails, Replies, Res, Says
<1>4. CASE ~WriteNotification(c) /\ ~WriteRequest(c) /\ ~SendReply(c)
  BY <1>4 DEF connectionLoop, ControlCall, Forward, HandleRegister, HandleUnregister,
     HandleReset, HandleSetMaxMsgSize, NotifySetMaxMsgSize, CallInternal, InternalReturns,
     LookupRoute, AllocId, InsertRequest, UndoRequest, HandleResponse, SkipInvalid,
     StopReading, DropRoutes, Close
<1> QED  BY <1>1, <1>2, <1>3, <1>4

LEMMA MessageKinds ==
    ASSUME NEW c
    PROVE  Note(c).type = "not" /\ Req(c).type = "req" /\ Res(c).type = "res"
BY DEF Note, Req, Res

LEMMA MessageTypes ==
    ASSUME TypeInv, NEW c \in Conn
    PROVE  /\ pc[c] = "notify" => Note(c) \in Message /\ fwd[c].to \in Conn
           /\ pc[c] = "write" => Req(c) \in Message /\ fwd[c].to \in Conn
           /\ pc[c] = "reply" => Res(c) \in Message /\ ans[c].to \in Conn
<1> USE DEF TypeInv
<1>1. ASSUME pc[c] \in {"notify", "write"}
      PROVE  /\ fwd[c].to \in Conn /\ fwd[c].id \in Ids
             /\ Cur(c) \in Call /\ <<c, Here(c)>> \in CallId
  BY <1>1, CurrentPacket DEF LoopInv, LoopOK, Calling, Directed, Sending, TypeOK, Target
<1>2. ASSUME pc[c] = "reply"
      PROVE  ans[c] \in [to : Conn, id : Nat, code : Code, call : CallId, big : BOOLEAN]
  BY <1>2, ConnAssumption DEF LoopInv, LoopOK, TypeOK, Answer, NoAns
<1>3. pc[c] = "notify" => Note(c) \in Message /\ fwd[c].to \in Conn
  BY <1>1 DEF Note, Message, Call
<1>4. pc[c] = "write" => Req(c) \in Message /\ fwd[c].to \in Conn
  BY <1>1 DEF Req, Message, Call
<1>5. pc[c] = "reply" => Res(c) \in Message /\ ans[c].to \in Conn
  BY <1>2 DEF Res, Message
<1> QED  BY <1>3, <1>4, <1>5

LEMMA DeliverFacts ==
    ASSUME TypeOK, NEW d \in Conn, NEW msg \in Message, Deliver(d, msg)
    PROVE  /\ Len(out[d]) \in Nat
           /\ DOMAIN out[d] = 1 .. Len(out[d])
           /\ DOMAIN out'[d] = 1 .. Len(out[d]) + 1
           /\ \A i \in 1 .. Len(out[d]) : out'[d][i] = out[d][i]
           /\ out'[d][Len(out[d]) + 1] = msg
           /\ \A e \in Conn : e # d => out'[e] = out[e]
<1>1. out[d] \in Seq(Message) /\ out' = [out EXCEPT ![d] = Append(out[d], msg)]
  BY DEF Deliver, TypeOK
<1>2. out'[d] = Append(out[d], msg) /\ \A e \in Conn : e # d => out'[e] = out[e]
  BY <1>1 DEF TypeOK
<1>3. /\ Len(out[d]) \in Nat
      /\ DOMAIN out[d] = 1 .. Len(out[d])
      /\ DOMAIN Append(out[d], msg) = 1 .. Len(out[d]) + 1
  BY <1>1
<1> QED  BY <1>1, <1>2, <1>3, AppendKeeps

-----------------------------------------------------------------------------
(***************************************************************************)
(* Who is told what.  The router answers "true" only in its own name, to    *)
(* the request at hand, and only once what it grants is so: the route is in *)
(* place, the limit is set.  Every such answer delivered is about a packet  *)
(* already handled, so later packets cannot be mistaken for it.             *)
(***************************************************************************)
Granted(c) ==
    /\ pc[c] = "reply" /\ ans[c].to = c /\ ans[c].id = Here(c)
    /\ Cur(c).method = "$/setMaxMsgSize" => limit[c]
    /\ \A m \in Name : IsRegister(Cur(c), m) => routes[m] = c

GrantInv ==
    \A c \in Conn : /\ rd[c] <= Len(sent[c])
                    /\ pc[c] \in {"reply", "undo"} /\ ans[c].code = "true" => Granted(c)

ToldInv ==
    \A c \in Conn : \A i \in DOMAIN out[c] :
        IsRes(out[c][i]) /\ out[c][i].code = "true" =>
            /\ out[c][i].id \in 1 .. rd[c]
            /\ sent[c][out[c][i].id].method = "$/setMaxMsgSize" => limit[c]

(***************************************************************************)
(* Who serves.  The routes, and the target a goroutine has read from them   *)
(* and not used yet, lead to clients that asked for that name.              *)
(***************************************************************************)
Registered(c, m) == \E n \in DOMAIN sent[c] : n <= Here(c) /\ IsRegister(sent[c][n], m)

ServeInv ==
    /\ \A m \in Name : routes[m] # NoConn => Registered(routes[m], m)
    /\ \A c \in Conn : pc[c] \in Directed => Registered(fwd[c].to, Cur(c).method)

(* A call is delivered while the goroutine of its client still handles it.   *)
PastCalls ==
    \A d \in Conn : \A i \in DOMAIN out[d] :
        ~IsRes(out[d][i]) => out[d][i].call[2] <= rd[out[d][i].call[1]]

(***************************************************************************)
(* Where a request is.                                                      *)
(***************************************************************************)
StageInv ==
    \A c \in Conn :
        /\ pc[c] = "new" => rd[c] = 0
        /\ pc[c] = "notify" => Cur(c).type = "not"
        /\ pc[c] \in Directed => pc[fwd[c].to] # "new"
        /\ pc[c] \in {"reply", "undo"} /\ Cur(c).type = "req" =>
               ans[c].to = c /\ ans[c].id = Here(c)

SlotInv ==
    /\ \A d \in Conn : \A id \in Ids :
           active[d][id] # NoReq => id <= lastOutRequestsIndex[d] /\ pc[d] # "new"
    /\ \A c \in Conn :
           /\ pc[c] = "insert" => active[fwd[c].to][fwd[c].id] = NoReq
           /\ pc[c] = "undo" => active[fwd[c].to][fwd[c].id]
                                  \in {NoReq, [to |-> c, id |-> Here(c)]}

TableInv == NoWrap => SlotInv

-----------------------------------------------------------------------------
(***************************************************************************)
(* How a goroutine comes to answer, to change the routes and to have a      *)
(* target.                                                                  *)
(***************************************************************************)
OwnAnswer(c) == ans'[c].to = c /\ ans'[c].id = Here(c)

Grants(c)  == /\ pc[c] = "idle" /\ pc'[c] = "reply"
              /\ Cur(c).type = "req" /\ OwnAnswer(c)
              /\ Cur(c).method = "$/setMaxMsgSize" => limit'[c]
              /\ \A m \in Name : IsRegister(Cur(c), m) => routes'[m] = c
Refuses(c) == OwnAnswer(c) /\ ans'[c].code # "true"
Relays(c)  == pc[c] = "idle" /\ Cur(c).type = "res" /\ ans'[c].code = "peer"
Keeps(c)   == /\ pc[c] \in {"reply", "undo"} /\ pc'[c] = "reply"
              /\ ans'[c].to = ans[c].to /\ ans'[c].id = ans[c].id
              /\ ans'[c].code \in {ans[c].code, "BufferLimitExceeded"}
              /\ UNCHANGED <<routes, limit>>

LEMMA AnswerSteps ==
    ASSUME TypeInv, NEW c \in Conn, connectionLoop(c), pc'[c] \in {"reply", "undo"}
    PROVE  /\ rd'[c] = rd[c] /\ rd[c] < Len(sent[c])
           /\ Grants(c) \/ Refuses(c) \/ Relays(c) \/ Keeps(c)
<1> USE DEF clientVars, tableVars, loopVars, OwnAnswer
<1>0. /\ pc \in [Conn -> Steps] /\ ans \in [Conn -> Answer] /\ limit \in [Conn -> BOOLEAN]
      /\ routes \in [Name -> Conn \cup {NoConn}]
      /\ pc[c] \in Calling \cup {"reply"} => rd[c] < Len(sent[c])
  BY DEF TypeInv, TypeOK, LoopInv, LoopOK
<1>1. CASE HandleRegister(c)
  <2>1. Cur(c) \in Call /\ Incoming(c, "req")
    BY <1>1, CurrentPacket, PacketKinds DEF HandleRegister, Incoming, Receive, TypeInv
  <2>2. CASE ~Cur(c).ok
    BY <1>0, <1>1, <2>1, <2>2 DEF HandleRegister, Reply, Goto, Incoming, Receive, Refuses
  <2>3. CASE Cur(c).ok /\ routes[Cur(c).arg] \in {NoConn, c}
    <3>1. routes'[Cur(c).arg] = c
      BY <1>0, <1>1, <2>1, <2>3 DEF HandleRegister, registerMethod, Call
    <3> QED  BY <1>0, <1>1, <2>1, <2>3, <3>1
             DEF HandleRegister, Reply, Goto, Incoming, Receive, Grants, IsRegister
  <2>4. CASE Cur(c).ok /\ routes[Cur(c).arg] \notin {NoConn, c}
    BY <1>0, <1>1, <2>1, <2>4 DEF HandleRegister, Reply, Goto, Incoming, Receive, Refuses
  <2> QED  BY <2>2, <2>3, <2>4
<1>2. CASE HandleUnregister(c)
  <2>1. ans'[c].to = c /\ ans'[c].id = Here(c) /\ pc'[c] = "reply"
    BY <1>0, <1>2 DEF HandleUnregister, Reply, Goto
  <2> QED  BY <1>2, <2>1 DEF HandleUnregister, Incoming, Receive, Grants, IsRegister
<1>3. CASE HandleReset(c)
  BY <1>0, <1>3 DEF HandleReset, Reply, Goto, Incoming, Receive, Grants, IsRegister
<1>4. CASE HandleSetMaxMsgSize(c)
  BY <1>0, <1>4 DEF HandleSetMaxMsgSize, SetMaxOutgoingMessageSize, Reply, Goto, Incoming,
     Receive, Grants, IsRegister, Refuses
<1>5. CASE NotifySetMaxMsgSize(c) \/ CallInternal(c)
  BY <1>0, <1>5 DEF NotifySetMaxMsgSize, CallInternal, Finish, Goto
<1>6. CASE InternalReturns(c)
  <2>1. CASE Cur(c).type = "req"
    <3>1. PICK b \in Sizes : Reply(c, "handler", b)
      BY <1>6, <2>1 DEF InternalReturns
    <3>2. ans'[c].to = c /\ ans'[c].id = Here(c) /\ ans'[c].code = "handler"
      BY <1>0, <3>1 DEF Reply
    <3> QED  BY <1>0, <1>6, <2>1, <3>2 DEF InternalReturns, Refuses, Calling
  <2>2. CASE Cur(c).type # "req"
    BY <1>0, <1>6, <2>2 DEF InternalReturns, Finish, Goto
  <2> QED  BY <2>1, <2>2
<1>7. CASE LookupRoute(c)
  BY <1>0, <1>7 DEF LookupRoute, IsCall, Incoming, Receive, Reply, Finish, Goto, Refuses
<1>8. CASE WriteNotification(c) \/ AllocId(c) \/ InsertRequest(c)
  BY <1>0, <1>8 DEF WriteNotification, AllocId, InsertRequest, Finish, Goto
<1>9. CASE WriteRequest(c)
  BY <1>0, <1>9 DEF WriteRequest, Finish, Goto, Refuses, Calling, Directed, Sending
<1>10. CASE UndoRequest(c)
  BY <1>0, <1>10 DEF UndoRequest, Goto, Keeps, Calling, Directed, Sending
<1>11. CASE HandleResponse(c)
  BY <1>0, <1>11 DEF HandleResponse, Finish, Goto, Incoming, Receive, Relays
<1>12. CASE SendReply(c)
  <2>1. ans[c] \in [to : Conn, id : Nat, code : Code, call : CallId, big : BOOLEAN]
    BY <1>0, <1>12, ConnAssumption DEF TypeInv, LoopInv, LoopOK, SendReply, Answer, NoAns
  <2>2. CASE Finish(c)
    BY <1>0, <2>2 DEF Finish, Goto
  <2>3. CASE /\ ans' = [ans EXCEPT ![c].code = "BufferLimitExceeded", ![c].big = FALSE]
             /\ UNCHANGED <<rd, pc>>
    <3>1. /\ ans'[c].to = ans[c].to /\ ans'[c].id = ans[c].id
          /\ ans'[c].code = "BufferLimitExceeded"
      BY <1>0, <2>1, <2>3
    <3> QED  BY <1>0, <1>12, <2>3, <3>1 DEF SendReply, Keeps
  <2> QED  BY <1>12, <2>2, <2>3 DEF SendReply
<1>13. CASE SkipInvalid(c) \/ StopReading(c) \/ DropRoutes(c) \/ Close(c)
  BY <1>0, <1>13 DEF SkipInvalid, StopReading, DropRoutes, Close, Finish, Goto
<1> QED
  BY <1>1, <1>2, <1>3, <1>4, <1>5, <1>6, <1>7, <1>8, <1>9, <1>10, <1>11, <1>12, <1>13
  DEF connectionLoop, ControlCall, Forward

Claims(c)   == \E m \in Name : /\ IsRegister(Cur(c), m) /\ routes[m] = NoConn
                               /\ routes' = [routes EXCEPT ![m] = c]
Releases(c) == \A m \in Name : \/ routes'[m] = routes[m]
                               \/ routes[m] = c /\ routes'[m] = NoConn
                                  /\ IsRelease(Cur(c), m)
Leaves(c)   == \A m \in Name : \/ routes'[m] = routes[m]
                               \/ routes[m] = c /\ routes'[m] = NoConn

LEMMA RouteCauses ==
    ASSUME TypeInv, NEW c \in Conn, connectionLoop(c), routes' # routes
    PROVE  /\ rd'[c] = rd[c]
           /\ \/ /\ pc[c] = "idle" /\ pc'[c] = "reply" /\ rd[c] < Len(sent[c])
                 /\ Claims(c) \/ Releases(c)
              \/ pc'[c] = "close" /\ Leaves(c)
<1> USE DEF clientVars, tableVars, loopVars
<1>0. pc \in [Conn -> Steps] /\ routes \in [Name -> Conn \cup {NoConn}]
  BY DEF TypeInv, TypeOK
<1>1. CASE HandleRegister(c)
  <2>1. Cur(c) \in Call
    BY <1>1, CurrentPacket, PacketKinds DEF HandleRegister, Incoming, Receive, TypeInv
  <2>2. Cur(c).ok /\ routes[Cur(c).arg] = NoConn /\ routes' = [routes EXCEPT ![Cur(c).arg] = c]
    BY <1>1 DEF HandleRegister, registerMethod
  <2>3. Claims(c)
    BY <1>1, <2>1, <2>2 DEF Claims, IsRegister, HandleRegister, Incoming, Call
  <2> QED  BY <1>0, <1>1, <2>3 DEF HandleRegister, Reply, Goto, Incoming, Receive
<1>2. CASE HandleUnregister(c)
  <2>1. Cur(c) \in Call
    BY <1>2, CurrentPacket, PacketKinds DEF HandleUnregister, Incoming, Receive, TypeInv
  <2>2. Cur(c).ok /\ routes[Cur(c).arg] = c /\ routes' = [routes EXCEPT ![Cur(c).arg] = NoConn]
    BY <1>2 DEF HandleUnregister, removeSingleMethodFromConnection
  <2>3. Releases(c)
    BY <1>0, <1>2, <2>1, <2>2 DEF Releases, IsRelease, HandleUnregister, Incoming, Call
  <2> QED  BY <1>0, <1>2, <2>3 DEF HandleUnregister, Reply, Goto, Incoming, Receive
<1>3. CASE HandleReset(c)
  <2>1. Cur(c).ok /\ removeMethodsFromConnection(c)
    BY <1>3 DEF HandleReset
  <2>2. Releases(c)
    BY <1>0, <1>3, <2>1 DEF Releases, IsRelease, HandleReset, Incoming, removeMethodsFromConnection
  <2> QED  BY <1>0, <1>3, <2>2 DEF HandleReset, Reply, Goto, Incoming, Receive
<1>4. CASE DropRoutes(c)
  BY <1>0, <1>4 DEF DropRoutes, removeMethodsFromConnection, Leaves, Goto
<1> QED
  BY <1>1, <1>2, <1>3, <1>4
  DEF connectionLoop, ControlCall, Forward, HandleSetMaxMsgSize, NotifySetMaxMsgSize,
      CallInternal, InternalReturns, LookupRoute, WriteNotification, AllocId, InsertRequest,
      WriteRequest, UndoRequest, HandleResponse, SendReply, SkipInvalid, StopReading, Close

Aims(c) == /\ pc'[c] \in {"alloc", "notify"} /\ pc[c] = "idle"
           /\ Cur(c) \in Call /\ routes[Cur(c).method] # NoConn
           /\ fwd'[c].to = routes[Cur(c).method]
           /\ Cur(c).type = IF pc'[c] = "alloc" THEN "req" ELSE "not"

LEMMA DirectSteps ==
    ASSUME TypeInv, NEW c \in Conn, connectionLoop(c), pc'[c] \in Directed
    PROVE  /\ rd'[c] = rd[c] /\ rd[c] < Len(sent[c]) /\ UNCHANGED routes
           /\ \/ Aims(c)
              \/ /\ pc[c] \in Directed \ {"notify"} /\ pc'[c] \in Sending
                 /\ fwd'[c].to = fwd[c].to
<1> USE DEF clientVars, tableVars, loopVars
<1>0. /\ pc \in [Conn -> Steps] /\ fwd \in [Conn -> Target]
      /\ pc[c] \in Directed => rd[c] < Len(sent[c])
  BY DEF TypeInv, TypeOK, LoopInv, LoopOK, Calling
<1>1. CASE LookupRoute(c)
  <2>1. Cur(c) \in Call /\ Receive(c)
    BY <1>1, CurrentPacket, PacketKinds DEF LookupRoute, IsCall, Incoming, Receive, TypeInv
  <2>2. /\ getConnectionForMethod(Cur(c).method) # NoConn
        /\ fwd' = [fwd EXCEPT ![c].to = getConnectionForMethod(Cur(c).method)]
        /\ pc' = [pc EXCEPT ![c] = IF Cur(c).type = "req" THEN "alloc" ELSE "notify"]
        /\ UNCHANGED <<rd, routes>>
    BY <1>0, <1>1 DEF LookupRoute, Directed, Sending, Reply, Finish, Goto
  <2> QED  BY <1>0, <2>1, <2>2 DEF Aims, Receive, Call, getConnectionForMethod, Target
<1>2. CASE AllocId(c)
  BY <1>0, <1>2 DEF AllocId, Goto, Directed, Sending, Target
<1>3. CASE InsertRequest(c) \/ WriteRequest(c)
  BY <1>0, <1>3 DEF InsertRequest, WriteRequest, Finish, Goto, Directed, Sending
<1>4. CASE ControlCall(c)
  BY <1>0, <1>4 DEF ControlCall, HandleRegister, HandleUnregister, HandleReset,
     HandleSetMaxMsgSize, NotifySetMaxMsgSize, Reply, Finish, Goto, Directed, Sending
<1>5. CASE CallInternal(c) \/ InternalReturns(c) \/ WriteNotification(c) \/ UndoRequest(c)
  BY <1>0, <1>5 DEF CallInternal, InternalReturns, WriteNotification, UndoRequest, Reply,
     Finish, Goto, Directed, Sending
<1>6. CASE HandleResponse(c) \/ SendReply(c)
  BY <1>0, <1>6 DEF HandleResponse, SendReply, Finish, Goto, Directed, Sending
<1>7. CASE SkipInvalid(c) \/ StopReading(c) \/ DropRoutes(c) \/ Close(c)
  BY <1>0, <1>7 DEF SkipInvalid, StopReading, DropRoutes, Close, Finish, Goto, Directed,
     Sending
<1> QED
  BY <1>1, <1>2, <1>3, <1>4, <1>5, <1>6, <1>7 DEF connectionLoop, Forward

(* The packet at hand stays the same while its client sends more.            *)
LEMMA CurKept ==
    ASSUME TypeOK, SentKept, NEW c \in Conn, rd'[c] = rd[c], rd[c] < Len(sent[c])
    PROVE  Here(c)' = Here(c) /\ Cur(c)' = Cur(c)
<1>1. sent[c] \in Seq(Packet) /\ rd[c] \in Nat
  BY DEF TypeOK
<1>2. rd[c] + 1 \in 1 .. Len(sent[c]) /\ rd[c] + 1 = rd'[c] + 1
  BY <1>1
<1>3. sent'[c][rd[c] + 1] = sent[c][rd[c] + 1]
  BY <1>2 DEF SentKept
<1> QED  BY <1>2, <1>3 DEF Here, Cur

(* A goroutine drops no route but its own connection's.                      *)
LEMMA RouteKept ==
    ASSUME TypeInv, NEW c \in Conn, connectionLoop(c), NEW m \in Name,
           routes[m] \in Conn, routes[m] # c
    PROVE  routes'[m] = routes[m]
<1>1. routes \in [Name -> Conn \cup {NoConn}]
  BY DEF TypeInv, TypeOK
<1> QED  BY <1>1, RouteCauses, ConnAssumption DEF Claims, Releases, Leaves

LEMMA StepGrant == TypeInv /\ GrantInv /\ [Next]_vars => GrantInv'
<1> SUFFICES ASSUME TypeInv, GrantInv, [Next]_vars PROVE GrantInv'
  OBVIOUS
<1>0. TypeOK /\ LoopInv /\ \A d \in Conn : rd[d] \in Nat /\ Len(sent[d]) \in Nat
  BY DEF TypeInv, TypeOK
<1>1. ASSUME NEW d \in Conn, pc[d] \in {"reply", "undo"}
      PROVE  rd[d] < Len(sent[d])
  BY <1>0, <1>1 DEF LoopInv, LoopOK, Calling, Directed, Sending
<1>2. CASE UNCHANGED vars
  BY <1>2 DEF vars, GrantInv, Granted, Here, Cur
<1>3. ASSUME NEW c \in Conn, Client(c) PROVE GrantInv'
  <2> SUFFICES ASSUME NEW d \in Conn
               PROVE  /\ rd'[d] <= Len(sent'[d])
                      /\ pc'[d] \in {"reply", "undo"} /\ ans'[d].code = "true"
                         => Granted(d)'
    BY DEF GrantInv
  <2>1. /\ UNCHANGED <<rd, routes, limit, ans>> /\ SentKept
        /\ pc'[d] \in {"reply", "undo"} => pc'[d] = pc[d]
    BY <1>3, ClientFrame
  <2>2. Len(sent'[d]) \in Nat
    BY <1>3, StepType DEF Next, TypeInv, TypeOK
  <2>3. rd'[d] <= Len(sent'[d])
    BY <1>0, <2>1, <2>2 DEF SentKept, GrantInv
  <2>4. ASSUME pc'[d] \in {"reply", "undo"}, ans'[d].code = "true"
        PROVE  Granted(d)'
    <3>1. Granted(d) /\ pc[d] = "reply" /\ pc'[d] = "reply"
      BY <2>1, <2>4 DEF GrantInv, Granted
    <3>2. Here(d)' = Here(d) /\ Cur(d)' = Cur(d)
      BY <1>0, <1>1, <2>1, <3>1, CurKept
    <3> QED  BY <2>1, <3>1, <3>2 DEF Granted
  <2> QED  BY <2>3, <2>4
<1>4. ASSUME NEW c \in Conn, connectionLoop(c) PROVE GrantInv'
  <2>1. /\ UNCHANGED <<sent, up>> /\ OthersIdle(c)
        /\ rd'[c] = rd[c] \/ (rd'[c] = rd[c] + 1 /\ rd[c] < Len(sent[c]) /\ pc'[c] = "idle")
        /\ \A d \in Conn : limit[d] => limit'[d]
    BY <1>4, LoopKeeps
  <2>2. \A d \in Conn : rd'[d] <= Len(sent'[d])
    BY <1>0, <2>1 DEF OthersIdle, GrantInv
  <2>3. ASSUME NEW d \in Conn, d # c, pc'[d] \in {"reply", "undo"}, ans'[d].code = "true"
        PROVE  Granted(d)'
    <3>1. Granted(d) /\ pc'[d] = pc[d] /\ ans'[d] = ans[d]
      BY <2>1, <2>3 DEF OthersIdle, GrantInv
    <3>2. Here(d)' = Here(d) /\ Cur(d)' = Cur(d)
      BY <2>1, <2>3 DEF OthersIdle, Here, Cur
    <3>3. \A m \in Name : routes[m] = d => routes'[m] = d
      BY <1>4, <2>3, RouteKept
    <3> QED  BY <2>1, <3>1, <3>2, <3>3 DEF Granted
  <2>4. ASSUME pc'[c] \in {"reply", "undo"}, ans'[c].code = "true"
        PROVE  Granted(c)'
    <3>1. /\ rd'[c] = rd[c] /\ Here(c)' = Here(c) /\ Cur(c)' = Cur(c)
          /\ Grants(c) \/ Refuses(c) \/ Relays(c) \/ Keeps(c)
      BY <1>4, <2>1, <2>4, AnswerSteps DEF Here, Cur
    <3>2. CASE Grants(c)
      BY <3>1, <3>2 DEF Grants, OwnAnswer, Granted
    <3>3. CASE Keeps(c)
      <4>1. Granted(c)
        BY <2>4, <3>3 DEF Keeps, GrantInv
      <4> QED  BY <3>1, <3>3, <4>1 DEF Keeps, Granted
    <3> QED  BY <2>4, <3>1, <3>2, <3>3 DEF Refuses, Relays
  <2> QED  BY <2>2, <2>3, <2>4 DEF GrantInv
<1> QED  BY <1>2, <1>3, <1>4 DEF Next

(* A step delivers at most one message, and an answer "true" is one the      *)
(* goroutine of the receiver has just granted.                               *)
LEMMA NewMessage ==
    ASSUME TypeInv, NEW c \in Conn, connectionLoop(c), NEW d \in Conn,
           NEW i \in DOMAIN out'[d], ~(i \in DOMAIN out[d] /\ out'[d][i] = out[d][i])
    PROVE  /\ i = Len(out[d]) + 1 /\ Finish(c)
           /\ DOMAIN out[d] = 1 .. Len(out[d]) /\ Len(out[d]) \in Nat
           /\ ~TooBig(d, out'[d][i]) /\ Reachable(d)
           /\ \/ pc[c] = "notify" /\ d = fwd[c].to /\ out'[d][i] = Note(c)
              \/ pc[c] = "write" /\ d = fwd[c].to /\ out'[d][i] = Req(c)
              \/ pc[c] = "reply" /\ d = ans[c].to /\ out'[d][i] = Res(c)
<1>0. TypeOK
  BY DEF TypeInv
<1>1. CASE UNCHANGED out
  BY <1>1
<1>2. ASSUME NEW e \in Conn, NEW msg \in Message, Says(e, msg), Finish(c)
      PROVE  /\ d = e /\ i = Len(out[d]) + 1
             /\ DOMAIN out[d] = 1 .. Len(out[d]) /\ Len(out[d]) \in Nat
             /\ out'[d][i] = msg /\ ~TooBig(d, msg) /\ Reachable(d)
  <2>1. Deliver(e, msg) /\ ~TooBig(e, msg) /\ Reachable(e)
    BY <1>2 DEF Says
  <2>2. d = e
    BY <1>0, <2>1, DeliverFacts
  <2> QED  BY <1>0, <2>1, <2>2, DeliverFacts
<1>3. CASE Notes(c)
  BY <1>2, <1>3, MessageTypes DEF Notes
<1>4. CASE Asks(c)
  BY <1>2, <1>4, MessageTypes DEF Asks
<1>5. CASE Replies(c)
  BY <1>2, <1>5, MessageTypes DEF Replies
<1> QED  BY <1>1, <1>3, <1>4, <1>5, LoopOutput

(* No message is taken back.                                                 *)
LEMMA OutKept ==
    ASSUME TypeInv, NEW c \in Conn, connectionLoop(c), NEW d \in Conn
    PROVE  \A i \in DOMAIN out[d] : i \in DOMAIN out'[d] /\ out'[d][i] = out[d][i]
<1>0. TypeOK
  BY DEF TypeInv
<1>1. CASE UNCHANGED out
  BY <1>1
<1>2. ASSUME NEW e \in Conn, NEW msg \in Message, Says(e, msg)
      PROVE  \A i \in DOMAIN out[d] : i \in DOMAIN out'[d] /\ out'[d][i] = out[d][i]
  <2>1. Deliver(e, msg)
    BY <1>2 DEF Says
  <2>2. CASE d = e
    BY <1>0, <2>1, <2>2, DeliverFacts
  <2>3. CASE d # e
    BY <1>0, <2>1, <2>3, DeliverFacts
  <2> QED  BY <2>2, <2>3
<1>3. CASE Notes(c)
  BY <1>2, <1>3, MessageTypes DEF Notes
<1>4. CASE Asks(c)
  BY <1>2, <1>4, MessageTypes DEF Asks
<1>5. CASE Replies(c)
  BY <1>2, <1>5, MessageTypes DEF Replies
<1> QED  BY <1>1, <1>3, <1>4, <1>5, LoopOutput

LEMMA StepTold == TypeInv /\ GrantInv /\ ToldInv /\ [Next]_vars => ToldInv'
<1> SUFFICES ASSUME TypeInv, GrantInv, ToldInv, [Next]_vars PROVE ToldInv'
  OBVIOUS
<1>0. \A d \in Conn : rd[d] \in Nat /\ Len(sent[d]) \in Nat /\ rd[d] <= Len(sent[d])
  BY DEF TypeInv, TypeOK, GrantInv
<1>1. CASE UNCHANGED vars
  BY <1>1 DEF vars, ToldInv
<1>2. ASSUME NEW c \in Conn, Client(c) PROVE ToldInv'
  <2>1. UNCHANGED <<rd, out, limit>> /\ SentKept
    BY <1>2, ClientFrame
  <2>2. \A d \in Conn : \A n \in 1 .. rd[d] : sent'[d][n] = sent[d][n]
    BY <1>0, <2>1 DEF SentKept
  <2> QED  BY <2>1, <2>2 DEF ToldInv
<1>3. ASSUME NEW c \in Conn, connectionLoop(c) PROVE ToldInv'
  <2> SUFFICES ASSUME NEW d \in Conn, NEW i \in DOMAIN out'[d],
                      IsRes(out'[d][i]), out'[d][i].code = "true"
               PROVE  /\ out'[d][i].id \in 1 .. rd'[d]
                      /\ sent'[d][out'[d][i].id].method = "$/setMaxMsgSize" => limit'[d]
    BY DEF ToldInv
  <2>1. /\ sent' = sent /\ OthersIdle(c)
        /\ rd'[c] = rd[c] \/ rd'[c] = rd[c] + 1
        /\ limit[d] => limit'[d]
    BY <1>3, LoopKeeps
  <2>2. CASE i \in DOMAIN out[d] /\ out'[d][i] = out[d][i]
    <3>1. /\ out[d][i].id \in 1 .. rd[d]
          /\ sent[d][out[d][i].id].method = "$/setMaxMsgSize" => limit[d]
      BY <2>2 DEF ToldInv
    <3>2. rd'[d] = rd[d] \/ rd'[d] = rd[d] + 1
      BY <2>1 DEF OthersIdle
    <3>3. out[d][i].id \in 1 .. rd'[d]
      BY <1>0, <3>1, <3>2
    <3> QED  BY <2>1, <2>2, <3>1, <3>3
  <2>3. CASE ~(i \in DOMAIN out[d] /\ out'[d][i] = out[d][i])
    <3>1. pc[c] = "reply" /\ d = ans[c].to /\ out'[d][i] = Res(c) /\ Finish(c)
      BY <1>3, <2>3, NewMessage, MessageKinds DEF IsRes
    <3>2. out'[d][i].id = ans[c].id /\ ans[c].code = "true"
      BY <3>1 DEF Res
    <3>3. d = c /\ ans[c].id = rd[c] + 1 /\ (Cur(c).method = "$/setMaxMsgSize" => limit[c])
      BY <3>1, <3>2 DEF GrantInv, Granted, Here
    <3>4. rd'[c] = rd[c] + 1
      BY <3>1 DEF Finish, TypeInv, TypeOK
    <3>5. out'[d][i].id \in 1 .. rd'[d]
      BY <1>0, <3>2, <3>3, <3>4
    <3> QED  BY <2>1, <3>2, <3>3, <3>5 DEF Cur, Here
  <2> QED  BY <2>2, <2>3
<1> QED  BY <1>1, <1>2, <1>3 DEF Next

(* After a limit was confirmed, no oversize message follows: the goroutine   *)
(* that delivers one has looked at the limit.                                *)
LEMMA StepLimit ==
    TypeInv /\ ToldInv /\ GrantInv /\ LimitRespected /\ [Next]_vars => LimitRespected'
<1> SUFFICES ASSUME TypeInv, ToldInv, GrantInv, LimitRespected, [Next]_vars
             PROVE  LimitRespected'
  OBVIOUS
<1>0. \A d \in Conn : /\ rd[d] \in Nat /\ Len(sent[d]) \in Nat /\ rd[d] <= Len(sent[d])
                      /\ DOMAIN out[d] = 1 .. Len(out[d]) /\ Len(out[d]) \in Nat
  BY DEF TypeInv, TypeOK, GrantInv
<1>1. CASE UNCHANGED vars
  BY <1>1 DEF vars, LimitRespected
<1>2. ASSUME NEW c \in Conn, Client(c) PROVE LimitRespected'
  <2>1. out' = out /\ SentKept
    BY <1>2, ClientFrame
  <2>2. \A d \in Conn : \A n \in 1 .. rd[d] : sent'[d][n] = sent[d][n]
    BY <1>0, <2>1 DEF SentKept
  <2>3. \A d \in Conn : \A i \in DOMAIN out[d] :
            IsRes(out[d][i]) /\ out[d][i].code = "true" =>
                sent'[d][out[d][i].id] = sent[d][out[d][i].id]
    BY <2>2 DEF ToldInv
  <2> QED  BY <2>1, <2>3 DEF LimitRespected
<1>3. ASSUME NEW c \in Conn, connectionLoop(c) PROVE LimitRespected'
  <2> SUFFICES ASSUME NEW d \in Conn, NEW i \in DOMAIN out'[d], NEW j \in DOMAIN out'[d],
                      i < j, IsRes(out'[d][i]), out'[d][i].code = "true",
                      sent'[d][out'[d][i].id].method = "$/setMaxMsgSize"
               PROVE  ~out'[d][j].big
    BY DEF LimitRespected
  <2>1. sent' = sent
    BY <1>3, LoopKeeps
  <2>2. DOMAIN out'[d] = 1 .. Len(out'[d]) /\ Len(out'[d]) \in Nat
    BY <1>3, StepType DEF Next, TypeInv, TypeOK
  <2>3. CASE j \in DOMAIN out[d] /\ out'[d][j] = out[d][j]
    <3>1. i \in DOMAIN out[d] /\ out'[d][i] = out[d][i]
      BY <1>0, <1>3, <2>2, <2>3, OutKept
    <3> QED  BY <2>1, <2>3, <3>1 DEF LimitRespected
  <2>4. CASE ~(j \in DOMAIN out[d] /\ out'[d][j] = out[d][j])
    <3>1. j = Len(out[d]) + 1 /\ ~TooBig(d, out'[d][j])
      BY <1>3, <2>4, NewMessage
    <3>2. i \in DOMAIN out[d] /\ out'[d][i] = out[d][i]
      BY <1>0, <1>3, <2>2, <3>1, OutKept
    <3>3. limit[d]
      BY <2>1, <3>2 DEF ToldInv
    <3> QED  BY <3>1, <3>3 DEF TooBig
  <2> QED  BY <2>3, <2>4
<1> QED  BY <1>1, <1>2, <1>3 DEF Next

(* A client told that its $/setMaxMsgSize succeeded never again receives an  *)
(* oversize message, whichever goroutine writes it (router.go:156,           *)
(* connection.go:429-460).                                                   *)
THEOREM LimitsAreRespected == Spec => []LimitRespected
<1>1. Init => GrantInv /\ ToldInv /\ LimitRespected
  BY DEF Init, NewConnection, GrantInv, ToldInv, LimitRespected
<1>2. Spec => [](TypeInv /\ GrantInv /\ ToldInv /\ LimitRespected)
  BY <1>1, InitType, StepType, StepGrant, StepTold, StepLimit, PTL DEF Spec
<1> QED  BY <1>2, PTL

(***************************************************************************)
(* A client told that its $/register succeeded owns the route.              *)
(***************************************************************************)
LEMMA StepHonour ==
    TypeInv /\ GrantInv /\ ToldInv /\ RegistrationHonoured /\ [Next]_vars
    => RegistrationHonoured'
<1> SUFFICES ASSUME TypeInv, GrantInv, ToldInv, RegistrationHonoured, [Next]_vars
             PROVE  RegistrationHonoured'
  OBVIOUS
<1>0. \A d \in Conn : rd[d] \in Nat /\ Len(sent[d]) \in Nat /\ rd[d] <= Len(sent[d])
  BY DEF TypeInv, TypeOK, GrantInv
<1>1. CASE UNCHANGED vars
  BY <1>1 DEF vars, RegistrationHonoured, Succeeded, Here
<1>2. ASSUME NEW d \in Conn, NEW m \in Name, NEW n \in 1 .. rd[d],
             IsRegister(sent[d][n], m), Succeeded(d, n),
             \A k \in n + 1 .. Len(sent[d]) : k <= Here(d) => ~IsRelease(sent[d][k], m),
             pc[d] \notin {"close", "closed"}
      PROVE  routes[m] = d
  BY <1>2 DEF RegistrationHonoured
<1>3. ASSUME NEW c \in Conn, Client(c) PROVE RegistrationHonoured'
  <2> SUFFICES ASSUME NEW d \in Conn, NEW m \in Name, NEW n \in 1 .. rd'[d],
                      IsRegister(sent'[d][n], m), Succeeded(d, n)',
                      \A k \in n + 1 .. Len(sent'[d]) :
                          k <= Here(d)' => ~IsRelease(sent'[d][k], m),
                      pc'[d] \notin {"close", "closed"}
               PROVE  routes'[m] = d
    BY DEF RegistrationHonoured
  <2>1. /\ UNCHANGED <<rd, out, routes>> /\ SentKept
        /\ pc'[d] = pc[d] \/ pc[d] = "new"
    BY <1>3, ClientFrame
  <2>2. Len(sent'[d]) \in Nat
    BY <1>3, StepType DEF Next, TypeInv, TypeOK
  <2>3. n \in 1 .. rd[d] /\ sent'[d][n] = sent[d][n] /\ Succeeded(d, n)
    BY <1>0, <2>1 DEF SentKept, Succeeded
  <2>4. \A k \in n + 1 .. Len(sent[d]) : k \in n + 1 .. Len(sent'[d]) /\ sent'[d][k] = sent[d][k]
    BY <1>0, <2>1, <2>2, <2>3 DEF SentKept
  <2>5. \A k \in n + 1 .. Len(sent[d]) : k <= Here(d) => ~IsRelease(sent[d][k], m)
    BY <2>1, <2>4 DEF Here
  <2> QED  BY <1>2, <2>1, <2>3, <2>5
<1>4. ASSUME NEW c \in Conn, connectionLoop(c) PROVE RegistrationHonoured'
  <2> SUFFICES ASSUME NEW d \in Conn, NEW m \in Name, NEW n \in 1 .. rd'[d],
                      IsRegister(sent'[d][n], m), Succeeded(d, n)',
                      \A k \in n + 1 .. Len(sent'[d]) :
                          k <= Here(d)' => ~IsRelease(sent'[d][k], m),
                      pc'[d] \notin {"close", "closed"}
               PROVE  routes'[m] = d
    BY DEF RegistrationHonoured
  <2>1. /\ sent' = sent /\ OthersIdle(c)
        /\ rd'[c] = rd[c] \/ rd'[c] = rd[c] + 1
        /\ pc[c] = "close" => pc'[c] = "closed"
        /\ pc[c] # "closed"
    BY <1>4, LoopKeeps
  <2>2. pc[d] \notin {"close", "closed"} /\ (rd'[d] = rd[d] \/ rd'[d] = rd[d] + 1)
    BY <2>1 DEF OthersIdle
  <2>3. \A k \in n + 1 .. Len(sent[d]) : k <= Here(d) => ~IsRelease(sent[d][k], m)
    BY <1>0, <2>1, <2>2 DEF Here
  <2>4. PICK i \in DOMAIN out'[d] : /\ IsRes(out'[d][i]) /\ out'[d][i].id = n
                                    /\ out'[d][i].code = "true"
    BY DEF Succeeded, IsRes
  <2>5. CASE i \in DOMAIN out[d] /\ out'[d][i] = out[d][i]
    <3>1. n \in 1 .. rd[d] /\ Succeeded(d, n)
      BY <2>4, <2>5 DEF ToldInv, Succeeded, IsRes
    <3>2. routes[m] = d
      BY <1>2, <2>1, <2>2, <2>3, <3>1
    <3>3. CASE d # c
      BY <1>4, <3>2, <3>3, RouteKept
    <3>4. CASE d = c /\ routes' # routes
      <4>1. \/ /\ rd[c] < Len(sent[c])
               /\ Claims(c) \/ Releases(c)
            \/ pc'[c] = "close"
        BY <1>4, <3>4, RouteCauses
      <4>2. rd[c] < Len(sent[c])
        BY <3>4, <4>1
      <4>3. Here(c) \in n + 1 .. Len(sent[c])
        BY <1>0, <3>1, <3>4, <4>2 DEF Here
      <4>4. ~IsRelease(Cur(c), m)
        BY <1>0, <2>3, <3>4, <4>3 DEF Cur, Here
      <4>5. routes \in [Name -> Conn \cup {NoConn}]
        BY DEF TypeInv, TypeOK
      <4> QED  BY <3>2, <3>4, <4>1, <4>4, <4>5, ConnAssumption DEF Claims, Releases
    <3> QED  BY <3>2, <3>3, <3>4
  <2>6. CASE ~(i \in DOMAIN out[d] /\ out'[d][i] = out[d][i])
    <3>1. pc[c] = "reply" /\ d = ans[c].to /\ out'[d][i] = Res(c) /\ Finish(c)
      BY <1>4, <2>4, <2>6, NewMessage, MessageKinds DEF IsRes
    <3>2. n = ans[c].id /\ ans[c].code = "true"
      BY <2>4, <3>1 DEF Res
    <3>3. Granted(c) /\ d = c /\ n = Here(c)
      BY <3>1, <3>2 DEF GrantInv, Granted
    <3>4. IsRegister(Cur(c), m)
      BY <2>1, <3>3 DEF Cur
    <3>5. routes[m] = c
      BY <3>3, <3>4 DEF Granted
    <3>6. rd'[c] = rd[c] + 1 /\ rd[c] \in Nat
      BY <3>1 DEF Finish, TypeInv, TypeOK
    <3>7. routes' = routes
      BY <1>4, <3>6, RouteCauses
    <3> QED  BY <3>3, <3>5, <3>7
  <2> QED  BY <2>5, <2>6
<1> QED  BY <1>1, <1>3, <1>4 DEF Next

(* A client that was told its $/register succeeded owns the route until the  *)
(* router has taken up its own $/unregister or $/reset, or has ended its     *)
(* connection, whatever the other clients ask for meanwhile.                 *)
THEOREM RegistrationsHonoured == Spec => []RegistrationHonoured
<1>1. Init => GrantInv /\ ToldInv /\ RegistrationHonoured
  BY DEF Init, NewConnection, GrantInv, ToldInv, RegistrationHonoured
<1>2. Spec => [](TypeInv /\ GrantInv /\ ToldInv /\ RegistrationHonoured)
  BY <1>1, InitType, StepType, StepGrant, StepTold, StepHonour, PTL DEF Spec
<1> QED  BY <1>2, PTL

(***************************************************************************)
(* Calls reach only clients that asked for the name.                        *)
(***************************************************************************)

(* Having asked is for good.                                                 *)
LEMMA RegisteredKept ==
    ASSUME TypeInv, TypeOK', SentKept, NEW c \in Conn, rd'[c] = rd[c] \/ rd'[c] = rd[c] + 1,
           NEW m, Registered(c, m)
    PROVE  Registered(c, m)'
<1>1. PICK n \in DOMAIN sent[c] : n <= Here(c) /\ IsRegister(sent[c][n], m)
  BY DEF Registered
<1>2. /\ sent[c] \in Seq(Packet) /\ sent'[c] \in Seq(Packet)
      /\ rd[c] \in Nat /\ rd'[c] \in Nat
  BY DEF TypeInv, TypeOK
<1>3. Len(sent[c]) <= Len(sent'[c]) /\ \A k \in 1 .. Len(sent[c]) : sent'[c][k] = sent[c][k]
  BY DEF SentKept
<1>4. n \in 1 .. Len(sent[c]) /\ n \in DOMAIN sent'[c]
  BY <1>2, <1>3
<1>5. sent'[c][n] = sent[c][n] /\ n <= rd'[c] + 1
  BY <1>1, <1>2, <1>3, <1>4 DEF Here
<1> QED  BY <1>1, <1>4, <1>5 DEF Registered, Here

LEMMA StepServe == TypeInv /\ ServeInv /\ [Next]_vars => ServeInv'
<1> SUFFICES ASSUME TypeInv, ServeInv, [Next]_vars PROVE ServeInv'
  OBVIOUS
<1>0. TypeOK /\ TypeOK' /\ routes \in [Name -> Conn \cup {NoConn}]
  BY StepType DEF TypeInv, TypeOK
<1>1. CASE UNCHANGED vars
  BY <1>1 DEF vars, ServeInv, Registered, Here, Cur
<1>2. ASSUME NEW d \in Conn, pc[d] \in Directed
      PROVE  rd[d] < Len(sent[d]) /\ fwd[d].to \in Conn /\ Registered(fwd[d].to, Cur(d).method)
  BY <1>2 DEF TypeInv, LoopInv, LoopOK, Calling, ServeInv
<1>3. ASSUME NEW c \in Conn, Client(c) PROVE ServeInv'
  <2>1. /\ UNCHANGED <<rd, routes, fwd>> /\ SentKept
        /\ \A d \in Conn : pc'[d] = pc[d] \/ pc'[d] = "idle"
    BY <1>3, ClientFrame
  <2>2. ASSUME NEW d \in Conn, NEW m, Registered(d, m) PROVE Registered(d, m)'
    BY <1>0, <2>1, <2>2, RegisteredKept
  <2>3. ASSUME NEW m \in Name, routes'[m] # NoConn PROVE Registered(routes[m], m)'
    <3>1. PICK e \in Conn : e = routes[m]
      BY <1>0, <2>1, <2>3
    <3> QED  BY <2>1, <2>2, <2>3, <3>1 DEF ServeInv
  <2>4. ASSUME NEW d \in Conn, pc'[d] \in Directed
        PROVE  Registered(fwd[d].to, Cur(d).method)'
    <3>1. pc[d] \in Directed
      BY <2>1, <2>4 DEF Directed, Sending
    <3>2. Cur(d)' = Cur(d)
      BY <1>0, <1>2, <2>1, <3>1, CurKept
    <3>3. PICK e, m : e \in Conn /\ e = fwd[d].to /\ m = Cur(d).method
      BY <1>2, <3>1
    <3>4. Registered(e, m)'
      BY <1>2, <2>2, <3>1, <3>3
    <3> QED  BY <2>1, <3>2, <3>3, <3>4
  <2> QED  BY <2>3, <2>4 DEF ServeInv
<1>4. ASSUME NEW c \in Conn, connectionLoop(c) PROVE ServeInv'
  <2>1. /\ sent' = sent /\ OthersIdle(c)
        /\ rd'[c] = rd[c] \/ rd'[c] = rd[c] + 1
    BY <1>4, LoopKeeps
  <2>2. SentKept /\ \A d \in Conn : rd'[d] = rd[d] \/ rd'[d] = rd[d] + 1
    BY <1>0, <2>1 DEF SentKept, OthersIdle, TypeOK
  <2>3. ASSUME NEW d \in Conn, NEW m, Registered(d, m) PROVE Registered(d, m)'
    BY <1>0, <2>2, <2>3, RegisteredKept
  <2>4. ASSUME NEW m \in Name, routes'[m] # NoConn PROVE Registered(routes[m], m)'
    <3>1. CASE routes'[m] = routes[m]
      <4>1. PICK e \in Conn : e = routes[m] /\ e = routes'[m]
        BY <1>0, <2>4, <3>1
      <4> QED  BY <2>3, <2>4, <3>1, <4>1 DEF ServeInv
    <3>2. CASE routes'[m] # routes[m]
      <4>1. /\ rd'[c] = rd[c] /\ rd[c] < Len(sent[c])
            /\ Claims(c)
        BY <1>0, <1>4, <2>4, <3>2, RouteCauses DEF Releases, Leaves
      <4>2. routes'[m] = c /\ IsRegister(Cur(c), m)
        BY <1>0, <3>2, <4>1 DEF Claims
      <4>3. Here(c)' \in DOMAIN sent'[c] /\ Here(c)' <= Here(c)' /\ IsRegister(Cur(c), m)'
        BY <1>0, <2>1, <4>1, <4>2 DEF Here, TypeOK, Cur
      <4>4. Registered(c, m)'
        BY <4>3 DEF Registered, Cur
      <4> QED  BY <4>2, <4>4
    <3> QED  BY <3>1, <3>2
  <2>5. ASSUME NEW d \in Conn, pc'[d] \in Directed
        PROVE  Registered(fwd[d].to, Cur(d).method)'
    <3>1. CASE pc[d] \in Directed /\ fwd'[d].to = fwd[d].to /\ rd'[d] = rd[d]
      <4>1. Cur(d)' = Cur(d)
        BY <2>1, <3>1 DEF Cur, Here
      <4>2. PICK e, m : e \in Conn /\ e = fwd[d].to /\ m = Cur(d).method
        BY <1>2, <3>1
      <4>3. Registered(e, m)'
        BY <1>2, <2>3, <3>1, <4>2
      <4> QED  BY <3>1, <4>1, <4>2, <4>3
    <3>2. CASE d = c /\ Aims(c)
      <4>1. Cur(c)' = Cur(c)
        BY <1>4, <2>1, <2>5, <3>2, DirectSteps DEF Cur, Here
      <4>2. PICK e \in Conn, m \in Name : e = routes[m] /\ m = Cur(c).method /\ e = fwd'[c].to
        BY <1>0, <3>2 DEF Aims, Call
      <4>3. Registered(e, m)
        BY <4>2, ConnAssumption DEF ServeInv
      <4>4. Registered(e, m)'
        BY <2>3, <4>3
      <4> QED  BY <3>2, <4>1, <4>2, <4>4
    <3> QED  BY <1>4, <2>1, <2>5, <3>1, <3>2, DirectSteps DEF OthersIdle
  <2> QED  BY <2>4, <2>5 DEF ServeInv
<1> QED  BY <1>1, <1>3, <1>4 DEF Next

LEMMA StepRegistrants ==
    TypeInv /\ ServeInv /\ OnlyRegistrantsServe /\ [Next]_vars => OnlyRegistrantsServe'
<1> SUFFICES ASSUME TypeInv, ServeInv, OnlyRegistrantsServe, [Next]_vars
             PROVE  OnlyRegistrantsServe'
  OBVIOUS
<1>0. TypeOK /\ TypeOK'
  BY StepType DEF TypeInv
<1>1. CASE UNCHANGED vars
  BY <1>1 DEF vars, OnlyRegistrantsServe, Here
<1>2. ASSUME NEW d \in Conn, NEW i \in DOMAIN out[d], ~IsRes(out[d][i])
      PROVE  Registered(d, out[d][i].method)
  <2>1. out[d][i] \in Message
    BY <1>0 DEF TypeOK
  <2> QED  BY <1>2, <2>1 DEF OnlyRegistrantsServe, Registered, IsRes, Message
<1>3. ASSUME \A d \in Conn : \A i \in DOMAIN out'[d] :
                 out'[d][i].type \in {"req", "not"} => Registered(d, out[d][i].method)'
      PROVE  OnlyRegistrantsServe'
  BY <1>3 DEF OnlyRegistrantsServe, Registered
<1>4. ASSUME NEW c \in Conn, Client(c) PROVE OnlyRegistrantsServe'
  <2>1. UNCHANGED <<rd, out>> /\ SentKept
    BY <1>4, ClientFrame
  <2>2. ASSUME NEW d \in Conn, NEW i \in DOMAIN out'[d], out'[d][i].type \in {"req", "not"}
        PROVE  Registered(d, out[d][i].method)'
    <3>1. PICK m : m = out[d][i].method /\ m = out'[d][i].method
      BY <2>1
    <3>2. Registered(d, m)
      BY <1>2, <2>1, <2>2, <3>1 DEF IsRes
    <3>3. Registered(d, m)'
      BY <1>0, <2>1, <3>2, RegisteredKept
    <3> QED  BY <3>1, <3>3
  <2> QED  BY <1>3, <2>2
<1>5. ASSUME NEW c \in Conn, connectionLoop(c) PROVE OnlyRegistrantsServe'
  <2>1. /\ sent' = sent /\ OthersIdle(c)
        /\ rd'[c] = rd[c] \/ rd'[c] = rd[c] + 1
    BY <1>5, LoopKeeps
  <2>2. SentKept /\ \A d \in Conn : rd'[d] = rd[d] \/ rd'[d] = rd[d] + 1
    BY <1>0, <2>1 DEF SentKept, OthersIdle, TypeOK
  <2>3. ASSUME NEW d \in Conn, NEW i \in DOMAIN out'[d], out'[d][i].type \in {"req", "not"}
        PROVE  Registered(d, out[d][i].method)'
    <3>1. CASE i \in DOMAIN out[d] /\ out'[d][i] = out[d][i]
      <4>1. PICK m : m = out[d][i].method /\ m = out'[d][i].method
        BY <3>1
      <4>2. Registered(d, m)
        BY <1>2, <2>3, <3>1, <4>1 DEF IsRes
      <4>3. Registered(d, m)'
        BY <1>0, <2>2, <4>2, RegisteredKept
      <4> QED  BY <4>1, <4>3
    <3>2. CASE ~(i \in DOMAIN out[d] /\ out'[d][i] = out[d][i])
      <4>1. /\ pc[c] \in {"notify", "write"} /\ d = fwd[c].to
            /\ out'[d][i] \in {Note(c), Req(c)}
        BY <1>5, <2>3, <3>2, NewMessage, MessageKinds
      <4>2. PICK m : m = Cur(c).method /\ m = out'[d][i].method
        BY <4>1 DEF Note, Req
      <4>3. Registered(d, m)
        BY <4>1, <4>2 DEF ServeInv, Directed, Sending
      <4>4. Registered(d, m)'
        BY <1>0, <2>2, <4>3, RegisteredKept
      <4> QED  BY <4>2, <4>4
    <3> QED  BY <3>1, <3>2
  <2> QED  BY <1>3, <2>3
<1> QED  BY <1>1, <1>4, <1>5 DEF Next

(* Requests and notifications reach only a client that asked for that method *)
(* to be registered, however lookups race with registrations.                *)
THEOREM RegistrantsServe == Spec => []OnlyRegistrantsServe
<1>1. Init => ServeInv /\ OnlyRegistrantsServe
  BY DEF Init, NewConnection, ServeInv, OnlyRegistrantsServe, Directed, Sending
<1>2. Spec => [](TypeInv /\ ServeInv /\ OnlyRegistrantsServe)
  BY <1>1, InitType, StepType, StepServe, StepRegistrants, PTL DEF Spec
<1> QED  BY <1>2, PTL

(***************************************************************************)
(* A client's calls reach a server in the order they were sent: a call is   *)
(* written while its packet is at hand, and everything delivered before     *)
(* belongs to an earlier packet (PastCalls).                                *)
(***************************************************************************)
LEMMA StepPast == TypeInv /\ PastCalls /\ [Next]_vars => PastCalls'
<1> SUFFICES ASSUME TypeInv, PastCalls, [Next]_vars PROVE PastCalls'
  OBVIOUS
<1>0. \A d \in Conn : rd[d] \in Nat
  BY DEF TypeInv, TypeOK
<1>1. CASE UNCHANGED vars
  BY <1>1 DEF vars, PastCalls
<1>2. ASSUME NEW c \in Conn, Client(c) PROVE PastCalls'
  BY <1>2, ClientFrame DEF PastCalls
<1>3. ASSUME NEW c \in Conn, connectionLoop(c) PROVE PastCalls'
  <2> SUFFICES ASSUME NEW d \in Conn, NEW i \in DOMAIN out'[d], ~IsRes(out'[d][i])
               PROVE  out'[d][i].call[2] <= rd'[out'[d][i].call[1]]
    BY DEF PastCalls
  <2>1. OthersIdle(c) /\ (rd'[c] = rd[c] \/ rd'[c] = rd[c] + 1)
    BY <1>3, LoopKeeps
  <2>2. CASE i \in DOMAIN out[d] /\ out'[d][i] = out[d][i]
    <3>1. out[d][i] \in Message
      BY <2>2 DEF TypeInv, TypeOK
    <3>2. out[d][i].call \in CallId
      BY <3>1 DEF Message
    <3>3. PICK e \in Conn, n \in Nat : e = out[d][i].call[1] /\ n = out[d][i].call[2]
      BY <3>2 DEF CallId
    <3>4. n <= rd[e]
      BY <2>2, <3>3 DEF PastCalls
    <3>5. rd'[e] = rd[e] \/ rd'[e] = rd[e] + 1
      BY <2>1 DEF OthersIdle
    <3> QED  BY <1>0, <2>2, <3>3, <3>4, <3>5
  <2>3. CASE ~(i \in DOMAIN out[d] /\ out'[d][i] = out[d][i])
    <3>1. out'[d][i] \in {Note(c), Req(c)} /\ Finish(c)
      BY <1>3, <2>3, NewMessage, MessageKinds DEF IsRes
    <3>2. out'[d][i].call = <<c, Here(c)>>
      BY <3>1 DEF Note, Req
    <3>3. rd'[c] = rd[c] + 1
      BY <3>1 DEF Finish, TypeInv, TypeOK
    <3> QED  BY <1>0, <3>2, <3>3 DEF Here
  <2> QED  BY <2>2, <2>3
<1> QED  BY <1>1, <1>2, <1>3 DEF Next

LEMMA StepOrder ==
    TypeInv /\ PastCalls /\ ForwardedInOrder /\ [Next]_vars => ForwardedInOrder'
<1> SUFFICES ASSUME TypeInv, PastCalls, ForwardedInOrder, [Next]_vars PROVE ForwardedInOrder'
  OBVIOUS
<1>0. \A d \in Conn : /\ DOMAIN out[d] = 1 .. Len(out[d]) /\ Len(out[d]) \in Nat
                      /\ rd[d] \in Nat
                      /\ \A i \in DOMAIN out[d] : out[d][i] \in Message
  BY DEF TypeInv, TypeOK
<1>1. CASE UNCHANGED vars
  BY <1>1 DEF vars, ForwardedInOrder
<1>2. ASSUME NEW c \in Conn, Client(c) PROVE ForwardedInOrder'
  BY <1>2, ClientFrame DEF ForwardedInOrder
<1>3. ASSUME NEW c \in Conn, connectionLoop(c) PROVE ForwardedInOrder'
  <2> SUFFICES ASSUME NEW d \in Conn, NEW i \in DOMAIN out'[d], NEW j \in DOMAIN out'[d],
                      i < j, ~IsRes(out'[d][i]), ~IsRes(out'[d][j]),
                      out'[d][i].call[1] = out'[d][j].call[1]
               PROVE  out'[d][i].call[2] < out'[d][j].call[2]
    BY DEF ForwardedInOrder
  <2>1. DOMAIN out'[d] = 1 .. Len(out'[d]) /\ Len(out'[d]) \in Nat
    BY <1>3, StepType DEF Next, TypeInv, TypeOK
  <2>2. CASE j \in DOMAIN out[d] /\ out'[d][j] = out[d][j]
    <3>1. i \in DOMAIN out[d] /\ out'[d][i] = out[d][i]
      BY <1>0, <1>3, <2>1, <2>2, OutKept
    <3> QED  BY <2>2, <3>1 DEF ForwardedInOrder
  <2>3. CASE ~(j \in DOMAIN out[d] /\ out'[d][j] = out[d][j])
    <3>1. j = Len(out[d]) + 1 /\ out'[d][j] \in {Note(c), Req(c)}
      BY <1>3, <2>3, NewMessage, MessageKinds DEF IsRes
    <3>2. out'[d][j].call = <<c, Here(c)>>
      BY <3>1 DEF Note, Req
    <3>3. i \in DOMAIN out[d] /\ out'[d][i] = out[d][i]
      BY <1>0, <1>3, <2>1, <3>1, OutKept
    <3>4. out[d][i].call[1] = c /\ out[d][i].call[2] <= rd[c]
      BY <3>2, <3>3 DEF PastCalls
    <3>5. out[d][i].call \in CallId
      BY <1>0, <3>3 DEF Message
    <3>6. out[d][i].call[2] \in Nat
      BY <3>5 DEF CallId
    <3> QED  BY <1>0, <3>2, <3>3, <3>4, <3>6 DEF Here
  <2> QED  BY <2>2, <2>3
<1> QED  BY <1>1, <1>2, <1>3 DEF Next

(* Requests and notifications of one client reach one server in the order    *)
(* they were sent, each at most once.                                        *)
THEOREM CallsForwardedInOrder == Spec => []ForwardedInOrder
<1>1. Init => PastCalls /\ ForwardedInOrder
  BY DEF Init, PastCalls, ForwardedInOrder
<1>2. Spec => [](TypeInv /\ PastCalls /\ ForwardedInOrder)
  BY <1>1, InitType, StepType, StepPast, StepOrder, PTL DEF Spec
<1> QED  BY <1>2, PTL

(***************************************************************************)
(* Where a request is between being read and being answered.                *)
(***************************************************************************)
LEMMA StepStage == TypeInv /\ RouteInv /\ StageInv /\ [Next]_vars => StageInv'
<1> SUFFICES ASSUME TypeInv, RouteInv, StageInv, [Next]_vars PROVE StageInv'
  OBVIOUS
<1>0. TypeOK
  BY DEF TypeInv
<1>1. CASE UNCHANGED vars
  BY <1>1 DEF vars, StageInv, Here, Cur
<1>2. ASSUME NEW d \in Conn, pc[d] \in Directed \cup {"reply"}
      PROVE  rd[d] < Len(sent[d]) /\ (pc[d] \in Directed => fwd[d].to \in Conn)
  BY <1>2 DEF TypeInv, LoopInv, LoopOK, Calling
<1>3. ASSUME NEW c \in Conn, Client(c) PROVE StageInv'
  <2> SUFFICES ASSUME NEW d \in Conn
               PROVE  /\ pc'[d] = "new" => rd'[d] = 0
                      /\ pc'[d] = "notify" => Cur(d)'.type = "not"
                      /\ pc'[d] \in Directed => pc'[fwd'[d].to] # "new"
                      /\ pc'[d] \in {"reply", "undo"} /\ Cur(d)'.type = "req" =>
                             ans'[d].to = d /\ ans'[d].id = Here(d)'
    BY DEF StageInv
  <2>1. UNCHANGED <<rd, fwd, ans>> /\ SentKept
    BY <1>3, ClientFrame
  <2>2. \A e \in Conn : /\ pc'[e] = pc[e] \/ pc'[e] = "idle"
                        /\ pc'[e] = "new" => pc[e] = "new"
    BY <1>3, ClientFrame
  <2>3. pc[d] \in Directed \cup {"reply"} => Here(d)' = Here(d) /\ Cur(d)' = Cur(d)
    BY <1>0, <1>2, <2>1, CurKept
  <2> QED  BY <1>2, <2>1, <2>2, <2>3 DEF StageInv, Directed, Sending
<1>4. ASSUME NEW c \in Conn, connectionLoop(c) PROVE StageInv'
  <2>1. sent' = sent /\ OthersIdle(c)
    BY <1>4, LoopKeeps
  <2>2. pc'[c] # "new" /\ \A e \in Conn : pc'[e] = "new" => pc[e] = "new"
    BY <1>4, <2>1, RouteSteps DEF OthersIdle
  <2>3. ASSUME NEW d \in Conn, d # c
        PROVE  /\ pc'[d] = "new" => rd'[d] = 0
               /\ pc'[d] = "notify" => Cur(d)'.type = "not"
               /\ pc'[d] \in Directed => pc'[fwd'[d].to] # "new"
               /\ pc'[d] \in {"reply", "undo"} /\ Cur(d)'.type = "req" =>
                      ans'[d].to = d /\ ans'[d].id = Here(d)'
    BY <1>2, <2>1, <2>2, <2>3 DEF OthersIdle, StageInv, Here, Cur
  <2>4. ASSUME pc'[c] \in Directed
        PROVE  pc'[fwd'[c].to] # "new" /\ (pc'[c] = "notify" => Cur(c)'.type = "not")
    <3>1. Cur(c)' = Cur(c)
      BY <1>4, <2>1, <2>4, DirectSteps DEF Cur, Here
    <3>2. CASE Aims(c)
      <4>1. Cur(c).method \in Name /\ routes[Cur(c).method] \in Conn
        BY <1>0, <3>2 DEF Aims, Call, TypeOK
      <4>2. pc[fwd'[c].to] # "new" /\ fwd'[c].to \in Conn
        BY <3>2, <4>1 DEF Aims, RouteInv
      <4> QED  BY <2>2, <3>1, <3>2, <4>2 DEF Aims
    <3>3. CASE pc[c] \in Directed /\ pc'[c] \in Sending /\ fwd'[c].to = fwd[c].to
      BY <1>2, <2>2, <3>3 DEF StageInv, Sending
    <3> QED  BY <1>4, <2>4, <3>2, <3>3, DirectSteps
  <2>5. ASSUME pc'[c] \in {"reply", "undo"}, Cur(c)'.type = "req"
        PROVE  ans'[c].to = c /\ ans'[c].id = Here(c)'
    <3>1. /\ Here(c)' = Here(c) /\ Cur(c)' = Cur(c)
          /\ Grants(c) \/ Refuses(c) \/ Relays(c) \/ Keeps(c)
      BY <1>4, <2>1, <2>5, AnswerSteps DEF Here, Cur
    <3> QED  BY <2>5, <3>1 DEF Grants, Refuses, Relays, Keeps, OwnAnswer, StageInv
  <2>6. pc'[c] = "notify" => pc'[c] \in Directed
    BY DEF Directed
  <2> QED  BY <2>2, <2>3, <2>4, <2>5, <2>6 DEF StageInv
<1> QED  BY <1>1, <1>3, <1>4 DEF Next

(* The four steps that touch the tables.                                     *)
LEMMA TableSteps ==
    ASSUME TypeInv, NEW c \in Conn, connectionLoop(c)
    PROVE  \/ AllocId(c) \/ InsertRequest(c) \/ UndoRequest(c) \/ HandleResponse(c)
           \/ /\ UNCHANGED <<active, lastOutRequestsIndex>> /\ pc'[c] # "insert"
              /\ pc'[c] = "undo" => pc[c] = "write" /\ rd'[c] = rd[c] /\ fwd'[c] = fwd[c]
<1> USE DEF clientVars, tableVars, loopVars
<1>0. pc \in [Conn -> Steps]
  BY DEF TypeInv, TypeOK
<1>1. CASE ControlCall(c)
  BY <1>0, <1>1 DEF ControlCall, HandleRegister, HandleUnregister, HandleReset,
     HandleSetMaxMsgSize, NotifySetMaxMsgSize, Reply, Finish, Goto
<1>2. CASE CallInternal(c) \/ InternalReturns(c) \/ LookupRoute(c) \/ WriteNotification(c)
  BY <1>0, <1>2 DEF CallInternal, InternalReturns, LookupRoute, WriteNotification, Reply,
     Finish, Goto
<1>3. CASE WriteRequest(c)
  BY <1>0, <1>3 DEF WriteRequest, Finish, Goto
<1>4. CASE SendReply(c)
  BY <1>0, <1>4 DEF SendReply, Finish, Goto
<1>5. CASE SkipInvalid(c) \/ StopReading(c) \/ DropRoutes(c) \/ Close(c)
  BY <1>0, <1>5 DEF SkipInvalid, StopReading, DropRoutes, Close, Finish, Goto
<1> QED  BY <1>1, <1>2, <1>3, <1>4, <1>5 DEF connectionLoop, Forward

LEMMA StepTable ==
    TypeInv /\ RemapInv /\ StageInv /\ TableInv /\ [Next]_vars => TableInv'
<1> SUFFICES ASSUME TypeInv, RemapInv, StageInv, TableInv, [Next]_vars, NoWrap'
             PROVE  SlotInv'
  BY DEF TableInv
<1>0. NoWrap /\ MapInv /\ SlotInv /\ TypeOK
  BY CountersGrow DEF RemapInv, TableInv, TypeInv
<1>1. \A d \in Conn : lastOutRequestsIndex[d] \in Nat /\ \A k \in Ids : k \in Nat
  BY <1>0, IdModAssumption DEF TypeOK, Ids
<1>2. ASSUME NEW d \in Conn, pc[d] \in Sending
      PROVE  fwd[d].to \in Conn /\ fwd[d].id \in Ids
  BY <1>0, <1>2 DEF TypeInv, TypeOK, LoopInv, LoopOK, Directed, Target
<1>3. CASE UNCHANGED vars
  BY <1>0, <1>3 DEF vars, SlotInv, Here
<1>4. ASSUME NEW c \in Conn, Client(c) PROVE SlotInv'
  <2>1. UNCHANGED <<rd, active, lastOutRequestsIndex, fwd>>
    BY <1>4, ClientFrame
  <2>2. \A d \in Conn : /\ pc'[d] = pc[d] \/ pc'[d] = "idle"
                        /\ pc'[d] = "new" => pc[d] = "new"
    BY <1>4, ClientFrame
  <2> QED  BY <1>0, <2>1, <2>2 DEF SlotInv, Here
<1>5. ASSUME NEW c \in Conn, connectionLoop(c) PROVE SlotInv'
  <2>1. OthersIdle(c) /\ \A d \in Conn : pc'[d] = "new" => pc[d] = "new"
    BY <1>5, LoopKeeps, RouteSteps DEF OthersIdle
  <2>2. ASSUME NEW d \in Conn, d # c
        PROVE  pc'[d] = pc[d] /\ fwd'[d] = fwd[d] /\ Here(d)' = Here(d)
    BY <2>1, <2>2 DEF OthersIdle, Here
  <2>3. CASE AllocId(c)
    <3> DEFINE d == fwd[c].to
    <3>1. /\ d \in Conn /\ active' = active
          /\ lastOutRequestsIndex' = [lastOutRequestsIndex EXCEPT ![d] = @ + 1]
          /\ fwd' = [fwd EXCEPT ![c].id = NextId(d)] /\ pc' = [pc EXCEPT ![c] = "insert"]
      BY <2>3 DEF AllocId, Goto, TypeInv, LoopInv, LoopOK, Directed
    <3>2. fwd'[c].to = d /\ fwd'[c].id = NextId(d) /\ pc'[c] = "insert"
      BY <1>0, <3>1 DEF TypeOK, Target
    <3>3. lastOutRequestsIndex'[d] = lastOutRequestsIndex[d] + 1
      BY <1>0, <3>1 DEF TypeOK
    <3>4. NextId(d) = lastOutRequestsIndex[d] + 1 /\ NextId(d) \in Ids
      BY <1>1, <3>1, <3>3, IdModAssumption DEF NoWrap, NextId, Ids
    <3>5. active[d][NextId(d)] = NoReq
      BY <1>0, <1>1, <3>1, <3>4 DEF SlotInv
    <3>6. \A e \in Conn : lastOutRequestsIndex'[e] \in {lastOutRequestsIndex[e], lastOutRequestsIndex[e] + 1}
      BY <1>0, <3>1 DEF TypeOK
    <3>7. \A e \in Conn : \A k \in Ids :
              active'[e][k] # NoReq => k <= lastOutRequestsIndex'[e] /\ pc'[e] # "new"
      BY <1>0, <1>1, <2>1, <3>1, <3>6 DEF SlotInv
    <3>8. \A e \in Conn :
             /\ pc'[e] = "insert" => active'[fwd'[e].to][fwd'[e].id] = NoReq
             /\ pc'[e] = "undo" => active'[fwd'[e].to][fwd'[e].id]
                                     \in {NoReq, [to |-> e, id |-> Here(e)']}
      BY <1>0, <2>2, <3>1, <3>2, <3>5 DEF SlotInv
    <3> QED  BY <3>7, <3>8 DEF SlotInv
  <2>4. CASE InsertRequest(c)
    <3>1. PICK d \in Conn, k \in Ids : d = fwd[c].to /\ k = fwd[c].id
      BY <1>2, <2>4 DEF InsertRequest, Sending
    <3>2. /\ active' = [active EXCEPT ![d][k] = [to |-> c, id |-> Here(c)]]
          /\ UNCHANGED <<lastOutRequestsIndex, fwd, rd>>
          /\ pc[c] = "insert" /\ pc'[c] = "write"
      BY <1>0, <2>4, <3>1 DEF InsertRequest, Goto, TypeOK
    <3>3. /\ active'[d][k] = [to |-> c, id |-> Here(c)]
          /\ \A e \in Conn, j \in Ids : e # d \/ j # k => active'[e][j] = active[e][j]
      BY <1>0, <3>2 DEF TypeOK
    <3>4. k <= lastOutRequestsIndex[d] /\ pc[d] # "new"
      BY <1>0, <3>1, <3>2 DEF MapInv, HeldIds, StageInv, Directed, Sending
    <3>5. \A e \in Conn : \A j \in Ids :
              active'[e][j] # NoReq => j <= lastOutRequestsIndex'[e] /\ pc'[e] # "new"
      BY <1>0, <2>1, <3>2, <3>3, <3>4 DEF SlotInv
    <3>6. ASSUME NEW e \in Conn, pc'[e] \in {"insert", "undo"}
          PROVE  /\ e # c /\ pc'[e] = pc[e]
                 /\ active'[fwd[e].to][fwd[e].id] = active[fwd[e].to][fwd[e].id]
      <4>1. e # c /\ pc[e] = pc'[e] /\ pc[e] \in Sending /\ pc[c] \in Sending
        BY <2>2, <3>2, <3>6 DEF Sending
      <4>2. fwd[e].to # d \/ fwd[e].id # k
        BY <1>0, <3>1, <4>1 DEF MapInv, HeldIds
      <4> QED  BY <1>2, <3>3, <4>1, <4>2
    <3>7. \A e \in Conn :
             /\ pc'[e] = "insert" => active'[fwd'[e].to][fwd'[e].id] = NoReq
             /\ pc'[e] = "undo" => active'[fwd'[e].to][fwd'[e].id]
                                     \in {NoReq, [to |-> e, id |-> Here(e)']}
      BY <1>0, <2>2, <3>2, <3>6 DEF SlotInv
    <3> QED  BY <3>5, <3>7 DEF SlotInv
  <2>5. ASSUME \A e \in Conn, j \in Ids : active'[e][j] \in {active[e][j], NoReq},
               UNCHANGED <<lastOutRequestsIndex, fwd>>, pc'[c] \notin {"insert", "undo"}
        PROVE  SlotInv'
    <3>1. \A e \in Conn : \A j \in Ids :
              active'[e][j] # NoReq => j <= lastOutRequestsIndex'[e] /\ pc'[e] # "new"
      BY <1>0, <2>1, <2>5 DEF SlotInv
    <3>2. ASSUME NEW e \in Conn, pc'[e] \in {"insert", "undo"}
          PROVE  /\ e # c /\ pc'[e] = pc[e]
                 /\ active'[fwd[e].to][fwd[e].id] \in {active[fwd[e].to][fwd[e].id], NoReq}
      <4>1. e # c /\ pc[e] = pc'[e] /\ pc[e] \in Sending
        BY <2>2, <2>5, <3>2 DEF Sending
      <4> QED  BY <1>2, <2>5, <4>1
    <3>3. \A e \in Conn :
             /\ pc'[e] = "insert" => active'[fwd'[e].to][fwd'[e].id] = NoReq
             /\ pc'[e] = "undo" => active'[fwd'[e].to][fwd'[e].id]
                                     \in {NoReq, [to |-> e, id |-> Here(e)']}
      BY <1>0, <2>2, <2>5, <3>2 DEF SlotInv
    <3> QED  BY <3>1, <3>3 DEF SlotInv
  <2>6. CASE UndoRequest(c)
    <3>1. PICK d \in Conn, k \in Ids : d = fwd[c].to /\ k = fwd[c].id
      BY <1>2, <2>6 DEF UndoRequest, Sending
    <3>2. active' = [active EXCEPT ![d][k] = NoReq]
      BY <2>6, <3>1 DEF UndoRequest
    <3>3. UNCHANGED <<lastOutRequestsIndex, fwd, rd>> /\ pc'[c] = "reply"
      BY <1>0, <2>6 DEF UndoRequest, Goto, TypeOK
    <3>4. /\ active'[d][k] = NoReq
          /\ \A e \in Conn, j \in Ids : e # d \/ j # k => active'[e][j] = active[e][j]
      BY <1>0, <3>2 DEF TypeOK
    <3> QED  BY <2>5, <3>3, <3>4
  <2>7. CASE HandleResponse(c)
    <3>1. Cur(c) \in Response
      BY <1>0, <2>7, CurrentPacket, PacketKinds DEF HandleResponse, Incoming, Receive
    <3>2. PICK k \in Ids : k = Cur(c).id
      BY <3>1 DEF Response
    <3>3. /\ active' = active \/ active' = [active EXCEPT ![c][k] = NoReq]
          /\ UNCHANGED <<lastOutRequestsIndex, fwd>>
      BY <2>7, <3>2 DEF HandleResponse
    <3>4. pc'[c] \in {"idle", "reply"}
      BY <1>0, <2>7 DEF HandleResponse, Finish, Goto, TypeOK
    <3>5. \A e \in Conn, j \in Ids : active'[e][j] \in {active[e][j], NoReq}
      <4>1. CASE active' = active
        BY <4>1
      <4>2. CASE active' = [active EXCEPT ![c][k] = NoReq]
        BY <1>0, <4>2 DEF TypeOK
      <4> QED  BY <3>3, <4>1, <4>2
    <3> QED  BY <2>5, <3>3, <3>4, <3>5
  <2>8. CASE /\ UNCHANGED <<active, lastOutRequestsIndex>> /\ pc'[c] # "insert"
             /\ pc'[c] = "undo" => pc[c] = "write" /\ rd'[c] = rd[c] /\ fwd'[c] = fwd[c]
    <3>1. \A e \in Conn : \A j \in Ids :
              active'[e][j] # NoReq => j <= lastOutRequestsIndex'[e] /\ pc'[e] # "new"
      BY <1>0, <2>1, <2>8 DEF SlotInv
    <3>2. pc'[c] = "undo" => active'[fwd'[c].to][fwd'[c].id] = [to |-> c, id |-> Here(c)']
      BY <1>0, <2>8 DEF MapInv, StoredEntry, Here
    <3>3. \A e \in Conn :
             /\ pc'[e] = "insert" => active'[fwd'[e].to][fwd'[e].id] = NoReq
             /\ pc'[e] = "undo" => active'[fwd'[e].to][fwd'[e].id]
                                     \in {NoReq, [to |-> e, id |-> Here(e)']}
      BY <1>0, <2>2, <2>8, <3>2 DEF SlotInv
    <3> QED  BY <3>1, <3>3 DEF SlotInv
  <2> QED  BY <1>5, <2>3, <2>4, <2>6, <2>7, <2>8, TableSteps
<1> QED  BY <1>3, <1>4, <1>5 DEF Next

(***************************************************************************)
(* No request falls through.                                                *)
(***************************************************************************)
Settled(c, n) == Answered(c, n) \/ Returning(c, n) \/ Waiting(c, n) \/ ~Reachable(c)

(* Running fwdRes delivers the answer, or finds its receiver gone, or is     *)
(* about to try again with a short error.                                    *)
LEMMA ReplyOutcome ==
    ASSUME TypeInv, NEW a \in Conn, SendReply(a), NEW c \in Conn, NEW n,
           ans[a].to = c, ans[a].id = n
    PROVE  Answered(c, n)' \/ Returning(c, n)' \/ ~Reachable(c)'
<1>0. TypeOK /\ pc[a] = "reply" /\ UNCHANGED <<sent, up>>
  BY DEF TypeInv, SendReply, clientVars
<1>1. Res(a) \in Message /\ Res(a).id = n /\ Res(a).type = "res"
  BY <1>0, MessageTypes DEF Res
<1>2. CASE Deliver(c, Res(a))
  <2>1. /\ DOMAIN out'[c] = 1 .. Len(out[c]) + 1 /\ Len(out[c]) \in Nat
        /\ out'[c][Len(out[c]) + 1] = Res(a)
    BY <1>0, <1>1, <1>2, DeliverFacts
  <2> QED  BY <1>1, <2>1 DEF Answered, IsRes
<1>3. CASE ~Reachable(c) /\ Finish(a)
  <2>1. ~Reachable(c)'
    BY <1>0, <1>3 DEF Reachable, Finish, Goto, TypeOK
  <2> QED  BY <2>1
<1>4. CASE /\ ans' = [ans EXCEPT ![a].code = "BufferLimitExceeded", ![a].big = FALSE]
           /\ UNCHANGED pc
  <2>1. ans[a] \in [to : Conn, id : Nat, code : Code, call : CallId, big : BOOLEAN]
    BY <1>0, ConnAssumption DEF TypeInv, LoopInv, LoopOK, TypeOK, Answer, NoAns
  <2>2. ans'[a].to = c /\ ans'[a].id = n
    BY <1>0, <1>4, <2>1 DEF TypeOK
  <2> QED  BY <1>0, <1>4, <2>2 DEF Returning
<1> QED  BY <1>2, <1>3, <1>4 DEF SendReply, Written, WriteFails, Res, Reachable

(* A request is done with only by an answer or by a write to its server.     *)
LEMMA FinishCauses ==
    ASSUME TypeInv, StageInv, NEW c \in Conn, connectionLoop(c), rd'[c] # rd[c],
           Cur(c).type = "req"
    PROVE  SendReply(c) \/ (WriteRequest(c) /\ Written(fwd[c].to, Req(c)))
<1> USE DEF clientVars, tableVars, loopVars
<1>1. CASE ControlCall(c)
  BY <1>1 DEF ControlCall, HandleRegister, HandleUnregister, HandleReset,
     HandleSetMaxMsgSize, NotifySetMaxMsgSize, Incoming
<1>2. CASE CallInternal(c) \/ InternalReturns(c) \/ LookupRoute(c)
  BY <1>2 DEF CallInternal, InternalReturns, LookupRoute
<1>3. CASE WriteNotification(c)
  BY <1>3 DEF WriteNotification, StageInv
<1>4. CASE AllocId(c) \/ InsertRequest(c) \/ UndoRequest(c)
  BY <1>4 DEF AllocId, InsertRequest, UndoRequest
<1>5. CASE WriteRequest(c)
  BY <1>5 DEF WriteRequest, Req
<1>6. CASE HandleResponse(c)
  BY <1>6 DEF HandleResponse, Incoming
<1>7. CASE SkipInvalid(c) \/ StopReading(c) \/ DropRoutes(c) \/ Close(c)
  BY <1>7 DEF SkipInvalid, StopReading, DropRoutes, Close, Incoming
<1> QED  BY <1>1, <1>2, <1>3, <1>4, <1>5, <1>6, <1>7 DEF connectionLoop, Forward

(* A goroutine that is answering goes on answering.                          *)
LEMMA ReplyingIs ==
    ASSUME NEW c \in Conn, connectionLoop(c), pc[c] = "reply"
    PROVE  SendReply(c)
BY DEF connectionLoop, ControlCall, Forward, HandleRegister, HandleUnregister, HandleReset,
   HandleSetMaxMsgSize, NotifySetMaxMsgSize, CallInternal, InternalReturns, LookupRoute,
   WriteNotification, AllocId, InsertRequest, WriteRequest, UndoRequest, HandleResponse,
   SkipInvalid, StopReading, DropRoutes, Close, IsCall, Incoming, Receive

(* A request whose entry waits at a server keeps waiting, or its answer is   *)
(* on the way.                                                               *)
LEMMA WaitingKept ==
    ASSUME TypeInv, SlotInv, NEW a \in Conn, connectionLoop(a), NEW c \in Conn,
           NEW n \in 1 .. rd[c], Waiting(c, n)
    PROVE  Waiting(c, n)' \/ Returning(c, n)'
<1>0. TypeOK /\ rd[c] \in Nat
  BY DEF TypeInv, TypeOK
<1>1. PICK d \in Conn, id \in Ids : /\ active[d][id] = [to |-> c, id |-> n]
                                    /\ up[d] => HasRequest(d, id, <<c, n>>)
  BY DEF Waiting
<1>2. active[d][id] # NoReq /\ active[d][id].to = c /\ active[d][id].id = n
  BY <1>1, ConnAssumption DEF NoReq
<1>3. ASSUME active'[d][id] = active[d][id] PROVE Waiting(c, n)'
  <2>1. up' = up
    BY LoopKeeps
  <2>2. HasRequest(d, id, <<c, n>>) => HasRequest(d, id, <<c, n>>)'
    BY OutKept DEF HasRequest
  <2> QED  BY <1>1, <1>3, <2>1, <2>2 DEF Waiting
<1>4. ASSUME pc[a] \in Sending PROVE fwd[a].to \in Conn /\ fwd[a].id \in Ids
  BY <1>0, <1>4 DEF TypeInv, TypeOK, LoopInv, LoopOK, Directed, Target
<1>5. CASE InsertRequest(a)
  <2>1. PICK e \in Conn, k \in Ids : e = fwd[a].to /\ k = fwd[a].id
    BY <1>4, <1>5 DEF InsertRequest, Sending
  <2>2. active' = [active EXCEPT ![e][k] = [to |-> a, id |-> Here(a)]] /\ active[e][k] = NoReq
    BY <1>5, <2>1 DEF InsertRequest, SlotInv
  <2>3. e # d \/ k # id
    BY <1>2, <2>2
  <2> QED  BY <1>0, <1>3, <2>2, <2>3 DEF TypeOK
<1>6. CASE UndoRequest(a)
  <2>1. PICK e \in Conn, k \in Ids : e = fwd[a].to /\ k = fwd[a].id
    BY <1>4, <1>6 DEF UndoRequest, Sending
  <2>2. /\ active' = [active EXCEPT ![e][k] = NoReq]
        /\ active[e][k] \in {NoReq, [to |-> a, id |-> Here(a)]}
    BY <1>6, <2>1 DEF UndoRequest, SlotInv
  <2>3. e # d \/ k # id
    BY <1>0, <1>2, <2>2 DEF Here
  <2> QED  BY <1>0, <1>3, <2>2, <2>3 DEF TypeOK
<1>7. CASE HandleResponse(a)
  <2>1. Cur(a) \in Response
    BY <1>0, <1>7, CurrentPacket, PacketKinds DEF HandleResponse, Incoming, Receive
  <2>2. PICK k \in Ids : k = Cur(a).id
    BY <2>1 DEF Response
  <2>3. CASE active' = active
    BY <1>3, <2>3
  <2>4. CASE active' # active
    <3>1. /\ active' = [active EXCEPT ![a][k] = NoReq]
          /\ ans' = [ans EXCEPT ![a] = [to |-> active[a][k].to, id |-> active[a][k].id,
                          code |-> "peer", call |-> Cur(a).call, big |-> Cur(a).big]]
          /\ pc' = [pc EXCEPT ![a] = "reply"]
      BY <1>7, <2>2, <2>4 DEF HandleResponse, Goto
    <3>2. CASE a = d /\ k = id
      <4>1. ans'[a].to = c /\ ans'[a].id = n /\ pc'[a] = "reply"
        BY <1>0, <1>2, <3>1, <3>2 DEF TypeOK
      <4> QED  BY <4>1 DEF Returning
    <3>3. CASE a # d \/ k # id
      BY <1>0, <1>3, <3>1, <3>3 DEF TypeOK
    <3> QED  BY <3>2, <3>3
  <2> QED  BY <2>3, <2>4
<1>8. CASE AllocId(a)
  BY <1>3, <1>8 DEF AllocId
<1> QED  BY <1>3, <1>5, <1>6, <1>7, <1>8, TableSteps

LEMMA StepLost ==
    TypeInv /\ RemapInv /\ StageInv /\ TableInv /\ GrantInv /\ NoRequestLost /\ [Next]_vars
    => NoRequestLost'
<1> SUFFICES ASSUME TypeInv, RemapInv, StageInv, TableInv, GrantInv, NoRequestLost,
                    [Next]_vars, NoWrap',
                    NEW c \in Conn, NEW n \in 1 .. rd'[c], sent'[c][n].type = "req"
             PROVE  Settled(c, n)'
  BY DEF NoRequestLost, Settled
<1>0. /\ NoWrap /\ MapInv /\ SlotInv /\ TypeOK
      /\ rd[c] \in Nat /\ Len(sent[c]) \in Nat /\ rd[c] <= Len(sent[c])
  BY CountersGrow DEF RemapInv, TableInv, TypeInv, TypeOK, GrantInv
<1>1. ASSUME n \in 1 .. rd[c], sent[c][n].type = "req" PROVE Settled(c, n)
  BY <1>0, <1>1 DEF NoRequestLost, Settled
<1>2. CASE UNCHANGED vars
  BY <1>1, <1>2 DEF vars, Settled, Answered, Returning, Waiting, HasRequest, Reachable
<1>3. ASSUME NEW a \in Conn, Client(a) PROVE Settled(c, n)'
  <2>1. UNCHANGED <<rd, out, active, ans>> /\ SentKept
    BY <1>3, ClientFrame
  <2>2. \A d \in Conn : /\ pc'[d] = pc[d] \/ (pc[d] = "new" /\ pc'[d] = "idle")
                        /\ up'[d] => up[d] \/ pc[d] = "new"
    BY <1>3, ClientFrame
  <2>3. n \in 1 .. rd[c] /\ sent[c][n] = sent'[c][n]
    BY <1>0, <2>1 DEF SentKept
  <2>4. Answered(c, n) => Answered(c, n)'
    BY <2>1 DEF Answered
  <2>5. Returning(c, n) => Returning(c, n)'
    BY <2>1, <2>2 DEF Returning
  <2>6. ASSUME Waiting(c, n) PROVE Waiting(c, n)'
    <3>1. PICK d \in Conn, id \in Ids : /\ active[d][id] = [to |-> c, id |-> n]
                                        /\ up[d] => HasRequest(d, id, <<c, n>>)
      BY <2>6 DEF Waiting
    <3>2. active[d][id] # NoReq
      BY <3>1, ConnAssumption DEF NoReq
    <3>3. up'[d] => up[d]
      BY <1>0, <2>2, <3>2 DEF SlotInv
    <3> QED  BY <2>1, <3>1, <3>3 DEF Waiting, HasRequest
  <2>7. ~Reachable(c) => ~Reachable(c)'
    BY <1>0, <2>2, <2>3 DEF Reachable, StageInv
  <2> QED  BY <1>1, <2>3, <2>4, <2>5, <2>6, <2>7 DEF Settled
<1>4. ASSUME NEW a \in Conn, connectionLoop(a) PROVE Settled(c, n)'
  <2>1. /\ UNCHANGED <<sent, up>> /\ OthersIdle(a) /\ pc[a] # "closed"
        /\ rd'[a] = rd[a] \/ rd'[a] = rd[a] + 1
    BY <1>4, LoopKeeps
  <2>2. CASE n \in 1 .. rd[c]
    <3>1. Answered(c, n) => Answered(c, n)'
      BY <1>4, OutKept DEF Answered
    <3>2. ASSUME Returning(c, n) PROVE Settled(c, n)'
      <4>1. PICK d \in Conn : pc[d] = "reply" /\ ans[d].to = c /\ ans[d].id = n
        BY <3>2 DEF Returning
      <4>2. CASE d # a
        <5>1. pc'[d] = "reply" /\ ans'[d].to = c /\ ans'[d].id = n
          BY <2>1, <4>1, <4>2 DEF OthersIdle
        <5> QED  BY <5>1 DEF Settled, Returning
      <4>3. CASE d = a
        BY <1>4, <4>1, <4>3, ReplyingIs, ReplyOutcome DEF Settled
      <4> QED  BY <4>2, <4>3
    <3>3. Waiting(c, n) => Settled(c, n)'
      BY <1>0, <1>4, <2>2, WaitingKept DEF Settled
    <3>4. ~Reachable(c) => ~Reachable(c)'
      BY <2>1 DEF Reachable, OthersIdle
    <3> QED  BY <1>1, <2>1, <2>2, <3>1, <3>2, <3>3, <3>4 DEF Settled
  <2>3. CASE n \notin 1 .. rd[c]
    <3>1. a = c /\ rd'[c] = rd[c] + 1 /\ n = Here(c)
      BY <1>0, <2>1, <2>3 DEF OthersIdle, Here
    <3>2. Cur(c).type = "req"
      BY <2>1, <3>1 DEF Cur
    <3>3. rd'[c] # rd[c]
      BY <1>0, <3>1
    <3>4. CASE SendReply(c)
      <4>1. ans[c].to = c /\ ans[c].id = n
        BY <3>1, <3>2, <3>4 DEF SendReply, StageInv
      <4> QED  BY <3>4, <4>1, ReplyOutcome DEF Settled
    <3>5. CASE WriteRequest(c) /\ Written(fwd[c].to, Req(c))
      <4>1. pc[c] = "write" /\ active' = active
        BY <3>5 DEF WriteRequest, tableVars
      <4>2. PICK d \in Conn, id \in Ids : d = fwd[c].to /\ id = fwd[c].id
        BY <1>0, <4>1 DEF TypeInv, TypeOK, LoopInv, LoopOK, Directed, Sending, Target
      <4>3. active'[d][id] = [to |-> c, id |-> n]
        BY <1>0, <3>1, <4>1, <4>2 DEF MapInv, StoredEntry
      <4>4. ASSUME up'[d] PROVE HasRequest(d, id, <<c, n>>)'
        <5>1. Deliver(d, Req(c)) /\ Req(c) \in Message
          BY <2>1, <3>5, <4>1, <4>2, <4>4, MessageTypes DEF Written
        <5>2. /\ DOMAIN out'[d] = 1 .. Len(out[d]) + 1 /\ Len(out[d]) \in Nat
              /\ out'[d][Len(out[d]) + 1] = Req(c)
          BY <1>0, <5>1, DeliverFacts
        <5>3. Req(c).type = "req" /\ Req(c).id = id /\ Req(c).call = <<c, n>>
          BY <3>1, <4>2 DEF Req
        <5> QED  BY <5>2, <5>3 DEF HasRequest
      <4> QED  BY <4>3, <4>4 DEF Settled, Waiting
    <3> QED  BY <1>4, <3>1, <3>2, <3>3, <3>4, <3>5, FinishCauses
  <2> QED  BY <2>2, <2>3
<1> QED  BY <1>2, <1>3, <1>4 DEF Next

(* As long as no request counter has wrapped around, a request the router    *)
(* has handled is answered, about to be answered, or waits at a server that  *)
(* was sent it or has gone: none falls through, on any failure path.         *)
THEOREM NoRequestFallsThrough == Spec => []NoRequestLost
<1>1. Init => MapInv /\ RouteInv /\ StageInv
  BY DEF Init, NewConnection, MapInv, HeldIds, UsedIds, StoredEntry, EntriesMatch, AnswersMatch,
     RepliesMatch, DeliveredMatch, Sending, Directed, RouteInv, StageInv
<1>2. Init => SlotInv /\ GrantInv /\ NoRequestLost
  BY DEF Init, NewConnection, SlotInv, GrantInv, NoRequestLost
<1>3. Spec => [](TypeInv /\ RouteInv /\ RemapInv /\ StageInv /\ TableInv /\ GrantInv
                 /\ NoRequestLost)
  <2>1. Init => RemapInv /\ TableInv
    BY <1>1, <1>2 DEF RemapInv, TableInv
  <2> QED  BY <1>1, <1>2, <2>1, InitType, StepType, StepRoutes, StepRemap, StepStage, StepTable,
              StepGrant, StepLost, PTL DEF Spec
<1> QED  BY <1>3, PTL

-----------------------------------------------------------------------------
(***************************************************************************)
(* The router implements RpcService.  First, what is in the sets that the   *)
(* service speaks of, and how they change when a client sends or receives.  *)
(***************************************************************************)
LEMMA SentSets ==
    ASSUME NEW s
    PROVE  /\ \A c \in Conn : \A n \in DOMAIN s[c] :
                  /\ s[c][n].type = "req" => <<c, n>> \in AskedIn(s)
                  /\ s[c][n].type = "res" => s[c][n].call \in RepliedIn(s)
           /\ \A x \in AskedIn(s) : \E c \in Conn : \E n \in DOMAIN s[c] :
                  s[c][n].type = "req" /\ x = <<c, n>>
           /\ \A x \in RepliedIn(s) : \E c \in Conn : \E n \in DOMAIN s[c] :
                  s[c][n].type = "res" /\ x = s[c][n].call
<1>1. \A c \in Conn : \A n \in DOMAIN s[c] : s[c][n].type = "req" => <<c, n>> \in AskedIn(s)
  BY DEF AskedIn, Positions
<1>2. \A c \in Conn : \A n \in DOMAIN s[c] :
          s[c][n].type = "res" => s[c][n].call \in RepliedIn(s)
  BY DEF RepliedIn, Positions
<1>3. \A x \in AskedIn(s) : \E c \in Conn : \E n \in DOMAIN s[c] :
          s[c][n].type = "req" /\ x = <<c, n>>
  BY DEF AskedIn, Positions
<1>4. \A x \in RepliedIn(s) : \E c \in Conn : \E n \in DOMAIN s[c] :
          s[c][n].type = "res" /\ x = s[c][n].call
  BY DEF RepliedIn, Positions
<1> QED  BY <1>1, <1>2, <1>3, <1>4

(* The delivery of message m to c, at place i.                               *)
ServedAt(c, i, m)   == [to |-> c, at |-> i, call |-> m.call]
AnsweredAt(c, i, m) == [to |-> c, at |-> i, id |-> m.id, call |-> m.call,
                        peer |-> m.code = "peer"]

LEMMA ReceivedSets ==
    ASSUME NEW o
    PROVE  /\ \A c \in Conn : \A i \in DOMAIN o[c] :
                  /\ o[c][i].type = "req" => ServedAt(c, i, o[c][i]) \in ServedIn(o)
                  /\ o[c][i].type = "res" => AnsweredAt(c, i, o[c][i]) \in AnswersIn(o)
           /\ \A x \in ServedIn(o) : \E c \in Conn : \E i \in DOMAIN o[c] :
                  o[c][i].type = "req" /\ x = ServedAt(c, i, o[c][i])
           /\ \A x \in AnswersIn(o) : \E c \in Conn : \E i \in DOMAIN o[c] :
                  o[c][i].type = "res" /\ x = AnsweredAt(c, i, o[c][i])
<1>1. \A c \in Conn : \A i \in DOMAIN o[c] :
          o[c][i].type = "req" => ServedAt(c, i, o[c][i]) \in ServedIn(o)
  BY DEF ServedIn, Positions, ServedAt
<1>2. \A c \in Conn : \A i \in DOMAIN o[c] :
          o[c][i].type = "res" => AnsweredAt(c, i, o[c][i]) \in AnswersIn(o)
  BY DEF AnswersIn, Positions, AnsweredAt
<1>3. \A x \in ServedIn(o) : \E c \in Conn : \E i \in DOMAIN o[c] :
          o[c][i].type = "req" /\ x = ServedAt(c, i, o[c][i])
  BY DEF ServedIn, Positions, ServedAt
<1>4. \A x \in AnswersIn(o) : \E c \in Conn : \E i \in DOMAIN o[c] :
          o[c][i].type = "res" /\ x = AnsweredAt(c, i, o[c][i])
  BY DEF AnswersIn, Positions, AnsweredAt
<1> QED  BY <1>1, <1>2, <1>3, <1>4

(* Family t is s with p added at place k of c.                               *)
AddsOne(s, t, c, k, p) ==
    /\ c \in Conn /\ k \in DOMAIN t[c] /\ k \notin DOMAIN s[c] /\ t[c][k] = p
    /\ \A d \in Conn : \A n \in DOMAIN s[d] : n \in DOMAIN t[d] /\ t[d][n] = s[d][n]
    /\ \A d \in Conn : \A n \in DOMAIN t[d] : \/ n \in DOMAIN s[d] /\ t[d][n] = s[d][n]
                                              \/ d = c /\ n = k /\ t[d][n] = p

LEMMA AppendAddsOne ==
    ASSUME NEW S, NEW s \in [Conn -> Seq(S)], NEW c \in Conn, NEW p \in S,
           NEW t, t = [s EXCEPT ![c] = Append(@, p)]
    PROVE  AddsOne(s, t, c, Len(s[c]) + 1, p)
<1>1. s[c] \in Seq(S) /\ t[c] = Append(s[c], p) /\ \A d \in Conn : d # c => t[d] = s[d]
  OBVIOUS
<1>2. /\ Len(s[c]) \in Nat
      /\ DOMAIN s[c] = 1 .. Len(s[c])
      /\ DOMAIN Append(s[c], p) = 1 .. Len(s[c]) + 1
  BY <1>1
<1>3. /\ \A n \in 1 .. Len(s[c]) : t[c][n] = s[c][n]
      /\ t[c][Len(s[c]) + 1] = p
  BY <1>1, AppendKeeps
<1> QED  BY <1>1, <1>2, <1>3 DEF AddsOne

LEMMA AskedOneMore ==
    ASSUME NEW s, NEW t, NEW c, NEW k, NEW p, AddsOne(s, t, c, k, p)
    PROVE  AskedIn(t) = IF p.type = "req" THEN AskedIn(s) \cup {<<c, k>>} ELSE AskedIn(s)
<1>1. ASSUME NEW x \in AskedIn(s) PROVE x \in AskedIn(t)
  <2>1. PICK d \in Conn : \E n \in DOMAIN s[d] : s[d][n].type = "req" /\ x = <<d, n>>
    BY SentSets
  <2>2. PICK n \in DOMAIN s[d] : s[d][n].type = "req" /\ x = <<d, n>>
    BY <2>1
  <2>3. n \in DOMAIN t[d] /\ t[d][n] = s[d][n]
    BY DEF AddsOne
  <2> QED  BY <2>2, <2>3, SentSets
<1>2. ASSUME NEW x \in AskedIn(t), x \notin AskedIn(s)
      PROVE  x = <<c, k>> /\ p.type = "req"
  <2>1. PICK d \in Conn : \E n \in DOMAIN t[d] : t[d][n].type = "req" /\ x = <<d, n>>
    BY SentSets
  <2>2. PICK n \in DOMAIN t[d] : t[d][n].type = "req" /\ x = <<d, n>>
    BY <2>1
  <2>3. ~(n \in DOMAIN s[d] /\ t[d][n] = s[d][n])
    BY <1>2, <2>2, SentSets
  <2> QED  BY <2>2, <2>3 DEF AddsOne
<1>3. p.type = "req" => <<c, k>> \in AskedIn(t)
  BY SentSets DEF AddsOne
<1> QED  BY <1>1, <1>2, <1>3

LEMMA RepliedOneMore ==
    ASSUME NEW s, NEW t, NEW c, NEW k, NEW p, AddsOne(s, t, c, k, p)
    PROVE  RepliedIn(t) = IF p.type = "res" THEN RepliedIn(s) \cup {p.call} ELSE RepliedIn(s)
<1>1. ASSUME NEW x \in RepliedIn(s) PROVE x \in RepliedIn(t)
  <2>1. PICK d \in Conn : \E n \in DOMAIN s[d] : s[d][n].type = "res" /\ x = s[d][n].call
    BY SentSets
  <2>2. PICK n \in DOMAIN s[d] : s[d][n].type = "res" /\ x = s[d][n].call
    BY <2>1
  <2>3. n \in DOMAIN t[d] /\ t[d][n] = s[d][n]
    BY DEF AddsOne
  <2>4. t[d][n].type = "res" => t[d][n].call \in RepliedIn(t)
    BY <2>3, SentSets
  <2> QED  BY <2>2, <2>3, <2>4
<1>2. ASSUME NEW x \in RepliedIn(t), x \notin RepliedIn(s)
      PROVE  x = p.call /\ p.type = "res"
  <2>1. PICK d \in Conn : \E n \in DOMAIN t[d] : t[d][n].type = "res" /\ x = t[d][n].call
    BY SentSets
  <2>2. PICK n \in DOMAIN t[d] : t[d][n].type = "res" /\ x = t[d][n].call
    BY <2>1
  <2>3. ~(n \in DOMAIN s[d] /\ t[d][n] = s[d][n])
    <3>1. ASSUME n \in DOMAIN s[d] PROVE s[d][n].type = "res" => s[d][n].call \in RepliedIn(s)
      BY <3>1, SentSets
    <3> QED  BY <1>2, <2>2, <3>1
  <2> QED  BY <2>2, <2>3 DEF AddsOne
<1>3. p.type = "res" => p.call \in RepliedIn(t)
  BY SentSets DEF AddsOne
<1> QED  BY <1>1, <1>2, <1>3

LEMMA ServedOneMore ==
    ASSUME NEW s, NEW t, NEW c, NEW k, NEW p, AddsOne(s, t, c, k, p)
    PROVE  ServedIn(t) = IF p.type = "req" THEN ServedIn(s) \cup {ServedAt(c, k, p)} ELSE ServedIn(s)
<1>1. ASSUME NEW x \in ServedIn(s) PROVE x \in ServedIn(t)
  <2>1. PICK d \in Conn : \E n \in DOMAIN s[d] : s[d][n].type = "req" /\ x = ServedAt(d, n, s[d][n])
    BY ReceivedSets
  <2>2. PICK n \in DOMAIN s[d] : s[d][n].type = "req" /\ x = ServedAt(d, n, s[d][n])
    BY <2>1
  <2>3. n \in DOMAIN t[d] /\ t[d][n] = s[d][n]
    BY DEF AddsOne
  <2> QED  BY <2>2, <2>3, ReceivedSets
<1>2. ASSUME NEW x \in ServedIn(t), x \notin ServedIn(s)
      PROVE  x = ServedAt(c, k, p) /\ p.type = "req"
  <2>1. PICK d \in Conn : \E n \in DOMAIN t[d] : t[d][n].type = "req" /\ x = ServedAt(d, n, t[d][n])
    BY ReceivedSets
  <2>2. PICK n \in DOMAIN t[d] : t[d][n].type = "req" /\ x = ServedAt(d, n, t[d][n])
    BY <2>1
  <2>3. ~(n \in DOMAIN s[d] /\ t[d][n] = s[d][n])
    BY <1>2, <2>2, ReceivedSets
  <2> QED  BY <2>2, <2>3 DEF AddsOne
<1>3. p.type = "req" => ServedAt(c, k, p) \in ServedIn(t)
  BY ReceivedSets DEF AddsOne
<1> QED  BY <1>1, <1>2, <1>3

LEMMA AnswersOneMore ==
    ASSUME NEW s, NEW t, NEW c, NEW k, NEW p, AddsOne(s, t, c, k, p)
    PROVE  AnswersIn(t) = IF p.type = "res" THEN AnswersIn(s) \cup {AnsweredAt(c, k, p)} ELSE AnswersIn(s)
<1>1. ASSUME NEW x \in AnswersIn(s) PROVE x \in AnswersIn(t)
  <2>1. PICK d \in Conn : \E n \in DOMAIN s[d] : s[d][n].type = "res" /\ x = AnsweredAt(d, n, s[d][n])
    BY ReceivedSets
  <2>2. PICK n \in DOMAIN s[d] : s[d][n].type = "res" /\ x = AnsweredAt(d, n, s[d][n])
    BY <2>1
  <2>3. n \in DOMAIN t[d] /\ t[d][n] = s[d][n]
    BY DEF AddsOne
  <2> QED  BY <2>2, <2>3, ReceivedSets
<1>2. ASSUME NEW x \in AnswersIn(t), x \notin AnswersIn(s)
      PROVE  x = AnsweredAt(c, k, p) /\ p.type = "res"
  <2>1. PICK d \in Conn : \E n \in DOMAIN t[d] : t[d][n].type = "res" /\ x = AnsweredAt(d, n, t[d][n])
    BY ReceivedSets
  <2>2. PICK n \in DOMAIN t[d] : t[d][n].type = "res" /\ x = AnsweredAt(d, n, t[d][n])
    BY <2>1
  <2>3. ~(n \in DOMAIN s[d] /\ t[d][n] = s[d][n])
    BY <1>2, <2>2, ReceivedSets
  <2> QED  BY <2>2, <2>3 DEF AddsOne
<1>3. p.type = "res" => AnsweredAt(c, k, p) \in AnswersIn(t)
  BY ReceivedSets DEF AddsOne
<1> QED  BY <1>1, <1>2, <1>3

(* What is added was not there.                                              *)
LEMMA OneMoreIsNew ==
    ASSUME NEW s, NEW t, NEW c, NEW k, NEW p, AddsOne(s, t, c, k, p)
    PROVE  /\ <<c, k>> \notin AskedIn(s)
           /\ ServedAt(c, k, p) \notin ServedIn(s)
           /\ AnsweredAt(c, k, p) \notin AnswersIn(s)
<1>1. ASSUME <<c, k>> \in AskedIn(s) PROVE FALSE
  <2>1. PICK d \in Conn : \E n \in DOMAIN s[d] : <<c, k>> = <<d, n>>
    BY <1>1, SentSets
  <2> QED  BY <2>1 DEF AddsOne
<1>2. ASSUME ServedAt(c, k, p) \in ServedIn(s) PROVE FALSE
  <2>1. PICK d \in Conn : \E n \in DOMAIN s[d] : ServedAt(c, k, p) = ServedAt(d, n, s[d][n])
    BY <1>2, ReceivedSets
  <2>2. PICK n \in DOMAIN s[d] : ServedAt(c, k, p) = ServedAt(d, n, s[d][n])
    BY <2>1
  <2>3. c = d /\ k = n
    BY <2>2 DEF ServedAt
  <2> QED  BY <2>3 DEF AddsOne
<1>3. ASSUME AnsweredAt(c, k, p) \in AnswersIn(s) PROVE FALSE
  <2>1. PICK d \in Conn : \E n \in DOMAIN s[d] : AnsweredAt(c, k, p) = AnsweredAt(d, n, s[d][n])
    BY <1>3, ReceivedSets
  <2>2. PICK n \in DOMAIN s[d] : AnsweredAt(c, k, p) = AnsweredAt(d, n, s[d][n])
    BY <2>1
  <2>3. c = d /\ k = n
    BY <2>2 DEF AnsweredAt
  <2> QED  BY <2>3 DEF AddsOne
<1> QED  BY <1>1, <1>2, <1>3

-----------------------------------------------------------------------------
(***************************************************************************)
(* Where the one answer to a request can come from.  A request that is not  *)
(* answered yet is open.  An entry of activeOutRequests, and an answer on   *)
(* its way, is for an open request, and a request has one of them at most;  *)
(* an entry is for a request already handled, unless its goroutine is still *)
(* writing; an answer is the goroutine's own, to the request at hand, or    *)
(* one that a server has given.                                             *)
(***************************************************************************)
Open(c, n) == n \in DOMAIN sent[c] /\ IsReq(sent[c][n]) /\ ~Answered(c, n)

Holding(c, n, d, x) == /\ n = Here(c) /\ pc[c] \in {"write", "undo"}
                       /\ fwd[c].to = d /\ fwd[c].id = x

StoredFor(d, x, c, n) ==
    /\ Open(c, n)
    /\ n <= rd[c] \/ Holding(c, n, d, x)
    /\ \A f \in Conn, y \in Ids : active[f][y] = [to |-> c, id |-> n] => f = d /\ y = x

DueFor(d, c, n) ==
    /\ Open(c, n)
    /\ \A f \in Conn, y \in Ids : active[f][y] # [to |-> c, id |-> n]
    /\ \A f \in Conn : pc[f] = "reply" /\ ans[f].to = c /\ ans[f].id = n => f = d
    /\ \/ c = d /\ n = Here(d) /\ ans[d].code # "peer"
       \/ n <= rd[c] /\ <<c, n>> \in RepliedIn(sent)

EntriesOnce == \A d \in Conn, x \in Ids :
                   active[d][x] # NoReq => StoredFor(d, x, active[d][x].to, active[d][x].id)
RepliesOnce == \A d \in Conn : pc[d] = "reply" => DueFor(d, ans[d].to, ans[d].id)
AnswersPast == \A c \in Conn : \A i \in DOMAIN out[c] :
                   IsRes(out[c][i]) => out[c][i].id <= rd[c]
SendsRequest == \A c \in Conn : /\ pc[c] \in {"alloc"} \cup Sending => IsReq(Cur(c))
                                /\ pc[c] = "undo" => ans[c].code # "peer"

OnceInv   == EntriesOnce /\ RepliesOnce /\ AnswersPast /\ SendsRequest
AnswerInv == NoWrap => OnceInv

LEMMA EntryIs ==
    ASSUME TypeOK, NEW d \in Conn, NEW x \in Ids, active[d][x] # NoReq
    PROVE  /\ active[d][x].to \in Conn /\ active[d][x].id \in Nat
           /\ active[d][x] = [to |-> active[d][x].to, id |-> active[d][x].id]
<1>1. active[d][x] \in [to : Conn, id : Nat]
  BY DEF TypeOK, Entry
<1> QED  BY <1>1

LEMMA EntryIsNot ==
    ASSUME NEW c \in Conn, NEW n
    PROVE  /\ [to |-> c, id |-> n] # NoReq
           /\ [to |-> c, id |-> n].to = c /\ [to |-> c, id |-> n].id = n
BY ConnAssumption DEF NoReq

(* The request at hand is open, its entry is at the place its goroutine      *)
(* holds, and nobody else answers it.                                        *)
LEMMA HereFree ==
    ASSUME TypeInv, OnceInv, NEW c \in Conn
    PROVE  /\ \A f \in Conn, y \in Ids : active[f][y] = [to |-> c, id |-> Here(c)] =>
                  Holding(c, Here(c), f, y)
           /\ \A f \in Conn : pc[f] = "reply" /\ ans[f].to = c /\ ans[f].id = Here(c) => f = c
           /\ rd[c] < Len(sent[c]) /\ IsReq(Cur(c)) => Open(c, Here(c))
<1>0. TypeOK /\ rd[c] \in Nat /\ sent[c] \in Seq(Packet)
  BY DEF TypeInv, TypeOK
<1>1. Here(c) \in Nat /\ ~(Here(c) <= rd[c])
  BY <1>0 DEF Here
<1>2. ASSUME NEW f \in Conn, NEW y \in Ids, active[f][y] = [to |-> c, id |-> Here(c)]
      PROVE  Holding(c, Here(c), f, y)
  <2>1. StoredFor(f, y, c, Here(c))
    BY <1>2, EntryIsNot DEF OnceInv, EntriesOnce
  <2> QED  BY <1>1, <2>1 DEF StoredFor
<1>3. ASSUME NEW f \in Conn, pc[f] = "reply", ans[f].to = c, ans[f].id = Here(c)
      PROVE  f = c
  BY <1>1, <1>3 DEF OnceInv, RepliesOnce, DueFor
<1>4. ASSUME rd[c] < Len(sent[c]), IsReq(Cur(c)) PROVE Open(c, Here(c))
  <2>1. Here(c) \in DOMAIN sent[c]
    BY <1>0, <1>4 DEF Here
  <2>2. ~Answered(c, Here(c))
    BY <1>1 DEF Answered, OnceInv, AnswersPast
  <2> QED  BY <1>4, <2>1, <2>2 DEF Open, Cur
<1> QED  BY <1>2, <1>3, <1>4

(* A request stays open until the goroutine that has its answer delivers it. *)
LEMMA OpenKept ==
    ASSUME TypeInv, NEW c \in Conn, connectionLoop(c), NEW e \in Conn, NEW n, Open(e, n),
           pc'[c] # "idle" \/ pc[c] # "reply" \/ ans[c].to # e \/ ans[c].id # n
    PROVE  Open(e, n)'
<1>1. sent' = sent
  BY LoopKeeps
<1>2. ASSUME NEW i \in DOMAIN out'[e], IsRes(out'[e][i]), out'[e][i].id = n
      PROVE  FALSE
  <2>1. CASE i \in DOMAIN out[e] /\ out'[e][i] = out[e][i]
    BY <1>2, <2>1 DEF Open, Answered
  <2>2. CASE ~(i \in DOMAIN out[e] /\ out'[e][i] = out[e][i])
    <3>1. Finish(c) /\ pc[c] = "reply" /\ e = ans[c].to /\ out'[e][i] = Res(c)
      BY <1>2, <2>2, NewMessage, MessageKinds DEF IsRes
    <3>2. ans[c].id = n
      BY <1>2, <3>1 DEF Res
    <3>3. pc'[c] = "idle"
      BY <3>1 DEF Finish, Goto, TypeInv, TypeOK
    <3> QED  BY <3>1, <3>2, <3>3
  <2> QED  BY <2>1, <2>2
<1> QED  BY <1>1, <1>2 DEF Open, Answered

(* What a goroutine that is writing or taking an entry back does next.       *)
LEMMA WritingIs ==
    ASSUME NEW c \in Conn, connectionLoop(c)
    PROVE  /\ pc[c] = "write" => WriteRequest(c)
           /\ pc[c] = "undo" => UndoRequest(c)
           /\ pc[c] = "insert" => InsertRequest(c)
           /\ pc[c] = "alloc" => AllocId(c)
BY DEF connectionLoop, ControlCall, Forward, HandleRegister, HandleUnregister, HandleReset,
   HandleSetMaxMsgSize, NotifySetMaxMsgSize, CallInternal, InternalReturns, LookupRoute,
   WriteNotification, AllocId, InsertRequest, WriteRequest, UndoRequest, HandleResponse, SendReply,
   SkipInvalid, StopReading, DropRoutes, Close, IsCall, Incoming, Receive

(* A step leaves an entry alone, removes it, or stores the one of the        *)
(* request at hand.                                                          *)
LEMMA ActiveSteps ==
    ASSUME TypeInv, NEW c \in Conn, connectionLoop(c), NEW d \in Conn, NEW x \in Ids
    PROVE  \/ active'[d][x] = active[d][x]
           \/ active'[d][x] = NoReq
           \/ /\ InsertRequest(c) /\ d = fwd[c].to /\ x = fwd[c].id
              /\ active'[d][x] = [to |-> c, id |-> Here(c)]
<1>0. TypeOK
  BY DEF TypeInv
<1>1. ASSUME pc[c] \in Sending PROVE fwd[c].to \in Conn /\ fwd[c].id \in Ids
  BY <1>0, <1>1 DEF TypeInv, TypeOK, LoopInv, LoopOK, Directed, Target
<1>2. CASE InsertRequest(c)
  <2>1. PICK e \in Conn, k \in Ids : e = fwd[c].to /\ k = fwd[c].id
    BY <1>1, <1>2 DEF InsertRequest, Sending
  <2>2. active' = [active EXCEPT ![e][k] = [to |-> c, id |-> Here(c)]]
    BY <1>2, <2>1 DEF InsertRequest
  <2>3. CASE d = e /\ x = k
    BY <1>0, <1>2, <2>1, <2>2, <2>3 DEF TypeOK
  <2>4. CASE d # e \/ x # k
    BY <1>0, <2>2, <2>4 DEF TypeOK
  <2> QED  BY <2>3, <2>4
<1>3. CASE UndoRequest(c)
  <2>1. PICK e \in Conn, k \in Ids : e = fwd[c].to /\ k = fwd[c].id
    BY <1>1, <1>3 DEF UndoRequest, Sending
  <2>2. active' = [active EXCEPT ![e][k] = NoReq]
    BY <1>3, <2>1 DEF UndoRequest
  <2> QED  BY <1>0, <2>2 DEF TypeOK
<1>4. CASE HandleResponse(c)
  <2>1. Cur(c) \in Response
    BY <1>0, <1>4, CurrentPacket, PacketKinds DEF HandleResponse, Incoming, Receive
  <2>2. PICK k \in Ids : k = Cur(c).id
    BY <2>1 DEF Response
  <2>3. active' = active \/ active' = [active EXCEPT ![c][k] = NoReq]
    BY <1>4, <2>2 DEF HandleResponse
  <2>4. CASE active' = [active EXCEPT ![c][k] = NoReq]
    BY <1>0, <2>4 DEF TypeOK
  <2> QED  BY <2>3, <2>4
<1>5. CASE AllocId(c)
  BY <1>5 DEF AllocId
<1> QED  BY <1>2, <1>3, <1>4, <1>5, TableSteps

(* A goroutine keeps the place of its entry until it has handled the request *)
(* or removed the entry.                                                     *)
LEMMA HoldingKept ==
    ASSUME TypeInv, NEW c \in Conn, connectionLoop(c), NEW e \in Conn, NEW n,
           NEW d \in Conn, NEW x \in Ids, Holding(e, n, d, x), active'[d][x] # NoReq
    PROVE  n <= rd'[e] \/ Holding(e, n, d, x)'
<1>0. TypeOK /\ OthersIdle(c) /\ rd[e] \in Nat
  BY LoopKeeps DEF TypeInv, TypeOK
<1>1. CASE e # c
  BY <1>0, <1>1 DEF OthersIdle, Holding, Here
<1>2. CASE e = c /\ pc[c] = "write"
  <2>1. WriteRequest(c)
    BY <1>2, WritingIs
  <2>2. CASE Finish(c)
    <3>1. rd'[c] = rd[c] + 1
      BY <1>0, <2>2 DEF Finish, TypeOK
    <3> QED  BY <1>0, <1>2, <3>1 DEF Holding, Here
  <2>3. CASE Goto(c, "undo") /\ rd' = rd
    BY <1>0, <1>2, <2>1, <2>3 DEF WriteRequest, Goto, Holding, Here, TypeOK
  <2> QED  BY <2>1, <2>2, <2>3 DEF WriteRequest
<1>3. CASE e = c /\ pc[c] = "undo"
  <2>1. UndoRequest(c) /\ fwd[c].to = d /\ fwd[c].id = x
    BY <1>3, WritingIs DEF Holding
  <2>2. active' = [active EXCEPT ![d][x] = NoReq]
    BY <2>1 DEF UndoRequest
  <2>3. active'[d][x] = NoReq
    BY <1>0, <2>2 DEF TypeOK
  <2> QED  BY <2>3
<1> QED  BY <1>1, <1>2, <1>3 DEF Holding

(* An entry that a step leaves alone stays the only one of an open request.  *)
LEMMA StoredKept ==
    ASSUME TypeInv, OnceInv, NEW c \in Conn, connectionLoop(c), NEW d \in Conn, NEW x \in Ids,
           NEW e \in Conn, NEW n \in Nat, active[d][x] = [to |-> e, id |-> n],
           active'[d][x] = active[d][x]
    PROVE  StoredFor(d, x, e, n)'
<1>0. TypeOK /\ StoredFor(d, x, e, n) /\ active'[d][x] # NoReq
  BY EntryIsNot DEF TypeInv, OnceInv, EntriesOnce
<1>1. Open(e, n)'
  <2>1. ~(pc[c] = "reply" /\ ans[c].to = e /\ ans[c].id = n)
    BY DEF OnceInv, RepliesOnce, DueFor
  <2> QED  BY <1>0, <2>1, OpenKept DEF StoredFor
<1>2. n <= rd'[e] \/ Holding(e, n, d, x)'
  <2>1. CASE n <= rd[e]
    <3>1. rd'[e] \in {rd[e], rd[e] + 1} /\ rd[e] \in Nat
      BY <1>0, LoopKeeps DEF OthersIdle, TypeOK
    <3> QED  BY <2>1, <3>1
  <2>2. CASE Holding(e, n, d, x)
    BY <1>0, <2>2, HoldingKept
  <2> QED  BY <1>0, <2>1, <2>2 DEF StoredFor
<1>3. ASSUME NEW f \in Conn, NEW y \in Ids, active'[f][y] = [to |-> e, id |-> n]
      PROVE  f = d /\ y = x
  <2>1. CASE active'[f][y] = active[f][y]
    BY <1>0, <1>3, <2>1 DEF StoredFor
  <2>2. CASE InsertRequest(c) /\ active'[f][y] = [to |-> c, id |-> Here(c)]
    <3>1. e = c /\ n = Here(c)
      BY <1>3, <2>2
    <3>2. Holding(c, Here(c), d, x)
      BY <3>1, HereFree
    <3> QED  BY <2>2, <3>2 DEF Holding, InsertRequest
  <2> QED  BY <1>3, <2>1, <2>2, ActiveSteps, EntryIsNot
<1> QED  BY <1>1, <1>2, <1>3 DEF StoredFor

LEMMA StoredNew ==
    ASSUME TypeInv, OnceInv, NEW c \in Conn, InsertRequest(c), NEW d \in Conn, NEW x \in Ids,
           d = fwd[c].to, x = fwd[c].id
    PROVE  StoredFor(d, x, c, Here(c))'
<1>0. TypeOK /\ pc[c] = "insert" /\ connectionLoop(c)
  BY DEF TypeInv, InsertRequest, connectionLoop, Forward
<1>1. /\ pc'[c] = "write" /\ Here(c)' = Here(c) /\ fwd' = fwd
      /\ active' = [active EXCEPT ![d][x] = [to |-> c, id |-> Here(c)]]
  BY <1>0 DEF InsertRequest, Goto, Here, TypeOK
<1>2. rd[c] < Len(sent[c]) /\ IsReq(Cur(c))
  BY <1>0 DEF TypeInv, LoopInv, LoopOK, Calling, Directed, Sending, OnceInv, SendsRequest
<1>3. Open(c, Here(c))'
  BY <1>0, <1>1, <1>2, HereFree, OpenKept
<1>4. ASSUME NEW f \in Conn, NEW y \in Ids, active'[f][y] = [to |-> c, id |-> Here(c)],
             ~(f = d /\ y = x)
      PROVE  FALSE
  <2>1. active'[f][y] = active[f][y]
    BY <1>0, <1>1, <1>4 DEF TypeOK
  <2>2. Holding(c, Here(c), f, y)
    BY <1>4, <2>1, HereFree
  <2> QED  BY <1>0, <2>2 DEF Holding
<1> QED  BY <1>1, <1>3, <1>4 DEF StoredFor, Holding

(* How a goroutine comes to have an answer.                                  *)
OwnReply(c) == /\ OwnAnswer(c) /\ ans'[c].code # "peer" /\ IsReq(Cur(c))
               /\ pc[c] \in {"idle", "internal"} /\ pc'[c] = "reply" /\ active' = active
OwnFailure(c) == OwnAnswer(c) /\ ans'[c].code # "peer" /\ pc[c] = "write" /\ pc'[c] = "undo"

LEMMA ReplySteps ==
    ASSUME TypeInv, NEW c \in Conn, connectionLoop(c), pc'[c] \in {"reply", "undo"}
    PROVE  \/ OwnReply(c) \/ OwnFailure(c)
           \/ UndoRequest(c) \/ HandleResponse(c) \/ SendReply(c)
<1> USE DEF clientVars, tableVars, loopVars, OwnAnswer, IsReq
<1>0. /\ pc \in [Conn -> Steps] /\ ans \in [Conn -> Answer]
  BY DEF TypeInv, TypeOK
<1>1. CASE HandleRegister(c)
  BY <1>0, <1>1 DEF HandleRegister, Reply, Goto, Incoming, Receive, OwnReply
<1>2. CASE HandleUnregister(c)
  <2>1. CASE Cur(c).ok /\ routes[Cur(c).arg] = c
    BY <1>0, <1>2, <2>1 DEF HandleUnregister, Reply, Goto, Incoming, Receive, OwnReply
  <2>2. CASE ~(Cur(c).ok /\ routes[Cur(c).arg] = c)
    BY <1>0, <1>2, <2>2 DEF HandleUnregister, Reply, Goto, Incoming, Receive, OwnReply
  <2> QED  BY <2>1, <2>2
<1>3. CASE HandleReset(c) \/ HandleSetMaxMsgSize(c)
  BY <1>0, <1>3 DEF HandleReset, HandleSetMaxMsgSize, Reply, Goto, Incoming, Receive, OwnReply
<1>4. CASE NotifySetMaxMsgSize(c) \/ CallInternal(c)
  BY <1>0, <1>4 DEF NotifySetMaxMsgSize, CallInternal, Finish, Goto
<1>5. CASE InternalReturns(c)
  <2>1. CASE Cur(c).type = "req"
    <3>1. PICK b \in Sizes : Reply(c, "handler", b)
      BY <1>5, <2>1 DEF InternalReturns
    <3>2. ans'[c].to = c /\ ans'[c].id = Here(c) /\ ans'[c].code = "handler"
      BY <1>0, <3>1 DEF Reply
    <3>3. pc'[c] = "reply"
      BY <1>0, <3>1 DEF Reply, Goto
    <3> QED  BY <1>5, <2>1, <3>2, <3>3 DEF InternalReturns, OwnReply
  <2>2. CASE Cur(c).type # "req"
    BY <1>0, <1>5, <2>2 DEF InternalReturns, Finish, Goto
  <2> QED  BY <2>1, <2>2
<1>6. CASE LookupRoute(c)
  BY <1>0, <1>6 DEF LookupRoute, IsCall, Incoming, Receive, Reply, Finish, Goto, OwnReply
<1>7. CASE WriteNotification(c) \/ AllocId(c) \/ InsertRequest(c)
  BY <1>0, <1>7 DEF WriteNotification, AllocId, InsertRequest, Finish, Goto
<1>8. CASE WriteRequest(c)
  BY <1>0, <1>8 DEF WriteRequest, Finish, Goto, OwnFailure
<1>9. CASE SkipInvalid(c) \/ StopReading(c) \/ DropRoutes(c) \/ Close(c)
  BY <1>0, <1>9 DEF SkipInvalid, StopReading, DropRoutes, Close, Finish, Goto
<1> QED
  BY <1>1, <1>2, <1>3, <1>4, <1>5, <1>6, <1>7, <1>8, <1>9 DEF connectionLoop, ControlCall, Forward

(* An answer of a server, as HandleResponse takes it: the entry under its    *)
(* ID is for the request that the server answers.                            *)
LEMMA RelayIs ==
    ASSUME TypeInv, MapInv, NEW c \in Conn, HandleResponse(c), pc'[c] = "reply"
    PROVE  \E e \in Conn, n \in Nat, k \in Ids :
               /\ active[c][k] = [to |-> e, id |-> n] /\ active'[c][k] = NoReq
               /\ ans'[c].to = e /\ ans'[c].id = n
               /\ <<e, n>> \in RepliedIn(sent)
               /\ \E i \in DOMAIN out[c] : IsReq(out[c][i]) /\ out[c][i].id = k
<1>0. TypeOK /\ pc[c] = "idle" /\ Receive(c) /\ Cur(c).type = "res"
  BY DEF TypeInv, HandleResponse, Incoming, Receive
<1>1. /\ Cur(c) \in Response /\ Here(c) \in DOMAIN sent[c]
      /\ Cur(c) = sent[c][Here(c)]
  <2>1. sent[c] \in Seq(Packet) /\ rd[c] \in Nat /\ rd[c] < Len(sent[c])
    BY <1>0 DEF TypeOK, Receive
  <2> QED  BY <1>0, <2>1, CurrentPacket, PacketKinds DEF Here, Cur
<1>2. PICK k \in Ids : k = Cur(c).id
  BY <1>1 DEF Response
<1>3. ~Finish(c)
  BY <1>0 DEF Finish, Goto, TypeOK
<1>4. /\ active[c][k] # NoReq
      /\ active' = [active EXCEPT ![c][k] = NoReq]
      /\ ans' = [ans EXCEPT ![c] = [to |-> active[c][k].to, id |-> active[c][k].id,
                      code |-> "peer", call |-> Cur(c).call, big |-> Cur(c).big]]
  BY <1>2, <1>3 DEF HandleResponse
<1>5. PICK e \in Conn, n \in Nat : e = active[c][k].to /\ n = active[c][k].id
                                   /\ active[c][k] = [to |-> e, id |-> n]
  BY <1>0, <1>4, EntryIs
<1>6. ans'[c].to = e /\ ans'[c].id = n /\ active'[c][k] = NoReq
  BY <1>0, <1>4, <1>5 DEF TypeOK
<1>7. PICK i \in DOMAIN out[c] : /\ IsReq(out[c][i]) /\ out[c][i].id = k
                                 /\ out[c][i].call = Cur(c).call
  BY <1>0, <1>1, <1>2 DEF MapInv, AnswersMatch, IsRes
<1>8. Cur(c).call = <<e, n>>
  BY <1>4, <1>5, <1>7 DEF MapInv, EntriesMatch
<1>9. sent[c][Here(c)].call \in RepliedIn(sent)
  BY <1>0, <1>1, SentSets
<1> QED  BY <1>1, <1>5, <1>6, <1>7, <1>8, <1>9

(* Whom a goroutine answers.                                                 *)
LEMMA ReceiverIs ==
    ASSUME TypeInv, MapInv, StageInv, OnceInv, NEW c \in Conn, connectionLoop(c), pc'[c] = "reply"
    PROVE  \/ ans'[c].to = c /\ ans'[c].id = Here(c)
           \/ \E k \in Ids : active[c][k] = [to |-> ans'[c].to, id |-> ans'[c].id]
           \/ pc[c] = "reply" /\ ans'[c].to = ans[c].to /\ ans'[c].id = ans[c].id
<1>1. CASE OwnReply(c) \/ OwnFailure(c)
  BY <1>1 DEF OwnReply, OwnFailure, OwnAnswer
<1>2. CASE UndoRequest(c)
  BY <1>2 DEF UndoRequest, StageInv, OnceInv, SendsRequest, Sending, IsReq
<1>3. CASE HandleResponse(c)
  <2>1. PICK e \in Conn, n \in Nat, k \in Ids :
               /\ active[c][k] = [to |-> e, id |-> n] /\ active'[c][k] = NoReq
               /\ ans'[c].to = e /\ ans'[c].id = n
               /\ <<e, n>> \in RepliedIn(sent)
               /\ \E i \in DOMAIN out[c] : IsReq(out[c][i]) /\ out[c][i].id = k
    BY <1>3, RelayIs
  <2> QED  BY <2>1
<1>4. CASE SendReply(c)
  <2>1. Grants(c) \/ Refuses(c) \/ Relays(c) \/ Keeps(c)
    BY AnswerSteps
  <2> QED  BY <1>4, <2>1 DEF Grants, Refuses, Relays, Keeps, OwnAnswer, SendReply
<1> QED  BY <1>1, <1>2, <1>3, <1>4, ReplySteps

(* An answer that another goroutine has stays the only one on its way.       *)
LEMMA DueKept ==
    ASSUME TypeInv, MapInv, StageInv, OnceInv, NEW c \in Conn, connectionLoop(c),
           NEW d \in Conn, d # c, pc[d] = "reply",
           NEW e \in Conn, NEW n \in Nat, ans[d].to = e, ans[d].id = n
    PROVE  DueFor(d, e, n)'
<1>0. TypeOK /\ DueFor(d, e, n) /\ OthersIdle(c) /\ sent' = sent
  BY LoopKeeps DEF TypeInv, OnceInv, RepliesOnce
<1>1. ~(e = c /\ n = Here(c))
  BY HereFree
<1>2. Open(e, n)'
  <2>1. ~(pc[c] = "reply" /\ ans[c].to = e /\ ans[c].id = n)
    BY <1>0 DEF DueFor
  <2> QED  BY <1>0, <2>1, OpenKept DEF DueFor
<1>3. ASSUME NEW f \in Conn, NEW y \in Ids PROVE active'[f][y] # [to |-> e, id |-> n]
  <2>1. CASE active'[f][y] = active[f][y]
    BY <1>0, <2>1 DEF DueFor
  <2>2. CASE active'[f][y] = [to |-> c, id |-> Here(c)]
    BY <1>1, <2>2
  <2> QED  BY <2>1, <2>2, ActiveSteps, EntryIsNot
<1>4. ASSUME NEW f \in Conn, pc'[f] = "reply", ans'[f].to = e, ans'[f].id = n
      PROVE  f = d
  <2>1. CASE f # c
    BY <1>0, <1>4, <2>1 DEF OthersIdle, DueFor
  <2>2. CASE f = c
    <3>1. ~ \E k \in Ids : active[c][k] = [to |-> ans'[c].to, id |-> ans'[c].id]
      BY <1>0, <1>4, <2>2 DEF DueFor
    <3>2. ~(pc[c] = "reply" /\ ans[c].to = e /\ ans[c].id = n)
      BY <1>0 DEF DueFor
    <3> QED  BY <1>1, <1>4, <2>2, <3>1, <3>2, ReceiverIs
  <2> QED  BY <2>1, <2>2
<1>5. \/ e = d /\ n = Here(d)' /\ ans'[d].code # "peer"
      \/ n <= rd'[e] /\ <<e, n>> \in RepliedIn(sent)
  <2>1. CASE e = d /\ n = Here(d) /\ ans[d].code # "peer"
    BY <1>0, <2>1 DEF OthersIdle, Here
  <2>2. CASE n <= rd[e] /\ <<e, n>> \in RepliedIn(sent)
    <3>1. rd'[e] \in {rd[e], rd[e] + 1} /\ rd[e] \in Nat
      BY <1>0, LoopKeeps DEF OthersIdle, TypeOK
    <3> QED  BY <2>2, <3>1
  <2> QED  BY <1>0, <2>1, <2>2 DEF DueFor
<1> QED  BY <1>0, <1>2, <1>3, <1>4, <1>5 DEF DueFor

(* The goroutine's own answer, at once or after a failed write.              *)
LEMMA DueOwn ==
    ASSUME TypeInv, MapInv, StageInv, OnceInv, NEW c \in Conn, connectionLoop(c),
           OwnReply(c) \/ UndoRequest(c), NEW n \in Nat, n = Here(c)
    PROVE  ans'[c].to = c /\ ans'[c].id = n /\ DueFor(c, c, n)'
<1>0. /\ TypeOK /\ OthersIdle(c) /\ pc'[c] = "reply" /\ pc[c] # "reply"
      /\ IsReq(Cur(c)) /\ ans'[c].code # "peer"
      /\ ans'[c].to = c /\ ans'[c].id = Here(c)
  <2>1. CASE OwnReply(c)
    BY <2>1, LoopKeeps DEF OwnReply, OwnAnswer, TypeInv
  <2>2. CASE UndoRequest(c)
    BY <2>2, LoopKeeps DEF UndoRequest, Goto, StageInv, OnceInv, SendsRequest, Sending, IsReq,
                           TypeInv, TypeOK
  <2> QED  BY <2>1, <2>2
<1>1. rd'[c] = rd[c] /\ rd[c] < Len(sent[c]) /\ Here(c)' = Here(c)
  BY <1>0, AnswerSteps DEF Here
<1>2. Open(c, n)'
  BY <1>0, <1>1, HereFree, OpenKept
<1>3. ASSUME NEW f \in Conn, NEW y \in Ids, active'[f][y] = [to |-> c, id |-> n]
      PROVE  FALSE
  <2>1. active'[f][y] # NoReq
    BY <1>3, EntryIsNot
  <2>2. ~InsertRequest(c)
    BY <1>0 DEF InsertRequest, Goto, TypeOK
  <2>3. active'[f][y] = active[f][y]
    BY <2>1, <2>2, ActiveSteps
  <2>4. Holding(c, Here(c), f, y)
    BY <1>3, <2>3, HereFree
  <2>5. UndoRequest(c) /\ fwd[c].to = f /\ fwd[c].id = y
    BY <2>4 DEF Holding, OwnReply
  <2>6. active' = [active EXCEPT ![f][y] = NoReq]
    BY <2>5 DEF UndoRequest
  <2>7. active'[f][y] = NoReq
    BY <1>0, <2>6 DEF TypeOK
  <2> QED  BY <2>1, <2>7
<1>4. ASSUME NEW f \in Conn, pc'[f] = "reply", ans'[f].to = c, ans'[f].id = n PROVE f = c
  <2>1. CASE f # c
    BY <1>0, <1>4, <2>1, HereFree DEF OthersIdle
  <2> QED  BY <2>1
<1> QED  BY <1>0, <1>1, <1>2, <1>3, <1>4 DEF DueFor

(* The answer of a server.                                                   *)
LEMMA DueRelay ==
    ASSUME TypeInv, MapInv, StageInv, OnceInv, NEW c \in Conn, connectionLoop(c),
           HandleResponse(c), pc'[c] = "reply",
           NEW e \in Conn, NEW n \in Nat, ans'[c].to = e, ans'[c].id = n
    PROVE  DueFor(c, e, n)'
<1>0. TypeOK /\ OthersIdle(c) /\ sent' = sent /\ pc[c] = "idle"
  BY LoopKeeps DEF TypeInv, HandleResponse, Incoming, Receive
<1>1. PICK e2 \in Conn, n2 \in Nat, k \in Ids :
               /\ active[c][k] = [to |-> e2, id |-> n2] /\ active'[c][k] = NoReq
               /\ ans'[c].to = e2 /\ ans'[c].id = n2
               /\ <<e2, n2>> \in RepliedIn(sent)
               /\ \E i \in DOMAIN out[c] : IsReq(out[c][i]) /\ out[c][i].id = k
  BY RelayIs
<1>2. e2 = e /\ n2 = n
  BY <1>1
<1>3. StoredFor(c, k, e, n)
  BY <1>1, <1>2, EntryIsNot DEF OnceInv, EntriesOnce
<1>4. Open(e, n)'
  BY <1>0, <1>3, OpenKept DEF StoredFor
<1>5. ASSUME NEW f \in Conn, NEW y \in Ids, active'[f][y] = [to |-> e, id |-> n]
      PROVE  FALSE
  <2>1. active'[f][y] # NoReq
    BY <1>5, EntryIsNot
  <2>2. ~InsertRequest(c)
    BY <1>0 DEF InsertRequest
  <2>3. active'[f][y] = active[f][y]
    <3>1. active'[f][y] = active[f][y] \/ active'[f][y] = NoReq \/ InsertRequest(c)
      BY ActiveSteps
    <3> QED  BY <2>1, <2>2, <3>1
  <2>4. f = c /\ y = k
    BY <1>3, <1>5, <2>3 DEF StoredFor
  <2> QED  BY <1>1, <2>1, <2>4
<1>6. ASSUME NEW f \in Conn, pc'[f] = "reply", ans'[f].to = e, ans'[f].id = n PROVE f = c
  <2>1. CASE f # c
    <3>1. pc[f] = "reply" /\ ans[f].to = e /\ ans[f].id = n
      BY <1>0, <1>6, <2>1 DEF OthersIdle
    <3>2. DueFor(f, e, n)
      BY <3>1 DEF OnceInv, RepliesOnce
    <3> QED  BY <1>1, <1>2, <3>2 DEF DueFor
  <2> QED  BY <2>1
<1>7. n <= rd[e]
  <2>1. ASSUME Holding(e, n, c, k) PROVE FALSE
    <3>1. pc[e] \in Sending /\ fwd[e].to = c /\ fwd[e].id = k
      BY <2>1 DEF Holding, Sending
    <3>2. \A i \in DOMAIN out[c] : IsReq(out[c][i]) => out[c][i].id # k
      BY <3>1 DEF MapInv, HeldIds
    <3> QED  BY <1>1, <3>2
  <2> QED  BY <1>3, <2>1 DEF StoredFor
<1>8. n <= rd'[e]
  <2>1. rd'[e] \in {rd[e], rd[e] + 1} /\ rd[e] \in Nat
    BY <1>0, LoopKeeps DEF OthersIdle, TypeOK
  <2> QED  BY <1>7, <2>1
<1> QED  BY <1>0, <1>1, <1>2, <1>4, <1>5, <1>6, <1>8 DEF DueFor

(* The same answer again, replaced by a short error.                         *)
LEMMA DueAgain ==
    ASSUME TypeInv, MapInv, StageInv, OnceInv, NEW c \in Conn, connectionLoop(c),
           SendReply(c), pc'[c] = "reply",
           NEW e \in Conn, NEW n \in Nat, ans[c].to = e, ans[c].id = n
    PROVE  ans'[c].to = e /\ ans'[c].id = n /\ DueFor(c, e, n)'
<1>0. /\ TypeOK /\ OthersIdle(c) /\ sent' = sent /\ pc[c] = "reply" /\ DueFor(c, e, n)
      /\ active' = active /\ rd'[c] = rd[c]
  BY LoopKeeps, AnswerSteps DEF TypeInv, SendReply, OnceInv, RepliesOnce, tableVars
<1>1. /\ ans'[c].to = ans[c].to /\ ans'[c].id = ans[c].id
      /\ ans'[c].code \in {ans[c].code, "BufferLimitExceeded"}
  <2>1. Grants(c) \/ Refuses(c) \/ Relays(c) \/ Keeps(c)
    BY AnswerSteps
  <2>2. ~Finish(c)
    BY <1>0 DEF Finish, Goto, TypeOK
  <2>3. ans' = [ans EXCEPT ![c].code = "BufferLimitExceeded", ![c].big = FALSE]
    BY <2>2 DEF SendReply
  <2>4. ans[c] \in [to : Conn, id : Nat, code : Code, call : CallId, big : BOOLEAN]
    BY <1>0, ConnAssumption DEF TypeOK, Answer, NoAns
  <2> QED  BY <1>0, <2>3, <2>4 DEF TypeOK
<1>2. Open(e, n)'
  BY <1>0, OpenKept DEF DueFor
<1>3. \A f \in Conn : pc'[f] = "reply" /\ ans'[f].to = e /\ ans'[f].id = n => f = c
  BY <1>0 DEF OthersIdle, DueFor
<1>4. \A f \in Conn : rd'[f] = rd[f]
  BY <1>0 DEF OthersIdle
<1>5. \/ e = c /\ n = Here(c)' /\ ans'[c].code # "peer"
      \/ n <= rd'[e] /\ <<e, n>> \in RepliedIn(sent)
  BY <1>0, <1>1, <1>4 DEF DueFor, Here
<1> QED  BY <1>0, <1>1, <1>2, <1>3, <1>5 DEF DueFor

LEMMA LoopOnce ==
    ASSUME TypeInv, MapInv, StageInv, OnceInv, NEW c \in Conn, connectionLoop(c), TypeOK'
    PROVE  OnceInv'
<1>0. /\ TypeOK /\ OthersIdle(c) /\ sent' = sent
      /\ \A d \in Conn : rd[d] \in Nat /\ rd'[d] \in {rd[d], rd[d] + 1}
  BY LoopKeeps DEF TypeInv, TypeOK, OthersIdle
<1>1. EntriesOnce'
  <2> SUFFICES ASSUME NEW d \in Conn, NEW x \in Ids, active'[d][x] # NoReq
               PROVE  StoredFor(d, x, active[d][x].to, active[d][x].id)'
    BY DEF EntriesOnce
  <2>1. CASE active'[d][x] = active[d][x]
    <3>1. PICK e \in Conn, n \in Nat : /\ e = active[d][x].to /\ n = active[d][x].id
                                       /\ active[d][x] = [to |-> e, id |-> n]
      BY <1>0, <2>1, EntryIs
    <3>2. StoredFor(d, x, e, n)'
      BY <2>1, <3>1, StoredKept
    <3> QED  BY <2>1, <3>1, <3>2
  <2>2. CASE /\ InsertRequest(c) /\ d = fwd[c].to /\ x = fwd[c].id
             /\ active'[d][x] = [to |-> c, id |-> Here(c)]
    <3>1. PICK n \in Nat : n = Here(c)
      BY <1>0 DEF Here
    <3>2. Here(c)' = n /\ active'[d][x].to = c /\ active'[d][x].id = n
      BY <2>2, <3>1 DEF InsertRequest, Here
    <3>3. StoredFor(d, x, c, Here(c))'
      BY <2>2, StoredNew
    <3> QED  BY <3>2, <3>3
  <2> QED  BY <2>1, <2>2, ActiveSteps
<1>2. RepliesOnce'
  <2> SUFFICES ASSUME NEW d \in Conn, pc'[d] = "reply"
               PROVE  DueFor(d, ans[d].to, ans[d].id)'
    BY DEF RepliesOnce
  <2>1. CASE d # c
    <3>1. pc[d] = "reply" /\ ans'[d] = ans[d]
      BY <1>0, <2>1 DEF OthersIdle
    <3>2. ans[d].to \in Conn /\ ans[d].id \in Nat
      BY <1>0, <3>1, ConnAssumption DEF TypeInv, LoopInv, LoopOK, TypeOK, Answer, NoAns
    <3>3. PICK e \in Conn, n \in Nat : ans[d].to = e /\ ans[d].id = n
      BY <3>2
    <3>4. DueFor(d, e, n)'
      BY <2>1, <3>1, <3>3, DueKept
    <3> QED  BY <3>1, <3>3, <3>4
  <2>2. CASE d = c /\ (OwnReply(c) \/ UndoRequest(c))
    <3>1. PICK n \in Nat : n = Here(c)
      BY <1>0 DEF Here
    <3>2. ans'[c].to = c /\ ans'[c].id = n /\ DueFor(c, c, n)'
      BY <2>2, <3>1, DueOwn
    <3> QED  BY <2>2, <3>2
  <2>3. CASE d = c /\ HandleResponse(c)
    <3>1. \E e \in Conn, n \in Nat : ans'[c].to = e /\ ans'[c].id = n
      <4>1. PICK e \in Conn, n \in Nat, k \in Ids :
               /\ active[c][k] = [to |-> e, id |-> n] /\ active'[c][k] = NoReq
               /\ ans'[c].to = e /\ ans'[c].id = n
               /\ <<e, n>> \in RepliedIn(sent)
               /\ \E i \in DOMAIN out[c] : IsReq(out[c][i]) /\ out[c][i].id = k
        BY <2>3, RelayIs
      <4> QED  BY <4>1
    <3>2. PICK e \in Conn, n \in Nat : ans'[c].to = e /\ ans'[c].id = n
      BY <3>1
    <3>3. DueFor(c, e, n)'
      BY <2>3, <3>2, DueRelay
    <3> QED  BY <2>3, <3>2, <3>3
  <2>4. CASE d = c /\ SendReply(c)
    <3>0. pc[c] = "reply"
      BY <2>4 DEF SendReply
    <3>1. ans[c].to \in Conn /\ ans[c].id \in Nat
      BY <1>0, <3>0, ConnAssumption DEF TypeInv, LoopInv, LoopOK, TypeOK, Answer, NoAns
    <3>2. PICK e \in Conn, n \in Nat : ans[c].to = e /\ ans[c].id = n
      BY <3>1
    <3>3. ans'[c].to = e /\ ans'[c].id = n /\ DueFor(c, e, n)'
      BY <2>4, <3>2, DueAgain
    <3> QED  BY <2>4, <3>3
  <2>5. CASE d = c /\ OwnFailure(c)
    BY <2>5 DEF OwnFailure
  <2> QED  BY <2>1, <2>2, <2>3, <2>4, <2>5, ReplySteps
<1>3. AnswersPast'
  <2> SUFFICES ASSUME NEW d \in Conn, NEW i \in DOMAIN out'[d], IsRes(out'[d][i])
               PROVE  out'[d][i].id <= rd'[d]
    BY DEF AnswersPast
  <2>1. CASE i \in DOMAIN out[d] /\ out'[d][i] = out[d][i]
    <3>1. out[d][i] \in Message
      BY <1>0, <2>1 DEF TypeOK
    <3>2. out[d][i].id \in Nat
      BY <2>1, <3>1 DEF IsRes, Message
    <3>3. out[d][i].id <= rd[d]
      BY <2>1 DEF OnceInv, AnswersPast
    <3> QED  BY <1>0, <2>1, <3>2, <3>3
  <2>2. CASE ~(i \in DOMAIN out[d] /\ out'[d][i] = out[d][i])
    <3>1. Finish(c) /\ pc[c] = "reply" /\ d = ans[c].to /\ out'[d][i] = Res(c)
      BY <2>2, NewMessage, MessageKinds DEF IsRes
    <3>2. out'[d][i].id = ans[c].id /\ ans[c].id \in Nat
      BY <1>0, <3>1 DEF Res, TypeOK, Answer, NoAns
    <3>3. rd'[c] = rd[c] + 1
      BY <1>0, <3>1 DEF Finish, TypeOK
    <3>4. \/ d = c /\ ans[c].id = Here(c)
          \/ ans[c].id <= rd[d]
      BY <3>1 DEF OnceInv, RepliesOnce, DueFor
    <3> QED  BY <1>0, <3>2, <3>3, <3>4 DEF Here
  <2> QED  BY <2>1, <2>2
<1>4. SendsRequest'
  <2> SUFFICES ASSUME NEW d \in Conn
               PROVE  /\ pc'[d] \in {"alloc"} \cup Sending => IsReq(Cur(d)')
                      /\ pc'[d] = "undo" => ans'[d].code # "peer"
    BY DEF SendsRequest, IsReq
  <2>1. CASE d # c
    BY <1>0, <2>1 DEF OthersIdle, OnceInv, SendsRequest, Cur, Here
  <2>2. ASSUME d = c, pc'[c] \in {"alloc"} \cup Sending PROVE IsReq(Cur(c)')
    <3>1. pc'[c] \in Directed /\ pc'[c] # "notify"
      BY <2>2 DEF Directed, Sending
    <3>2. /\ Cur(c)' = Cur(c)
          /\ Aims(c) \/ pc[c] \in Directed \ {"notify"}
      BY <1>0, <3>1, DirectSteps DEF Cur, Here
    <3>3. CASE Aims(c)
      BY <3>1, <3>2, <3>3 DEF Aims, IsReq
    <3>4. CASE pc[c] \in Directed \ {"notify"}
      BY <3>2, <3>4 DEF Directed, OnceInv, SendsRequest
    <3> QED  BY <3>2, <3>3, <3>4
  <2>3. ASSUME d = c, pc'[c] = "undo" PROVE ans'[c].code # "peer"
    <3>1. ~UndoRequest(c) /\ ~HandleResponse(c) /\ ~SendReply(c) /\ ~OwnReply(c)
      BY <1>0, <2>3 DEF UndoRequest, HandleResponse, SendReply, OwnReply, Finish, Goto, TypeOK
    <3> QED  BY <2>3, <3>1, ReplySteps DEF OwnFailure
  <2> QED  BY <2>1, <2>2, <2>3
<1> QED  BY <1>1, <1>2, <1>3, <1>4 DEF OnceInv

(* What the clients do leaves the requests open and the answers given.       *)
LEMMA ClientOnce ==
    ASSUME TypeInv, OnceInv, NEW c \in Conn, Client(c), TypeOK'
    PROVE  OnceInv'
<1>0. /\ TypeOK /\ SentKept
      /\ UNCHANGED <<rd, out, active, fwd, ans>>
      /\ \A d \in Conn : pc'[d] = pc[d] \/ (pc[d] = "new" /\ pc'[d] = "idle")
  BY ClientFrame DEF TypeInv
<1>1. \A d \in Conn : /\ DOMAIN sent[d] = 1 .. Len(sent[d]) /\ Len(sent[d]) \in Nat
                      /\ DOMAIN sent'[d] = 1 .. Len(sent'[d]) /\ Len(sent'[d]) \in Nat
  BY <1>0 DEF TypeOK
<1>2. \A d \in Conn : \A n \in DOMAIN sent[d] : n \in DOMAIN sent'[d] /\ sent'[d][n] = sent[d][n]
  BY <1>0, <1>1 DEF SentKept
<1>3. ASSUME NEW d \in Conn, NEW n, Open(d, n) PROVE Open(d, n)'
  BY <1>0, <1>2, <1>3 DEF Open, Answered
<1>4. RepliedIn(sent) \subseteq RepliedIn(sent')
  <2> SUFFICES ASSUME NEW x \in RepliedIn(sent) PROVE x \in RepliedIn(sent')
    OBVIOUS
  <2>1. PICK d \in Conn : \E n \in DOMAIN sent[d] : sent[d][n].type = "res" /\ x = sent[d][n].call
    BY SentSets
  <2>2. PICK n \in DOMAIN sent[d] : sent[d][n].type = "res" /\ x = sent[d][n].call
    BY <2>1
  <2>3. n \in DOMAIN sent'[d] /\ sent'[d][n] = sent[d][n]
    BY <1>2
  <2>4. sent'[d][n].type = "res" => sent'[d][n].call \in RepliedIn(sent')
    BY <2>3, SentSets
  <2> QED  BY <2>2, <2>3, <2>4
<1>5. EntriesOnce'
  <2> SUFFICES ASSUME NEW d \in Conn, NEW x \in Ids, active[d][x] # NoReq
               PROVE  StoredFor(d, x, active[d][x].to, active[d][x].id)'
    BY <1>0 DEF EntriesOnce
  <2>1. PICK e \in Conn, n \in Nat : /\ e = active[d][x].to /\ n = active[d][x].id
                                     /\ active[d][x] = [to |-> e, id |-> n]
    BY <1>0, EntryIs
  <2>2. StoredFor(d, x, e, n)
    BY <2>1 DEF OnceInv, EntriesOnce
  <2>3. Holding(e, n, d, x) => Holding(e, n, d, x)'
    BY <1>0 DEF Holding, Here
  <2>4. StoredFor(d, x, e, n)'
    BY <1>0, <1>3, <2>2, <2>3 DEF StoredFor
  <2> QED  BY <1>0, <2>1, <2>4
<1>6. RepliesOnce'
  <2> SUFFICES ASSUME NEW d \in Conn, pc'[d] = "reply"
               PROVE  DueFor(d, ans[d].to, ans[d].id)'
    BY DEF RepliesOnce
  <2>1. pc[d] = "reply"
    BY <1>0
  <2>2. ans[d].to \in Conn /\ ans[d].id \in Nat
    BY <1>0, <2>1, ConnAssumption DEF TypeInv, LoopInv, LoopOK, TypeOK, Answer, NoAns
  <2>3. PICK e \in Conn, n \in Nat : ans[d].to = e /\ ans[d].id = n
    BY <2>2
  <2>4. DueFor(d, e, n)
    BY <2>1, <2>3 DEF OnceInv, RepliesOnce
  <2>5. Here(d)' = Here(d) /\ \A f \in Conn : pc'[f] = "reply" => pc[f] = "reply"
    BY <1>0 DEF Here
  <2>6. DueFor(d, e, n)'
    BY <1>0, <1>3, <1>4, <2>4, <2>5 DEF DueFor
  <2> QED  BY <1>0, <2>3, <2>6
<1>7. AnswersPast'
  BY <1>0 DEF OnceInv, AnswersPast
<1>8. SendsRequest'
  <2> SUFFICES ASSUME NEW d \in Conn
               PROVE  /\ pc'[d] \in {"alloc"} \cup Sending => IsReq(Cur(d)')
                      /\ pc'[d] = "undo" => ans'[d].code # "peer"
    BY DEF SendsRequest, IsReq
  <2>1. ASSUME pc'[d] \in {"alloc"} \cup Sending PROVE IsReq(Cur(d)')
    <3>1. pc[d] \in {"alloc"} \cup Sending
      BY <1>0, <2>1 DEF Sending
    <3>2. IsReq(Cur(d)) /\ rd[d] < Len(sent[d])
      BY <3>1 DEF OnceInv, SendsRequest, TypeInv, LoopInv, LoopOK, Calling, Directed
    <3>3. Cur(d)' = Cur(d)
      BY <1>0, <3>2, CurKept
    <3> QED  BY <3>2, <3>3
  <2>2. pc'[d] = "undo" => ans'[d].code # "peer"
    BY <1>0 DEF OnceInv, SendsRequest
  <2> QED  BY <2>1, <2>2
<1> QED  BY <1>5, <1>6, <1>7, <1>8 DEF OnceInv

LEMMA StepAnswer ==
    TypeInv /\ RemapInv /\ StageInv /\ AnswerInv /\ [Next]_vars => AnswerInv'
<1> SUFFICES ASSUME TypeInv, RemapInv, StageInv, AnswerInv, [Next]_vars, NoWrap'
             PROVE  OnceInv'
  BY DEF AnswerInv
<1>0. NoWrap /\ MapInv /\ OnceInv /\ TypeOK'
  BY CountersGrow, StepType DEF RemapInv, AnswerInv, TypeInv
<1>1. CASE UNCHANGED vars
  <2>1. UNCHANGED <<sent, rd, out, active, pc, fwd, ans>>
    BY <1>1 DEF vars
  <2>2. EntriesOnce'
    BY <1>0, <2>1 DEF OnceInv, EntriesOnce, StoredFor, Open, Holding, Answered, Here
  <2>3. RepliesOnce'
    BY <1>0, <2>1 DEF OnceInv, RepliesOnce, DueFor, Open, Answered, Here
  <2>4. AnswersPast' /\ SendsRequest'
    BY <1>0, <2>1 DEF OnceInv, AnswersPast, SendsRequest, Cur, Here
  <2> QED  BY <2>2, <2>3, <2>4 DEF OnceInv
<1>2. ASSUME NEW c \in Conn, Client(c) PROVE OnceInv'
  BY <1>0, <1>2, ClientOnce
<1>3. ASSUME NEW c \in Conn, connectionLoop(c) PROVE OnceInv'
  BY <1>0, <1>3, LoopOnce
<1> QED  BY <1>1, <1>2, <1>3 DEF Next

-----------------------------------------------------------------------------
(***************************************************************************)
(* Every step of the router is one of the service or changes nothing the    *)
(* service speaks of.                                                       *)
(***************************************************************************)

(* The call of a delivered request, and the receiver and number of an        *)
(* answer, as the service sees them.                                         *)
LEMMA ServiceSees ==
    /\ \A q \in Service!Served : \E d \in Conn : \E i \in DOMAIN out[d] :
           IsReq(out[d][i]) /\ q = out[d][i].call
    /\ \A d \in Conn : \A i \in DOMAIN out[d] :
           IsReq(out[d][i]) => out[d][i].call \in Service!Served
    /\ \A q \in Service!Answered : \E c \in Conn : \E n : q = <<c, n>> /\ Answered(c, n)
<1>1. ASSUME NEW q \in Service!Served
      PROVE  \E d \in Conn : \E i \in DOMAIN out[d] : IsReq(out[d][i]) /\ q = out[d][i].call
  <2>1. PICK x \in ServedIn(out) : q = x.call
    BY DEF Service!Served
  <2>2. PICK d \in Conn : \E i \in DOMAIN out[d] :
            out[d][i].type = "req" /\ x = ServedAt(d, i, out[d][i])
    BY ReceivedSets
  <2> QED  BY <2>1, <2>2 DEF ServedAt, IsReq
<1>2. ASSUME NEW d \in Conn, NEW i \in DOMAIN out[d], IsReq(out[d][i])
      PROVE  out[d][i].call \in Service!Served
  <2>1. ServedAt(d, i, out[d][i]) \in ServedIn(out)
    BY <1>2, ReceivedSets DEF IsReq
  <2>2. ServedAt(d, i, out[d][i]).call = out[d][i].call
    BY DEF ServedAt
  <2> QED  BY <2>1, <2>2 DEF Service!Served
<1>3. ASSUME NEW q \in Service!Answered
      PROVE  \E c \in Conn : \E n : q = <<c, n>> /\ Answered(c, n)
  <2>1. PICK x \in AnswersIn(out) : q = <<x.to, x.id>>
    BY DEF Service!Answered
  <2>2. PICK c \in Conn : \E i \in DOMAIN out[c] :
            out[c][i].type = "res" /\ x = AnsweredAt(c, i, out[c][i])
    BY ReceivedSets
  <2>3. PICK i \in DOMAIN out[c] : out[c][i].type = "res" /\ x = AnsweredAt(c, i, out[c][i])
    BY <2>2
  <2>4. x.to = c /\ x.id = out[c][i].id
    BY <2>3 DEF AnsweredAt
  <2>5. Answered(c, out[c][i].id)
    BY <2>3 DEF Answered, IsRes
  <2> QED  BY <2>1, <2>4, <2>5
<1> QED  BY <1>1, <1>2, <1>3

SameService == /\ AskedIn(sent') = AskedIn(sent) /\ RepliedIn(sent') = RepliedIn(sent)
               /\ ServedIn(out') = ServedIn(out) /\ AnswersIn(out') = AnswersIn(out)

(* A packet that a client sends is a request, an answer to a request it was  *)
(* given, or nothing to the service.                                         *)
LEMMA ClientServes ==
    ASSUME TypeInv, NEW c \in Conn, Client(c)
    PROVE  Service!Ask \/ Service!Respond \/ SameService
<1>0. TypeOK /\ out' = out
  BY ClientFrame DEF TypeInv
<1>1. CASE Accept(c) \/ Disconnect(c)
  BY <1>0, <1>1 DEF Accept, Disconnect, SameService
<1>2. ASSUME NEW p \in Packet, sent' = [sent EXCEPT ![c] = Append(@, p)]
      PROVE  AddsOne(sent, sent', c, Len(sent[c]) + 1, p)
  <2>1. sent \in [Conn -> Seq(Packet)]
    BY <1>0 DEF TypeOK
  <2> QED  BY <1>2, <2>1, AppendAddsOne
<1>3. CASE ClientSend(c)
  <2>1. PICK p \in Offer[c] : Send(c, p)
    BY <1>3 DEF ClientSend
  <2>2. p \in Packet /\ p.type # "res" /\ sent' = [sent EXCEPT ![c] = Append(@, p)]
    BY <2>1, OfferAssumption DEF Packet, Call, Junk, Send
  <2>3. PICK k \in Nat : k = Len(sent[c]) + 1
    BY <1>0 DEF TypeOK
  <2>4. AddsOne(sent, sent', c, k, p)
    BY <1>2, <2>2, <2>3
  <2>5. RepliedIn(sent') = RepliedIn(sent)
    BY <2>2, <2>4, RepliedOneMore
  <2>6. CASE p.type = "req"
    <3>1. AskedIn(sent') = AskedIn(sent) \cup {<<c, k>>} /\ <<c, k>> \notin AskedIn(sent)
      BY <2>4, <2>6, AskedOneMore, OneMoreIsNew
    <3> QED  BY <1>0, <2>5, <3>1 DEF Service!Ask, Service!Adds
  <2>7. CASE p.type # "req"
    <3>1. AskedIn(sent') = AskedIn(sent)
      BY <2>4, <2>7, AskedOneMore
    <3> QED  BY <1>0, <2>5, <3>1 DEF SameService
  <2> QED  BY <2>6, <2>7
<1>4. CASE ClientRespond(c)
  <2>1. PICK i \in DOMAIN out[c], b \in Sizes :
            /\ out[c][i].type = "req"
            /\ Send(c, [type |-> "res", id |-> out[c][i].id, call |-> out[c][i].call, big |-> b])
    BY <1>4 DEF ClientRespond
  <2>2. out[c][i].id \in Ids /\ out[c][i].call \in CallId
    <3>1. out[c][i] \in Message
      BY <1>0 DEF TypeOK
    <3> QED  BY <2>1, <3>1 DEF Message
  <2>3. PICK p \in Response : p = [type |-> "res", id |-> out[c][i].id,
                                   call |-> out[c][i].call, big |-> b]
    BY <2>2, BoundAssumption DEF Response
  <2>4. /\ p \in Packet /\ p.type = "res" /\ p.call = out[c][i].call
        /\ sent' = [sent EXCEPT ![c] = Append(@, p)]
    BY <2>1, <2>3 DEF Packet, Send
  <2>5. PICK k \in Nat : k = Len(sent[c]) + 1
    BY <1>0 DEF TypeOK
  <2>6. AddsOne(sent, sent', c, k, p)
    BY <1>2, <2>4, <2>5
  <2>7. AskedIn(sent') = AskedIn(sent) /\ RepliedIn(sent') = RepliedIn(sent) \cup {p.call}
    BY <2>4, <2>6, AskedOneMore, RepliedOneMore
  <2>8. p.call \in Service!Served
    BY <2>1, <2>4, ServiceSees DEF IsReq
  <2>9. CASE p.call \in RepliedIn(sent)
    BY <1>0, <2>7, <2>9 DEF SameService
  <2>10. CASE p.call \notin RepliedIn(sent)
    BY <1>0, <2>7, <2>8, <2>10 DEF Service!Respond, Service!Adds
  <2> QED  BY <2>9, <2>10
<1> QED  BY <1>1, <1>3, <1>4 DEF Client

(* A request written to a server serves it.                                  *)
LEMMA AsksServes ==
    ASSUME TypeInv, PastCalls, OnceInv, NEW c \in Conn, connectionLoop(c), Asks(c)
    PROVE  Service!Serve
<1>0. /\ TypeOK /\ sent' = sent /\ pc[c] = "write" /\ out \in [Conn -> Seq(Message)]
      /\ rd[c] \in Nat /\ rd[c] < Len(sent[c]) /\ IsReq(Cur(c))
  BY LoopKeeps DEF TypeInv, TypeOK, Asks, LoopInv, LoopOK, Calling, Directed, Sending, OnceInv, SendsRequest
<1>1. PICK d \in Conn, m \in Message : d = fwd[c].to /\ m = Req(c)
  BY <1>0, MessageTypes
<1>2. out' = [out EXCEPT ![d] = Append(@, m)]
  BY <1>1 DEF Asks, Says, Deliver
<1>3. PICK k \in Nat : k = Len(out[d]) + 1
  BY <1>0
<1>4. AddsOne(out, out', d, k, m)
  BY <1>0, <1>2, <1>3, AppendAddsOne
<1>5. m.type = "req" /\ m.call = <<c, Here(c)>>
  BY <1>1 DEF Req
<1>6. /\ ServedIn(out') = ServedIn(out) \cup {ServedAt(d, k, m)}
      /\ ServedAt(d, k, m) \notin ServedIn(out)
      /\ AnswersIn(out') = AnswersIn(out)
  <2>1. ServedAt(d, k, m) \notin ServedIn(out)
    BY <1>4, OneMoreIsNew
  <2>2. ServedIn(out') = ServedIn(out) \cup {ServedAt(d, k, m)}
    BY <1>4, <1>5, ServedOneMore
  <2>3. AnswersIn(out') = AnswersIn(out)
    BY <1>4, <1>5, AnswersOneMore
  <2> QED  BY <2>1, <2>2, <2>3
<1>7. Open(c, Here(c))
  BY <1>0, HereFree
<1>8. <<c, Here(c)>> \in AskedIn(sent)
  BY <1>7, SentSets DEF Open, IsReq
<1>9. <<c, Here(c)>> \notin Service!Answered
  BY <1>7, ServiceSees DEF Open
<1>10. \A q \in Service!Served : q[1] = c => q[2] < Here(c)
  <2> SUFFICES ASSUME NEW q \in Service!Served, q[1] = c PROVE q[2] < Here(c)
    OBVIOUS
  <2>1. PICK e \in Conn : \E i \in DOMAIN out[e] : IsReq(out[e][i]) /\ q = out[e][i].call
    BY ServiceSees
  <2>2. PICK i \in DOMAIN out[e] : IsReq(out[e][i]) /\ q = out[e][i].call
    BY <2>1
  <2>3. q[2] <= rd[c]
    BY <2>2 DEF PastCalls, IsReq, IsRes
  <2>4. out[e][i] \in Message
    BY <1>0
  <2>5. q \in CallId
    BY <2>2, <2>4 DEF Message, IsReq
  <2> QED  BY <1>0, <2>3, <2>5 DEF CallId, Here
<1>11. PICK x : x = ServedAt(d, k, m)
  OBVIOUS
<1>12. x.call = <<c, Here(c)>>
  BY <1>5, <1>11 DEF ServedAt
<1>13. x \in ServedIn(out') \ ServedIn(out) /\ ServedIn(out') = ServedIn(out) \cup {x}
  BY <1>6, <1>11
<1>14. x.call[1] = c /\ x.call[2] = Here(c)
  BY <1>12
<1> QED  BY <1>0, <1>6, <1>8, <1>9, <1>10, <1>12, <1>13, <1>14 DEF Service!Serve, Service!Adds

(* An answer written to a caller answers its request.                        *)
LEMMA RepliesServe ==
    ASSUME TypeInv, MapInv, PastCalls, OnceInv, NEW c \in Conn, connectionLoop(c), Replies(c)
    PROVE  Service!Answer
<1>0. /\ TypeOK /\ sent' = sent /\ pc[c] = "reply" /\ out \in [Conn -> Seq(Message)]
      /\ rd[c] \in Nat
  BY LoopKeeps DEF TypeInv, TypeOK, Replies
<1>1. PICK e \in Conn, m \in Message : e = ans[c].to /\ m = Res(c)
  BY <1>0, MessageTypes
<1>2. out' = [out EXCEPT ![e] = Append(@, m)]
  BY <1>1 DEF Replies, Says, Deliver
<1>3. PICK k \in Nat : k = Len(out[e]) + 1
  BY <1>0
<1>4. AddsOne(out, out', e, k, m)
  BY <1>0, <1>2, <1>3, AppendAddsOne
<1>5. ans[c].id \in Nat
  BY <1>0 DEF TypeOK, Answer, NoAns
<1>6. PICK n \in Nat : n = ans[c].id
  BY <1>5
<1>7. m.type = "res" /\ m.id = n /\ m.call = <<e, n>> /\ m.code = ans[c].code
  BY <1>0, <1>1, <1>6 DEF Res, MapInv, RepliesMatch
<1>8. /\ AnswersIn(out') = AnswersIn(out) \cup {AnsweredAt(e, k, m)}
      /\ AnsweredAt(e, k, m) \notin AnswersIn(out)
      /\ ServedIn(out') = ServedIn(out)
  <2>1. AnsweredAt(e, k, m) \notin AnswersIn(out)
    BY <1>4, OneMoreIsNew
  <2>2. AnswersIn(out') = AnswersIn(out) \cup {AnsweredAt(e, k, m)}
    BY <1>4, <1>7, AnswersOneMore
  <2>3. ServedIn(out') = ServedIn(out)
    BY <1>4, <1>7, ServedOneMore
  <2> QED  BY <2>1, <2>2, <2>3
<1>9. DueFor(c, e, n)
  BY <1>0, <1>1, <1>6 DEF OnceInv, RepliesOnce
<1>10. <<e, n>> \in AskedIn(sent)
  BY <1>9, SentSets DEF DueFor, Open, IsReq
<1>11. <<e, n>> \notin Service!Answered
  BY <1>9, ServiceSees DEF DueFor, Open
<1>12. m.code = "peer" \/ <<e, n>> \in Service!Served => <<e, n>> \in RepliedIn(sent)
  <2> SUFFICES ASSUME <<e, n>> \notin RepliedIn(sent), m.code = "peer" \/ <<e, n>> \in Service!Served
               PROVE  FALSE
    OBVIOUS
  <2>1. e = c /\ n = Here(c) /\ ans[c].code # "peer"
    BY <1>9 DEF DueFor
  <2>2. <<e, n>> \in Service!Served
    BY <1>7, <2>1
  <2>3. PICK d \in Conn : \E i \in DOMAIN out[d] : IsReq(out[d][i]) /\ <<e, n>> = out[d][i].call
    BY <2>2, ServiceSees
  <2>4. PICK i \in DOMAIN out[d] : IsReq(out[d][i]) /\ <<e, n>> = out[d][i].call
    BY <2>3
  <2>5. out[d][i].call[1] = e /\ out[d][i].call[2] = n
    BY <2>4
  <2>6. n <= rd[e]
    BY <2>4, <2>5 DEF PastCalls, IsReq, IsRes
  <2> QED  BY <1>0, <2>1, <2>6 DEF Here
<1>13. PICK x : x = AnsweredAt(e, k, m)
  OBVIOUS
<1>14. /\ x.to = e /\ x.id = n /\ x.call = <<e, n>>
       /\ x.peer => m.code = "peer"
  <2>1. x.to = e /\ x.id = m.id /\ x.call = m.call /\ x.peer = (m.code = "peer")
    BY <1>13 DEF AnsweredAt
  <2> QED  BY <1>7, <2>1
<1>15. x \in AnswersIn(out') \ AnswersIn(out) /\ AnswersIn(out') = AnswersIn(out) \cup {x}
  BY <1>8, <1>13
<1>16. x.call = <<x.to, x.id>> /\ x.call \in AskedIn(sent) /\ x.call \notin Service!Answered
  BY <1>10, <1>11, <1>14
<1>17. x.peer \/ x.call \in Service!Served => x.call \in RepliedIn(sent)
  BY <1>12, <1>14
<1> QED  BY <1>0, <1>8, <1>15, <1>16, <1>17 DEF Service!Answer, Service!Adds

(* A notification is nothing to the service.                                 *)
LEMMA NotesServe ==
    ASSUME TypeInv, NEW c \in Conn, connectionLoop(c), Notes(c)
    PROVE  SameService
<1>0. sent' = sent /\ pc[c] = "notify" /\ out \in [Conn -> Seq(Message)]
  BY LoopKeeps DEF TypeInv, TypeOK, Notes
<1>1. PICK d \in Conn, m \in Message : d = fwd[c].to /\ m = Note(c)
  BY <1>0, MessageTypes
<1>2. out' = [out EXCEPT ![d] = Append(@, m)]
  BY <1>1 DEF Notes, Says, Deliver
<1>3. AddsOne(out, out', d, Len(out[d]) + 1, m)
  BY <1>0, <1>2, AppendAddsOne
<1>4. m.type = "not"
  BY <1>1, MessageKinds
<1> QED  BY <1>0, <1>3, <1>4, ServedOneMore, AnswersOneMore DEF SameService

LEMMA StepServes ==
    TypeInv /\ RemapInv /\ PastCalls /\ AnswerInv /\ NoWrap /\ [Next]_vars
    => [Service!Next]_(Service!vars)
<1> SUFFICES ASSUME TypeInv, RemapInv, PastCalls, AnswerInv, NoWrap, [Next]_vars
             PROVE  [Service!Next]_(Service!vars)
  OBVIOUS
<1>0. MapInv /\ OnceInv
  BY DEF RemapInv, AnswerInv
<1>1. SameService => UNCHANGED Service!vars
  BY DEF SameService, Service!vars
<1>2. CASE UNCHANGED vars
  <2>1. sent' = sent /\ out' = out
    BY <1>2 DEF vars
  <2> QED  BY <1>1, <2>1 DEF SameService
<1>3. ASSUME NEW c \in Conn, Client(c) PROVE [Service!Next]_(Service!vars)
  BY <1>1, <1>3, ClientServes DEF Service!Next
<1>4. ASSUME NEW c \in Conn, connectionLoop(c) PROVE [Service!Next]_(Service!vars)
  <2>1. CASE Asks(c)
    BY <1>0, <1>4, <2>1, AsksServes DEF Service!Next
  <2>2. CASE Replies(c)
    BY <1>0, <1>4, <2>2, RepliesServe DEF Service!Next
  <2>3. CASE Notes(c)
    BY <1>1, <1>4, <2>3, NotesServe
  <2>4. CASE UNCHANGED out
    <3>1. sent' = sent
      BY <1>4, LoopKeeps
    <3> QED  BY <1>1, <2>4, <3>1 DEF SameService
  <2> QED  BY <1>4, <2>1, <2>2, <2>3, <2>4, LoopOutput
<1> QED  BY <1>2, <1>3, <1>4 DEF Next

(* Up to the first reuse of a request ID, and whatever the clients do, the   *)
(* router is an implementation of the service: it serves every request at    *)
(* most once and in its client's order, answers it at most once and with its *)
(* own answer, and answers itself only what no server has.                   *)
THEOREM RouterImplementsService == Spec /\ []NoWrap => ImplementsService
<1>1. Init => MapInv /\ RouteInv /\ StageInv /\ PastCalls
  BY DEF Init, NewConnection, MapInv, HeldIds, UsedIds, StoredEntry, EntriesMatch, AnswersMatch,
     RepliesMatch, DeliveredMatch, Sending, Directed, RouteInv, StageInv, PastCalls
<1>2. Init => OnceInv
  BY DEF Init, NewConnection, OnceInv, EntriesOnce, RepliesOnce, AnswersPast, SendsRequest, Sending
<1>3. Init => RemapInv /\ AnswerInv
  BY <1>1, <1>2 DEF RemapInv, AnswerInv
<1>4. Spec => [](TypeInv /\ RouteInv /\ RemapInv /\ StageInv /\ PastCalls /\ AnswerInv)
  BY <1>1, <1>3, InitType, StepType, StepRoutes, StepRemap, StepStage, StepPast, StepAnswer, PTL
  DEF Spec
<1>5. Init => Service!Init
  <2> SUFFICES ASSUME Init PROVE Service!Init
    OBVIOUS
  <2>1. \A c \in Conn : sent[c] = <<>> /\ out[c] = <<>>
    BY DEF Init
  <2>2. AskedIn(sent) = {} /\ RepliedIn(sent) = {}
    BY <2>1, SentSets
  <2>3. ServedIn(out) = {} /\ AnswersIn(out) = {}
    BY <2>1, ReceivedSets
  <2> QED  BY <2>2, <2>3 DEF Service!Init
<1> QED  BY <1>4, <1>5, StepServes, PTL DEF Spec, ImplementsService, Service!Spec
=============================================================================
