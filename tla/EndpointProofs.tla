--------------------------- MODULE EndpointProofs ---------------------------
(***************************************************************************)
(* Proofs about two endpoints of a connection, for any number of calls, any *)
(* size of the stream and of the ID counter: the entries of waiting calls,  *)
(* the framing of messages, and that a call gets its own answer.            *)
(***************************************************************************)
EXTENDS Endpoint, TLAPS

(***************************************************************************)
(* The types, what Run holds when it is not at the start of its loop, and   *)
(* outMutex.                                                                *)
(***************************************************************************)
Answering == {"lock", "first", "second"}
Writing   == {"first", "second"}

RunHolds == \A e \in End : rpc[e] \in Answering \cup {"more"} => packet[e] \in Packet

MutexHeld ==
    /\ \A k \in Call : cpc[k] \in Writing => outMutex[From[k]] = k
    /\ \A e \in End : rpc[e] \in Writing => outMutex[e] = e

TypeInv == TypeOK /\ RunHolds /\ MutexHeld

(***************************************************************************)
(* The table.  A call is live from the moment it has an ID until it has     *)
(* returned an answer or an error; a call that was cancelled stays live,    *)
(* as its entry stays.                                                      *)
(***************************************************************************)
Live(k) == cpc[k] \notin {"new", "done", "failed"}

LiveIdsDiffer ==
    ~reused => \A j, k \in Call :
        Live(j) /\ Live(k) /\ From[j] = From[k] /\ id[j] = id[k] => j = k

EntryPlace ==
    \A e \in End, i \in Id :
        LET k == activeOutRequests[e][i]
        IN  k # None => From[k] = e /\ id[k] = i

EntryKept ==
    ~reused => \A k \in Call :
        Live(k) /\ cpc[k] # "insert" /\ result[k] = None =>
            activeOutRequests[From[k]][id[k]] = k

EntryNeeded ==
    \A e \in End, i \in Id :
        LET k == activeOutRequests[e][i]
        IN  k # None => cpc[k] \notin {"new", "insert", "done", "failed"} /\ result[k] = None

ResultLate == \A k \in Call : cpc[k] \in {"new", "insert"} => result[k] = None

EntryInv == LiveIdsDiffer /\ EntryPlace /\ EntryKept /\ EntryNeeded /\ ResultLate

(***************************************************************************)
(* The stream of e, as long as e has left no message half written: first    *)
(* and second parts take turns, it begins with the second part of the       *)
(* message that is being read, and it ends with the first part of the       *)
(* message that is being written.                                           *)
(***************************************************************************)
HalfWritten(e, p) ==
    \/ \E k \in Call : From[k] = e /\ cpc[k] = "second" /\ p = Request(k)
    \/ rpc[e] = "second" /\ p = packet[e]

PartsTakeTurns(e) ==
    \A i \in 1 .. Len(wire[e]) - 1 :
        /\ wire[e][i].first => /\ ~wire[e][i + 1].first
                               /\ wire[e][i + 1].packet = wire[e][i].packet
        /\ ~wire[e][i].first => wire[e][i + 1].first

BeginsWithRest(e) ==
    wire[e] # <<>> =>
        /\ rpc[Peer(e)] = "more" => /\ ~wire[e][1].first
                                    /\ wire[e][1].packet = packet[Peer(e)]
        /\ ~wire[e][1].first => rpc[Peer(e)] \in {"more", "stopped"}

EndsWithHalf(e) ==
    ~Broken(e) /\ wire[e] # <<>> =>
        LET last == wire[e][Len(wire[e])]
        IN  /\ last.first => HalfWritten(e, last.packet)
            /\ \A p \in Packet : HalfWritten(e, p) => last.first /\ last.packet = p

EmptyBetween(e) ==
    ~Broken(e) /\ wire[e] = <<>> =>
        /\ rpc[Peer(e)] = "more" => HalfWritten(e, packet[Peer(e)])
        /\ \A p \in Packet : HalfWritten(e, p) =>
               rpc[Peer(e)] = "more" /\ packet[Peer(e)] = p

Shape(e) ==
    ~torn[e] => PartsTakeTurns(e) /\ BeginsWithRest(e) /\ EndsWithHalf(e) /\ EmptyBetween(e)

ShapeInv == \A e \in End : Shape(e)

(***************************************************************************)
(* The messages under way, as long as none was left half written: each      *)
(* belongs to a call that has no answer yet, goes the right way under the   *)
(* right ID, and is the only one of its call.  A message is under way from  *)
(* its first part on: in the stream, or in the hands of Run until its own   *)
(* first part of the answer is written.                                     *)
(***************************************************************************)
GoesWell(e, p) ==
    /\ p.call \in Call
    /\ cpc[p.call] # "new" /\ p.id = id[p.call]
    /\ p.type = "req" => From[p.call] = e
    /\ p.type = "res" => From[p.call] = Peer(e)

PartsGoWell == \A e \in End : \A i \in 1 .. Len(wire[e]) : GoesWell(e, wire[e][i].packet)

RunGoesWell ==
    \A e \in End : /\ rpc[e] = "more" => GoesWell(Peer(e), packet[e])
                   /\ rpc[e] \in Answering => /\ packet[e].type = "res"
                                              /\ GoesWell(e, packet[e])

InStream(e, i, k) == wire[e][i].first /\ wire[e][i].packet.call = k
InHand(e, k)      == rpc[e] \in {"more", "lock", "first"} /\ packet[e].call = k

OnePlace ==
    \A k \in Call :
        /\ \A e, f \in End : \A i \in 1 .. Len(wire[e]), j \in 1 .. Len(wire[f]) :
               InStream(e, i, k) /\ InStream(f, j, k) => e = f /\ i = j
        /\ \A e, f \in End : \A i \in 1 .. Len(wire[e]) :
               ~(InStream(e, i, k) /\ InHand(f, k))
        /\ \A e, f \in End : InHand(e, k) /\ InHand(f, k) => e = f

Awaited(k) == cpc[k] \in {"second", "wait", "cancelled"} /\ result[k] = None

UnderWay ==
    \A k \in Call, e \in End :
        /\ \A i \in 1 .. Len(wire[e]) : InStream(e, i, k) => Awaited(k)
        /\ InHand(e, k) => Awaited(k)

NotTooEarly == \A k \in Call : cpc[k] \in {"lock", "first"} => result[k] = None

FlightInv == ~Torn => PartsGoWell /\ RunGoesWell
AnswerInv == ~Torn /\ ~reused => OnePlace /\ UnderWay /\ NotTooEarly /\ ResultMatches

-----------------------------------------------------------------------------
(***************************************************************************)
(* Facts about the operators.                                               *)
(***************************************************************************)

(* There are two ends, and Peer gives the other one.                         *)
LEMMA PeerIsOther ==
    ASSUME NEW e \in End
    PROVE  /\ Peer(e) \in End /\ Peer(e) # e
           /\ Peer(Peer(e)) = e
           /\ \A f \in End : f = e \/ f = Peer(e)
<1>1. PICK f \in End : End = {e, f} /\ e # f
  BY EndAssumption
<1>2. Peer(e) = f
  BY <1>1 DEF Peer
<1>3. Peer(f) = e
  BY <1>1 DEF Peer
<1> QED  BY <1>1, <1>2, <1>3

Part == [first : BOOLEAN, packet : Packet]

(* Writing a part, and reading one, seen from the positions of the stream.   *)
LEMMA AppendFacts ==
    ASSUME NEW S, NEW s \in Seq(S), NEW x \in S
    PROVE  /\ Append(s, x) \in Seq(S)
           /\ Append(s, x) # <<>>
           /\ Len(Append(s, x)) = Len(s) + 1
           /\ \A i \in 1 .. Len(s) : Append(s, x)[i] = s[i]
           /\ Append(s, x)[Len(s) + 1] = x
OBVIOUS

LEMMA TailFacts ==
    ASSUME NEW S, NEW s \in Seq(S), s # <<>>
    PROVE  /\ Tail(s) \in Seq(S)
           /\ Len(s) >= 1
           /\ Len(Tail(s)) = Len(s) - 1
           /\ Tail(s) = <<>> <=> Len(s) = 1
           /\ \A i \in 1 .. Len(s) - 1 : Tail(s)[i] = s[i + 1]
           /\ Head(s) = s[1]
           /\ s[1] \in S
<1>1. Len(s) \in Nat /\ Len(s) # 0
  OBVIOUS
<1>2. Tail(s) \in Seq(S) /\ Len(Tail(s)) = Len(s) - 1
  BY <1>1
<1>3. ASSUME NEW t \in Seq(S) PROVE t = <<>> <=> Len(t) = 0
  OBVIOUS
<1>4. \A i \in 1 .. Len(s) - 1 : Tail(s)[i] = s[i + 1]
  BY <1>1
<1> QED  BY <1>1, <1>2, <1>3, <1>4

(* Put appends one part to the stream of e and leaves the other alone.       *)
LEMMA PutFacts ==
    ASSUME TypeOK, NEW e \in End, NEW first \in BOOLEAN, NEW p \in Packet, Put(e, first, p)
    PROVE  /\ wire' \in [End -> Seq(Part)]
           /\ wire'[e] # <<>>
           /\ Len(wire'[e]) = Len(wire[e]) + 1
           /\ Len(wire[e]) \in Nat
           /\ \A i \in 1 .. Len(wire[e]) : wire'[e][i] = wire[e][i]
           /\ wire'[e][Len(wire[e]) + 1] = [first |-> first, packet |-> p]
           /\ \A f \in End : f # e => wire'[f] = wire[f]
           /\ ~Broken(e)
<1>1. wire \in [End -> Seq(Part)]
  BY DEF TypeOK, Part
<1>2. [first |-> first, packet |-> p] \in Part
  BY DEF Part
<1>3. wire[e] \in Seq(Part) /\ Len(wire[e]) \in Nat
  BY <1>1
<1>4. wire' = [wire EXCEPT ![e] = Append(wire[e], [first |-> first, packet |-> p])]
  BY DEF Put
<1> QED  BY <1>1, <1>2, <1>3, <1>4, AppendFacts DEF Put

(* Take removes the first part of what arrives at e.                         *)
LEMMA TakeFacts ==
    ASSUME TypeOK, NEW e \in End, Arrived(e) # <<>>, Take(e)
    PROVE  /\ wire' \in [End -> Seq(Part)]
           /\ Len(wire[Peer(e)]) \in Nat /\ Len(wire[Peer(e)]) >= 1
           /\ Len(wire'[Peer(e)]) = Len(wire[Peer(e)]) - 1
           /\ wire'[Peer(e)] = <<>> <=> Len(wire[Peer(e)]) = 1
           /\ wire[Peer(e)] # <<>>
           /\ \A i \in 1 .. Len(wire[Peer(e)]) - 1 :
                  wire'[Peer(e)][i] = wire[Peer(e)][i + 1]
           /\ Head(Arrived(e)) = wire[Peer(e)][1]
           /\ Head(Arrived(e)) \in Part
           /\ wire'[e] = wire[e]
<1>1. wire \in [End -> Seq(Part)]
  BY DEF TypeOK, Part
<1>2. Peer(e) \in End /\ Peer(e) # e
  BY PeerIsOther
<1>3. wire[Peer(e)] \in Seq(Part) /\ Len(wire[Peer(e)]) \in Nat /\ wire[Peer(e)] # <<>>
  BY <1>1, <1>2 DEF Arrived
<1>4. wire' = [wire EXCEPT ![Peer(e)] = Tail(wire[Peer(e)])]
  BY DEF Take
<1> QED  BY <1>1, <1>2, <1>3, <1>4, TailFacts DEF Arrived

-----------------------------------------------------------------------------
(***************************************************************************)
(* Types and the lock.                                                      *)
(***************************************************************************)

(* The steps of a call, and those of Run and of the owner of an end.         *)
CallStep(k) == NewId(k) \/ sendRequest(k) \/ Cancel(k)
EndStep(e)  == Run(e) \/ Close(e)

LEMMA InitType == Init => TypeInv
<1> SUFFICES ASSUME Init PROVE TypeInv
  OBVIOUS
<1>1. 0 \in Id /\ IdMod \in Nat \ {0}
  BY BoundAssumption DEF Id
<1>2. wire \in [End -> Seq([first : BOOLEAN, packet : Packet])]
  BY DEF Init
<1>3. activeOutRequests \in [End -> [Id -> Call \cup {None}]]
  BY DEF Init
<1>4. packet \in [End -> Packet \cup {NoPacket}]
  BY DEF Init
<1>5. /\ outMutex \in [End -> Call \cup End \cup {None}]
      /\ lastOutRequestsIndex \in [End -> Id]
      /\ id \in [Call -> Id]
      /\ result \in [Call -> Call \cup {"garbled", None}]
      /\ closed \in [End -> BOOLEAN] /\ torn \in [End -> BOOLEAN]
  BY <1>1 DEF Init
<1>6. TypeOK
  BY <1>2, <1>3, <1>4, <1>5 DEF Init, TypeOK
<1> QED  BY <1>6 DEF Init, TypeInv, RunHolds, MutexHeld, Answering, Writing

LEMMA RequestType ==
    ASSUME TypeOK, NEW k \in Call
    PROVE  Request(k) \in Packet
BY DEF TypeOK, Request, Packet

(* Setting one entry of a table of tables.                                   *)
LEMMA PutEntryType ==
    ASSUME NEW S, NEW I, NEW V, NEW t \in [S -> [I -> V]], NEW e \in S, NEW i \in I, NEW v \in V
    PROVE  /\ [t EXCEPT ![e][i] = v] \in [S -> [I -> V]]
           /\ [t EXCEPT ![e][i] = v][e][i] = v
           /\ \A f \in S, j \in I : f # e \/ j # i => [t EXCEPT ![e][i] = v][f][j] = t[f][j]
<1>1. t[e] \in [I -> V]
  OBVIOUS
<1>2. [t[e] EXCEPT ![i] = v] \in [I -> V]
  BY <1>1
<1> QED  BY <1>1, <1>2

LEMMA CallType ==
    ASSUME TypeInv, NEW k \in Call, CallStep(k), UNCHANGED plan
    PROVE  TypeInv'
<1> USE CallAssumption DEF streamVars, tableVars, callVars, runVars
<1>0. TypeOK /\ RunHolds /\ MutexHeld /\ From[k] \in End
  BY DEF TypeInv
<1>1. CASE NewId(k)
  <2>1. (lastOutRequestsIndex[From[k]] + 1) % IdMod \in Id
    BY <1>0, BoundAssumption DEF TypeOK, Id
  <2>2. TypeOK'
    BY <1>0, <1>1, <2>1 DEF NewId, GotoCall, TypeOK
  <2>3. RunHolds' /\ MutexHeld'
    BY <1>0, <1>1 DEF NewId, GotoCall, TypeOK, RunHolds, MutexHeld, Writing
  <2> QED  BY <2>2, <2>3 DEF TypeInv
<1>2. CASE InsertEntry(k) \/ DeleteEntry(k)
  <2>0. PICK v \in Call \cup {None} :
            activeOutRequests' = [activeOutRequests EXCEPT ![From[k]][id[k]] = v]
    BY <1>2 DEF InsertEntry, DeleteEntry
  <2>1. TypeOK'
    <3>1. activeOutRequests' \in [End -> [Id -> Call \cup {None}]]
      BY <1>0, <2>0, PutEntryType DEF TypeOK
    <3>2. CASE InsertEntry(k)
      BY <1>0, <3>1, <3>2 DEF InsertEntry, GotoCall, TypeOK
    <3>3. CASE DeleteEntry(k)
      BY <1>0, <3>1, <3>3 DEF DeleteEntry, GotoCall, TypeOK
    <3> QED  BY <1>2, <3>2, <3>3
  <2>2. RunHolds' /\ MutexHeld'
    BY <1>0, <1>2 DEF InsertEntry, DeleteEntry, GotoCall, TypeOK, RunHolds, MutexHeld, Writing
  <2> QED  BY <2>1, <2>2 DEF TypeInv
<1>3. CASE LockRequest(k)
  <2>1. TypeOK'
    BY <1>0, <1>3 DEF LockRequest, Lock, GotoCall, TypeOK
  <2>2. RunHolds' /\ MutexHeld'
    BY <1>0, <1>3 DEF LockRequest, Lock, GotoCall, TypeOK, RunHolds, MutexHeld, Writing
  <2> QED  BY <2>1, <2>2 DEF TypeInv
<1>4. CASE WriteFirst(k)
  <2>1. wire' \in [End -> Seq(Part)]
    BY <1>0, <1>4, PutFacts, RequestType DEF WriteFirst
  <2>2. TypeOK'
    BY <1>0, <1>4, <2>1 DEF WriteFirst, GotoCall, TypeOK, Part
  <2>3. RunHolds' /\ MutexHeld'
    BY <1>0, <1>4 DEF WriteFirst, GotoCall, TypeOK, RunHolds, MutexHeld, Writing
  <2> QED  BY <2>2, <2>3 DEF TypeInv
<1>5. CASE WriteSecond(k)
  <2>1. wire' \in [End -> Seq(Part)]
    BY <1>0, <1>5, PutFacts, RequestType DEF WriteSecond
  <2>2. TypeOK'
    BY <1>0, <1>5, <2>1 DEF WriteSecond, Unlock, GotoCall, TypeOK, Part
  <2>3. RunHolds' /\ MutexHeld'
    BY <1>0, <1>5 DEF WriteSecond, Unlock, GotoCall, TypeOK, RunHolds, MutexHeld, Writing
  <2> QED  BY <2>2, <2>3 DEF TypeInv
<1>6. CASE SendFails(k)
  <2>1. cpc[k] \in Writing
    BY <1>6 DEF SendFails, Writing
  <2>2. TypeOK'
    BY <1>0, <1>6 DEF SendFails, Unlock, GotoCall, TypeOK
  <2>3. RunHolds' /\ MutexHeld'
    BY <1>0, <1>6, <2>1 DEF SendFails, Unlock, GotoCall, TypeOK, RunHolds, MutexHeld, Writing
  <2> QED  BY <2>2, <2>3 DEF TypeInv
<1>7. CASE Returns(k) \/ Cancel(k)
  <2>1. TypeOK'
    <3>1. CASE Returns(k)
      BY <1>0, <3>1 DEF Returns, GotoCall, TypeOK
    <3>2. CASE Cancel(k)
      BY <1>0, <3>2 DEF Cancel, GotoCall, TypeOK
    <3> QED  BY <1>7, <3>1, <3>2
  <2>2. RunHolds' /\ MutexHeld'
    BY <1>0, <1>7 DEF Returns, Cancel, GotoCall, TypeOK, RunHolds, MutexHeld, Writing
  <2> QED  BY <2>1, <2>2 DEF TypeInv
<1> QED
  BY <1>1, <1>2, <1>3, <1>4, <1>5, <1>6, <1>7 DEF CallStep, sendRequest

LEMMA EndType ==
    ASSUME TypeInv, NEW e \in End, EndStep(e), UNCHANGED plan
    PROVE  TypeInv'
<1> USE CallAssumption DEF streamVars, tableVars, callVars, runVars
<1>0. TypeOK /\ RunHolds /\ MutexHeld /\ Peer(e) \in End
  BY PeerIsOther DEF TypeInv
<1>1. CASE ReadFirst(e) \/ ReadInstead(e) \/ ReadRequest(e) \/ ReadResponse(e)
  <2>1. wire' \in [End -> Seq(Part)] /\ Head(Arrived(e)) \in Part
    BY <1>0, <1>1, TakeFacts DEF ReadFirst, ReadInstead, ReadRequest, ReadResponse
  <2>2. packet' \in [End -> Packet \cup {NoPacket}]
    <3>1. CASE ReadFirst(e)
      BY <1>0, <2>1, <3>1 DEF ReadFirst, TypeOK, Part
    <3>2. CASE ReadInstead(e)
      <4>1. packet[e] \in Packet
        BY <1>0, <3>2 DEF ReadInstead, RunHolds
      <4>2. [packet[e] EXCEPT !.call = "garbled"] \in Packet
        BY <4>1 DEF Packet
      <4> QED  BY <1>0, <3>2, <4>2 DEF ReadInstead, TypeOK
    <3>3. CASE ReadRequest(e)
      <4>1. packet[e] \in Packet
        BY <1>0, <3>3 DEF ReadRequest, RunHolds
      <4>2. [packet[e] EXCEPT !.type = "res"] \in Packet
        BY <4>1 DEF Packet
      <4> QED  BY <1>0, <3>3, <4>2 DEF ReadRequest, TypeOK
    <3>4. CASE ReadResponse(e)
      BY <1>0, <3>4 DEF ReadResponse, TypeOK
    <3> QED  BY <1>1, <3>1, <3>2, <3>3, <3>4
  <2>3. activeOutRequests' \in [End -> [Id -> Call \cup {None}]]
        /\ result' \in [Call -> Call \cup {"garbled", None}]
    <3>1. CASE ReadResponse(e)
      <4>1. packet[e] \in Packet
        BY <1>0, <3>1 DEF ReadResponse, RunHolds
      <4>2. packet[e].id \in Id /\ packet[e].call \in Call \cup {"garbled"}
        BY <4>1 DEF Packet
      <4>3. CASE activeOutRequests[e][packet[e].id] = None
        BY <1>0, <3>1, <4>3 DEF ReadResponse, TypeOK
      <4>4. CASE activeOutRequests[e][packet[e].id] # None
        <5> DEFINE k == activeOutRequests[e][packet[e].id]
        <5>0. /\ activeOutRequests' = [activeOutRequests EXCEPT ![e][packet[e].id] = None]
              /\ result' = [result EXCEPT ![k] = packet[e].call]
          BY <3>1, <4>4 DEF ReadResponse
        <5>1. activeOutRequests' \in [End -> [Id -> Call \cup {None}]]
          BY <1>0, <4>2, <5>0, PutEntryType DEF TypeOK
        <5>2. k \in Call
          BY <1>0, <4>2, <4>4 DEF TypeOK
        <5>3. result' \in [Call -> Call \cup {"garbled", None}]
          BY <1>0, <4>2, <5>0, <5>2 DEF TypeOK
        <5> QED  BY <5>1, <5>3
      <4> QED  BY <4>3, <4>4
    <3>2. CASE ReadFirst(e) \/ ReadInstead(e) \/ ReadRequest(e)
      BY <1>0, <3>2 DEF ReadFirst, ReadInstead, ReadRequest, TypeOK
    <3> QED  BY <1>1, <3>1, <3>2
  <2>4. /\ rpc' \in [End -> {"read", "more", "lock", "first", "second", "stopped"}]
        /\ UNCHANGED <<outMutex, lastOutRequestsIndex, closed, cpc, id, torn, reused>>
    <3>1. CASE ReadFirst(e)
      BY <1>0, <3>1 DEF ReadFirst, GotoRun, TypeOK
    <3>2. CASE ReadInstead(e)
      BY <1>0, <3>2 DEF ReadInstead, TypeOK
    <3>3. CASE ReadRequest(e)
      BY <1>0, <3>3 DEF ReadRequest, GotoRun, TypeOK
    <3>4. CASE ReadResponse(e)
      BY <1>0, <3>4 DEF ReadResponse, GotoRun, TypeOK
    <3> QED  BY <1>1, <3>1, <3>2, <3>3, <3>4
  <2>5. TypeOK'
    BY <1>0, <2>1, <2>2, <2>3, <2>4 DEF TypeOK, Part
  <2>6. /\ \A f \in End : f # e => rpc'[f] = rpc[f] /\ packet'[f] = packet[f]
        /\ rpc'[e] \in {"read", "more", "lock"}
        /\ rpc'[e] \in {"more", "lock"} => packet'[e] \in Packet
    <3>1. CASE ReadFirst(e)
      BY <1>0, <2>1, <3>1 DEF ReadFirst, GotoRun, TypeOK, Part
    <3>2. CASE ReadInstead(e) \/ ReadRequest(e)
      <4>1. packet[e] \in Packet
        BY <1>0, <3>2 DEF ReadInstead, ReadRequest, RunHolds
      <4>2. /\ [packet[e] EXCEPT !.call = "garbled"] \in Packet
            /\ [packet[e] EXCEPT !.type = "res"] \in Packet
        BY <4>1 DEF Packet
      <4>3. CASE ReadInstead(e)
        BY <1>0, <4>2, <4>3 DEF ReadInstead, TypeOK
      <4>4. CASE ReadRequest(e)
        BY <1>0, <4>2, <4>4 DEF ReadRequest, GotoRun, TypeOK
      <4> QED  BY <3>2, <4>3, <4>4
    <3>3. CASE ReadResponse(e)
      BY <1>0, <3>3 DEF ReadResponse, GotoRun, TypeOK
    <3> QED  BY <1>1, <3>1, <3>2, <3>3
  <2>7. RunHolds' /\ MutexHeld'
    BY <1>0, <2>4, <2>6 DEF RunHolds, MutexHeld, Answering, Writing
  <2> QED  BY <2>5, <2>7 DEF TypeInv
<1>2. CASE LockAnswer(e)
  <2>1. TypeOK'
    BY <1>0, <1>2 DEF LockAnswer, Lock, GotoRun, TypeOK
  <2>2. RunHolds' /\ MutexHeld'
    BY <1>0, <1>2 DEF LockAnswer, Lock, GotoRun, TypeOK, RunHolds, MutexHeld, Answering, Writing
  <2> QED  BY <2>1, <2>2 DEF TypeInv
<1>3. CASE AnswerFirst(e)
  <2>1. packet[e] \in Packet
    BY <1>0, <1>3 DEF AnswerFirst, RunHolds, Answering
  <2>2. wire' \in [End -> Seq(Part)]
    BY <1>0, <1>3, <2>1, PutFacts DEF AnswerFirst
  <2>3. TypeOK'
    BY <1>0, <1>3, <2>2 DEF AnswerFirst, GotoRun, TypeOK, Part
  <2>4. RunHolds' /\ MutexHeld'
    BY <1>0, <1>3 DEF AnswerFirst, GotoRun, TypeOK, RunHolds, MutexHeld, Answering, Writing
  <2> QED  BY <2>3, <2>4 DEF TypeInv
<1>4. CASE AnswerSecond(e)
  <2>1. packet[e] \in Packet
    BY <1>0, <1>4 DEF AnswerSecond, RunHolds, Answering
  <2>2. wire' \in [End -> Seq(Part)]
    BY <1>0, <1>4, <2>1, PutFacts DEF AnswerSecond
  <2>3. TypeOK'
    BY <1>0, <1>4, <2>2 DEF AnswerSecond, Unlock, GotoRun, TypeOK, Part
  <2>4. RunHolds' /\ MutexHeld'
    BY <1>0, <1>4 DEF AnswerSecond, Unlock, GotoRun, TypeOK, RunHolds, MutexHeld, Answering, Writing
  <2> QED  BY <2>3, <2>4 DEF TypeInv
<1>5. CASE AnswerFails(e)
  <2>1. TypeOK'
    BY <1>0, <1>5 DEF AnswerFails, Unlock, GotoRun, TypeOK
  <2>2. RunHolds' /\ MutexHeld'
    BY <1>0, <1>5 DEF AnswerFails, Unlock, GotoRun, TypeOK, RunHolds, MutexHeld, Answering, Writing
  <2> QED  BY <2>1, <2>2 DEF TypeInv
<1>6. CASE Stop(e) \/ Close(e)
  <2>1. TypeOK'
    <3>1. CASE Stop(e)
      BY <1>0, <3>1 DEF Stop, GotoRun, TypeOK
    <3>2. CASE Close(e)
      BY <1>0, <3>2 DEF Close, TypeOK
    <3> QED  BY <1>6, <3>1, <3>2
  <2>2. RunHolds' /\ MutexHeld'
    BY <1>0, <1>6 DEF Stop, Close, GotoRun, TypeOK, RunHolds, MutexHeld, Answering, Writing
  <2> QED  BY <2>1, <2>2 DEF TypeInv
<1> QED
  BY <1>1, <1>2, <1>3, <1>4, <1>5, <1>6 DEF EndStep, Run

LEMMA StepType == TypeInv /\ [Next]_vars => TypeInv'
<1> SUFFICES ASSUME TypeInv, [Next]_vars PROVE TypeInv'
  OBVIOUS
<1>1. CASE \E k \in Call : CallStep(k) /\ UNCHANGED plan
  BY <1>1, CallType
<1>2. CASE \E e \in End : EndStep(e) /\ UNCHANGED plan
  BY <1>2, EndType
<1>3. CASE UNCHANGED vars
  BY <1>3 DEF vars, streamVars, tableVars, callVars, runVars, TypeInv, TypeOK, RunHolds,
              MutexHeld
<1> QED  BY <1>1, <1>2, <1>3 DEF Next, CallStep, EndStep

(* The state of both ends keeps its type, in particular what Run holds while *)
(* it answers is a packet, and outMutex has one holder at a time             *)
(* (connection.go:429-460).                                                  *)
THEOREM EndpointTypeCorrect == Spec => [](TypeOK /\ MutexHeld)
<1>1. TypeInv => TypeOK /\ MutexHeld
  BY DEF TypeInv
<1> QED  BY <1>1, InitType, StepType, PTL DEF Spec

-----------------------------------------------------------------------------
(***************************************************************************)
(* The table of waiting calls.                                              *)
(***************************************************************************)
LEMMA InitEntry == ASSUME Init PROVE EntryInv
<1> USE CallAssumption
<1>1. \A e \in End, i \in Id : activeOutRequests[e][i] = None
  BY DEF Init
<1>2. \A k \in Call : ~Live(k) /\ cpc[k] = "new" /\ result[k] = None
  BY DEF Init, Live
<1> QED
  BY <1>1, <1>2 DEF EntryInv, LiveIdsDiffer, EntryPlace, EntryKept, EntryNeeded, ResultLate

(* Giving out an ID: it is marked as reused if a live call has it.           *)
LEMMA NewIdEntry ==
    ASSUME TypeOK, EntryInv, NEW k \in Call, NewId(k)
    PROVE  EntryInv'
<1> DEFINE e == From[k]
<1> DEFINE n == (lastOutRequestsIndex[e] + 1) % IdMod
<1> USE CallAssumption DEF TypeOK
<1>1. /\ cpc[k] = "new" /\ cpc' = [cpc EXCEPT ![k] = "insert"]
      /\ id' = [id EXCEPT ![k] = n]
      /\ reused' = (reused \/ \E j \in Call \ {k} : From[j] = e /\ id[j] = n /\ Live(j))
      /\ UNCHANGED <<activeOutRequests, result>>
  BY DEF NewId, GotoCall, Live
<1>2. /\ cpc'[k] = "insert" /\ id'[k] = n
      /\ \A j \in Call : j # k => cpc'[j] = cpc[j] /\ id'[j] = id[j]
  BY <1>1
<1>3. ~reused' => ~reused /\ \A j \in Call : j # k => ~(From[j] = e /\ id[j] = n /\ Live(j))
  BY <1>1
<1> HIDE DEF n
<1>4. LiveIdsDiffer'
  <2> SUFFICES ASSUME ~reused', NEW a \in Call, NEW b \in Call, Live(a)', Live(b)',
                      From[a] = From[b], id'[a] = id'[b]
               PROVE  a = b
    BY Zenon DEF LiveIdsDiffer
  <2>1. \A j \in Call : j # k => (Live(j)' <=> Live(j)) /\ id'[j] = id[j]
    BY <1>2 DEF Live
  <2>2. CASE a # k /\ b # k
    <3>1. Live(a) /\ Live(b) /\ id[a] = id[b] /\ ~reused
      BY <1>3, <2>1, <2>2
    <3> QED  BY <3>1 DEF EntryInv, LiveIdsDiffer
  <2>3. CASE a = k /\ b # k
    BY <1>2, <1>3, <2>1, <2>3
  <2>4. CASE a # k /\ b = k
    BY <1>2, <1>3, <2>1, <2>4
  <2> QED  BY <2>2, <2>3, <2>4
<1>5. \A f \in End, i \in Id : activeOutRequests[f][i] # None =>
          activeOutRequests[f][i] \in Call /\ activeOutRequests[f][i] # k
  BY <1>1 DEF EntryInv, EntryNeeded
<1>6. EntryPlace' /\ EntryNeeded'
  BY <1>1, <1>2, <1>5 DEF EntryInv, EntryPlace, EntryNeeded
<1>7. EntryKept'
  BY <1>1, <1>2, <1>3 DEF EntryInv, EntryKept, Live
<1>8. ResultLate'
  BY <1>1, <1>2 DEF EntryInv, ResultLate
<1> QED  BY <1>4, <1>6, <1>7, <1>8 DEF EntryInv

LEMMA InsertEntryEntry ==
    ASSUME TypeOK, EntryInv, NEW k \in Call, InsertEntry(k)
    PROVE  EntryInv'
<1> USE CallAssumption DEF TypeOK
<1>1. /\ cpc[k] = "insert" /\ cpc' = [cpc EXCEPT ![k] = "lock"]
      /\ activeOutRequests' = [activeOutRequests EXCEPT ![From[k]][id[k]] = k]
      /\ UNCHANGED <<id, result, reused>>
  BY DEF InsertEntry, GotoCall
<1>2. /\ cpc'[k] = "lock"
      /\ \A j \in Call : j # k => cpc'[j] = cpc[j]
  BY <1>1
<1>3. /\ activeOutRequests'[From[k]][id[k]] = k
      /\ \A f \in End, i \in Id : f # From[k] \/ i # id[k] =>
             activeOutRequests'[f][i] = activeOutRequests[f][i]
  BY <1>1, PutEntryType
<1>4. LiveIdsDiffer'
  BY <1>1, <1>2 DEF EntryInv, LiveIdsDiffer, Live
<1>5. EntryPlace' /\ EntryNeeded'
  BY <1>1, <1>2, <1>3 DEF EntryInv, EntryPlace, EntryNeeded, ResultLate
<1>6. EntryKept'
  <2> SUFFICES ASSUME ~reused', NEW j \in Call, j # k, Live(j)', cpc'[j] # "insert",
                      result'[j] = None
               PROVE  activeOutRequests'[From[j]][id'[j]] = j
    BY <1>1, <1>2, <1>3 DEF EntryKept, Live
  <2>1. ~reused /\ Live(j) /\ Live(k) /\ cpc[j] # "insert" /\ result[j] = None
    BY <1>1, <1>2 DEF Live
  <2>2. From[j] # From[k] \/ id[j] # id[k]
    BY <2>1 DEF EntryInv, LiveIdsDiffer
  <2>3. activeOutRequests[From[j]][id[j]] = j /\ From[j] \in End /\ id[j] \in Id
    BY <2>1 DEF EntryInv, EntryKept
  <2> QED  BY <1>1, <1>3, <2>2, <2>3
<1>7. ResultLate'
  BY <1>1, <1>2 DEF EntryInv, ResultLate
<1> QED  BY <1>4, <1>5, <1>6, <1>7 DEF EntryInv

LEMMA DeleteEntryEntry ==
    ASSUME TypeOK, EntryInv, NEW k \in Call, DeleteEntry(k)
    PROVE  EntryInv'
<1> USE CallAssumption DEF TypeOK
<1>1. /\ cpc[k] = "undo" /\ cpc' = [cpc EXCEPT ![k] = "failed"]
      /\ activeOutRequests' = [activeOutRequests EXCEPT ![From[k]][id[k]] = None]
      /\ UNCHANGED <<id, result, reused>>
  BY DEF DeleteEntry, GotoCall
<1>2. /\ cpc'[k] = "failed"
      /\ \A j \in Call : j # k => cpc'[j] = cpc[j]
  BY <1>1
<1>3. /\ activeOutRequests'[From[k]][id[k]] = None
      /\ \A f \in End, i \in Id : f # From[k] \/ i # id[k] =>
             activeOutRequests'[f][i] = activeOutRequests[f][i]
  BY <1>1, PutEntryType
<1>4. LiveIdsDiffer'
  BY <1>1, <1>2 DEF EntryInv, LiveIdsDiffer, Live
<1>5. EntryPlace' /\ EntryNeeded'
  BY <1>1, <1>2, <1>3 DEF EntryInv, EntryPlace, EntryNeeded
<1>6. EntryKept'
  <2> SUFFICES ASSUME ~reused', NEW j \in Call, j # k, Live(j)', cpc'[j] # "insert",
                      result'[j] = None
               PROVE  activeOutRequests'[From[j]][id'[j]] = j
    BY <1>1, <1>2, <1>3 DEF EntryKept, Live
  <2>1. ~reused /\ Live(j) /\ Live(k) /\ cpc[j] # "insert" /\ result[j] = None
    BY <1>1, <1>2 DEF Live
  <2>2. From[j] # From[k] \/ id[j] # id[k]
    BY <2>1 DEF EntryInv, LiveIdsDiffer
  <2>3. activeOutRequests[From[j]][id[j]] = j /\ From[j] \in End /\ id[j] \in Id
    BY <2>1 DEF EntryInv, EntryKept
  <2> QED  BY <1>1, <1>3, <2>2, <2>3
<1>7. ResultLate'
  BY <1>1, <1>2 DEF EntryInv, ResultLate
<1> QED  BY <1>4, <1>5, <1>6, <1>7 DEF EntryInv

(* The steps of a call that leave the table alone.                           *)
LEMMA GoOnEntry ==
    ASSUME TypeOK, EntryInv, NEW k \in Call,
           \/ LockRequest(k) \/ WriteFirst(k) \/ WriteSecond(k) \/ SendFails(k)
           \/ Returns(k) \/ Cancel(k)
    PROVE  EntryInv'
<1> USE CallAssumption DEF TypeOK, tableVars
<1>1. PICK step \in {"first", "second", "wait", "undo", "done", "cancelled"} :
          /\ cpc[k] \notin {"new", "insert", "done", "failed"}
          /\ step = "done" => result[k] # None
          /\ cpc' = [cpc EXCEPT ![k] = step]
          /\ UNCHANGED <<activeOutRequests, id, result, reused>>
  BY DEF LockRequest, WriteFirst, WriteSecond, SendFails, Returns, Cancel, GotoCall
<1>2. /\ cpc'[k] = step
      /\ \A j \in Call : j # k => cpc'[j] = cpc[j]
  BY <1>1
<1>3. LiveIdsDiffer' /\ EntryKept' /\ ResultLate'
  BY <1>1, <1>2 DEF EntryInv, LiveIdsDiffer, EntryKept, ResultLate, Live
<1>4. EntryPlace' /\ EntryNeeded'
  BY <1>1, <1>2 DEF EntryInv, EntryPlace, EntryNeeded
<1> QED  BY <1>3, <1>4 DEF EntryInv

(* The answer takes the entry away and is given to its call, in one step.    *)
LEMMA ReadResponseEntry ==
    ASSUME TypeInv, EntryInv, NEW e \in End, ReadResponse(e)
    PROVE  EntryInv'
<1> DEFINE i == packet[e].id
<1> DEFINE q == activeOutRequests[e][i]
<1> USE CallAssumption DEF TypeOK
<1>0. TypeOK /\ packet[e] \in Packet
  BY DEF ReadResponse, TypeInv, RunHolds
<1>1. i \in Id /\ packet[e].call \in Call \cup {"garbled"} /\ q \in Call \cup {None}
  BY <1>0 DEF Packet
<1>2. UNCHANGED <<cpc, id, reused>>
  BY DEF ReadResponse
<1>3. CASE q = None
  <2>1. UNCHANGED <<activeOutRequests, result>>
    BY <1>3 DEF ReadResponse
  <2> QED
    BY <1>2, <2>1 DEF EntryInv, LiveIdsDiffer, EntryPlace, EntryKept, EntryNeeded, ResultLate,
                      Live
<1>4. CASE q # None
  <2>1. /\ activeOutRequests' = [activeOutRequests EXCEPT ![e][i] = None]
        /\ result' = [result EXCEPT ![q] = packet[e].call]
    BY <1>4 DEF ReadResponse
  <2>2. q \in Call /\ packet[e].call # None
    BY <1>1, <1>4
  <2>3. /\ activeOutRequests'[e][i] = None
        /\ \A f \in End, j \in Id : f # e \/ j # i =>
               activeOutRequests'[f][j] = activeOutRequests[f][j]
    BY <1>0, <1>1, <2>1, PutEntryType
  <2>4. /\ result'[q] = packet[e].call
        /\ \A j \in Call : j # q => result'[j] = result[j]
    BY <1>0, <2>1, <2>2
  <2>5. /\ From[q] = e /\ id[q] = i /\ cpc[q] \notin {"new", "insert", "done", "failed"}
    BY <1>1, <1>4 DEF EntryInv, EntryPlace, EntryNeeded
  <2> HIDE DEF i
  <2>6. LiveIdsDiffer' /\ ResultLate'
    BY <1>2, <2>2, <2>4, <2>5 DEF EntryInv, LiveIdsDiffer, ResultLate, Live
  <2>7. \A f \in End, j \in Id : f # e \/ j # i => activeOutRequests[f][j] # q
    BY <1>1, <2>2, <2>5 DEF EntryInv, EntryPlace
  <2>8. \A f \in End, j \in Id : activeOutRequests[f][j] \in Call \cup {None}
    BY <1>0
  <2>9. EntryPlace' /\ EntryNeeded'
    BY <1>1, <1>2, <2>3, <2>4, <2>7, <2>8 DEF EntryInv, EntryPlace, EntryNeeded
  <2>10. EntryKept'
    <3> SUFFICES ASSUME ~reused', NEW j \in Call, Live(j)', cpc'[j] # "insert",
                        result'[j] = None
                 PROVE  activeOutRequests'[From[j]][id'[j]] = j
      BY DEF EntryKept
    <3>1. ~reused /\ Live(j) /\ cpc[j] # "insert" /\ j # q /\ result[j] = None
      BY <1>2, <2>2, <2>4 DEF Live
    <3>2. activeOutRequests[From[j]][id[j]] = j /\ From[j] \in End /\ id[j] \in Id
      BY <1>0, <3>1 DEF EntryInv, EntryKept
    <3> QED  BY <1>2, <2>3, <3>1, <3>2
  <2> QED  BY <2>6, <2>9, <2>10 DEF EntryInv
<1> QED  BY <1>3, <1>4

(* Every step keeps the entries in order.                                    *)
LEMMA StepEntry == TypeInv /\ EntryInv /\ [Next]_vars => EntryInv'
<1> SUFFICES ASSUME TypeInv, EntryInv, [Next]_vars PROVE EntryInv'
  OBVIOUS
<1> USE DEF TypeInv, streamVars, tableVars, callVars, runVars
<1>1. ASSUME NEW k \in Call, CallStep(k) PROVE EntryInv'
  BY <1>1, NewIdEntry, InsertEntryEntry, DeleteEntryEntry, GoOnEntry DEF CallStep, sendRequest
<1>2. ASSUME NEW e \in End, EndStep(e) PROVE EntryInv'
  <2>1. CASE ReadResponse(e)
    BY <2>1, ReadResponseEntry
  <2>2. CASE ~ReadResponse(e)
    <3>1. UNCHANGED <<cpc, id, reused, activeOutRequests, result>>
      BY <1>2, <2>2 DEF EndStep, Run, ReadFirst, ReadInstead, ReadRequest, LockAnswer,
           AnswerFirst, AnswerSecond, AnswerFails, Stop, Close
    <3> QED
      BY <3>1 DEF EntryInv, LiveIdsDiffer, EntryPlace, EntryKept, EntryNeeded, ResultLate, Live
  <2> QED  BY <2>1, <2>2
<1>3. CASE UNCHANGED vars
  BY <1>3 DEF vars, EntryInv, LiveIdsDiffer, EntryPlace, EntryKept, EntryNeeded, ResultLate, Live
<1> QED  BY <1>1, <1>2, <1>3 DEF Next, CallStep, EndStep

(* Every call that waits has its entry or its answer, so an answer finds the *)
(* call it belongs to, and the table keeps no entry of a call that is over   *)
(* unless it was cancelled (sendRequest, connection.go:363-414).             *)
THEOREM WaitersHaveEntries == Spec => []EntriesMatchWaiters
<1>1. EntryInv => EntriesMatchWaiters
  BY DEF EntryInv, EntryKept, EntryNeeded, EntriesMatchWaiters, Live
<1>2. Init => TypeInv /\ EntryInv
  BY InitType, InitEntry
<1> QED  BY <1>1, <1>2, StepType, StepEntry, PTL DEF Spec

-----------------------------------------------------------------------------
(***************************************************************************)
(* The shape of the stream: four ways a step can touch the stream of e.     *)
(***************************************************************************)
LEMMA InitShape == ASSUME Init PROVE ShapeInv
<1>1. \A e \in End : wire[e] = <<>> /\ Peer(e) \in End
  BY PeerIsOther DEF Init
<1>2. \A e \in End : rpc[e] = "read" /\ \A p \in Packet : ~HalfWritten(e, p)
  BY CallAssumption DEF Init, HalfWritten
<1>3. Len(<<>>) = 0 /\ 1 .. 0 - 1 = {}
  OBVIOUS
<1> QED
  BY <1>1, <1>2, <1>3 DEF ShapeInv, Shape, PartsTakeTurns, BeginsWithRest, EndsWithHalf,
                          EmptyBetween

(* Whoever holds outMutex is the only one that can have written half.        *)
LEMMA WritesAlone ==
    ASSUME TypeInv, NEW e \in End
    PROVE  /\ \A k \in Call : From[k] = e /\ cpc[k] \in Writing =>
                  /\ \A j \in Call : From[j] = e /\ cpc[j] = "second" => j = k
                  /\ rpc[e] # "second"
           /\ rpc[e] \in Writing => \A j \in Call : From[j] = e => cpc[j] # "second"
<1> USE CallAssumption DEF TypeInv, MutexHeld, Writing
<1>1. \A j \in Call : j # e
  OBVIOUS
<1> QED  BY <1>1

LEMMA PartTypes ==
    ASSUME TypeOK, NEW e \in End
    PROVE  /\ Len(wire[e]) \in Nat
           /\ wire[e] # <<>> => Len(wire[e]) >= 1
           /\ \A i \in 1 .. Len(wire[e]) : wire[e][i] \in Part /\ wire[e][i].packet \in Packet
<1>1. wire[e] \in Seq(Part)
  BY DEF TypeOK, Part
<1>2. Len(wire[e]) \in Nat /\ \A i \in 1 .. Len(wire[e]) : wire[e][i] \in Part
  BY <1>1
<1>3. wire[e] # <<>> => Len(wire[e]) # 0
  BY <1>1
<1> QED  BY <1>2, <1>3 DEF Part

(* The stream of e is as it was, and so are its reader, as far as it reads a *)
(* message, and its writer, unless the connection is broken.                 *)
LEMMA ShapeStays ==
    ASSUME NEW e \in End, Shape(e), wire'[e] = wire[e], ~torn'[e] => ~torn[e],
           rpc'[Peer(e)] = "more" => rpc[Peer(e)] = "more" /\ packet'[Peer(e)] = packet[Peer(e)],
           rpc[Peer(e)] \in {"more", "stopped"} => rpc'[Peer(e)] \in {"more", "stopped"},
           ~Broken(e)' =>
               /\ ~Broken(e)
               /\ rpc[Peer(e)] = "more" => rpc'[Peer(e)] = "more"
               /\ \A p \in Packet : HalfWritten(e, p)' <=> HalfWritten(e, p),
           \A i \in 1 .. Len(wire[e]) : wire[e][i].packet \in Packet,
           rpc[Peer(e)] = "more" => packet[Peer(e)] \in Packet,
           Len(wire[e]) \in Nat, wire[e] # <<>> => Len(wire[e]) >= 1
    PROVE  Shape(e)'
<1> SUFFICES ASSUME ~torn'[e]
             PROVE  /\ PartsTakeTurns(e)' /\ BeginsWithRest(e)'
                    /\ EndsWithHalf(e)' /\ EmptyBetween(e)'
  BY DEF Shape
<1>0. PartsTakeTurns(e) /\ BeginsWithRest(e) /\ EndsWithHalf(e) /\ EmptyBetween(e)
  BY DEF Shape
<1>1. PartsTakeTurns(e)'
  BY <1>0 DEF PartsTakeTurns
<1>2. BeginsWithRest(e)'
  BY <1>0 DEF BeginsWithRest
<1>3. EndsWithHalf(e)'
  <2> SUFFICES ASSUME ~Broken(e)', wire[e] # <<>>
               PROVE  LET last == wire[e][Len(wire[e])]
                      IN  /\ last.first => HalfWritten(e, last.packet)'
                          /\ \A p \in Packet : HalfWritten(e, p)' => last.first /\ last.packet = p
    BY DEF EndsWithHalf
  <2>1. wire[e][Len(wire[e])].packet \in Packet
    OBVIOUS
  <2> QED  BY <1>0, <2>1 DEF EndsWithHalf
<1>4. EmptyBetween(e)'
  BY <1>0 DEF EmptyBetween
<1> QED  BY <1>1, <1>2, <1>3, <1>4

(* A first part is written while nobody has written half.                    *)
LEMMA ShapeFirst ==
    ASSUME TypeOK, NEW e \in End, NEW p \in Packet, Shape(e), Put(e, TRUE, p),
           torn'[e] = torn[e], UNCHANGED closed,
           rpc'[Peer(e)] = rpc[Peer(e)], packet'[Peer(e)] = packet[Peer(e)],
           rpc[Peer(e)] = "more" => packet[Peer(e)] \in Packet,
           \A q \in Packet : ~HalfWritten(e, q),
           \A q \in Packet : HalfWritten(e, q)' <=> q = p
    PROVE  Shape(e)'
<1> SUFFICES ASSUME ~torn[e]
             PROVE  /\ PartsTakeTurns(e)' /\ BeginsWithRest(e)'
                    /\ EndsWithHalf(e)' /\ EmptyBetween(e)'
  BY DEF Shape
<1> DEFINE n == Len(wire[e])
<1>0. PartsTakeTurns(e) /\ BeginsWithRest(e) /\ EndsWithHalf(e) /\ EmptyBetween(e)
  BY DEF Shape
<1>1. /\ wire'[e] # <<>> /\ Len(wire'[e]) = n + 1 /\ n \in Nat
      /\ \A i \in 1 .. n : wire'[e][i] = wire[e][i]
      /\ wire'[e][n + 1] = [first |-> TRUE, packet |-> p]
      /\ ~Broken(e)
  BY PutFacts
<1>2. n > 0 => wire[e] # <<>>
  OBVIOUS
<1>3. n = 0 => wire[e] = <<>>
  BY DEF TypeOK
<1>4. \A i \in 1 .. n : wire[e][i].packet \in Packet
  BY PartTypes
<1> HIDE DEF n
<1>5. n > 0 => ~wire[e][n].first
  BY <1>0, <1>1, <1>2, <1>4 DEF EndsWithHalf, n
<1>6. PartsTakeTurns(e)'
  <2> SUFFICES ASSUME NEW i \in 1 .. n
               PROVE  /\ wire'[e][i].first => /\ ~wire'[e][i + 1].first
                                              /\ wire'[e][i + 1].packet = wire'[e][i].packet
                      /\ ~wire'[e][i].first => wire'[e][i + 1].first
    BY <1>1 DEF PartsTakeTurns
  <2>1. CASE i = n
    BY <1>1, <1>5, <2>1
  <2>2. CASE i # n
    <3>1. i \in 1 .. n - 1 /\ i + 1 \in 1 .. n
      BY <1>1, <2>2
    <3> QED  BY <1>0, <1>1, <3>1 DEF PartsTakeTurns, n
  <2> QED  BY <2>1, <2>2
<1>7. BeginsWithRest(e)'
  <2>1. CASE n = 0
    <3>1. rpc[Peer(e)] # "more"
      BY <1>0, <1>1, <1>3, <2>1 DEF EmptyBetween
    <3> QED  BY <1>1, <2>1, <3>1 DEF BeginsWithRest
  <2>2. CASE n > 0
    BY <1>0, <1>1, <1>2, <2>2 DEF BeginsWithRest
  <2> QED  BY <1>1, <2>1, <2>2
<1>8. EndsWithHalf(e)'
  BY <1>1 DEF EndsWithHalf
<1> QED  BY <1>1, <1>6, <1>7, <1>8 DEF EmptyBetween

(* The second part of the message that is half written.                      *)
LEMMA ShapeSecond ==
    ASSUME TypeOK, NEW e \in End, NEW p \in Packet, Shape(e), Put(e, FALSE, p),
           torn'[e] = torn[e], UNCHANGED closed,
           rpc'[Peer(e)] = rpc[Peer(e)], packet'[Peer(e)] = packet[Peer(e)],
           HalfWritten(e, p),
           \A q \in Packet : ~HalfWritten(e, q)'
    PROVE  Shape(e)'
<1> SUFFICES ASSUME ~torn[e]
             PROVE  /\ PartsTakeTurns(e)' /\ BeginsWithRest(e)'
                    /\ EndsWithHalf(e)' /\ EmptyBetween(e)'
  BY DEF Shape
<1> DEFINE n == Len(wire[e])
<1>0. PartsTakeTurns(e) /\ BeginsWithRest(e) /\ EndsWithHalf(e) /\ EmptyBetween(e)
  BY DEF Shape
<1>1. /\ wire'[e] # <<>> /\ Len(wire'[e]) = n + 1 /\ n \in Nat
      /\ \A i \in 1 .. n : wire'[e][i] = wire[e][i]
      /\ wire'[e][n + 1] = [first |-> FALSE, packet |-> p]
      /\ ~Broken(e)
  BY PutFacts
<1>2. n > 0 => wire[e] # <<>>
  OBVIOUS
<1>3. n = 0 => wire[e] = <<>>
  BY DEF TypeOK
<1> HIDE DEF n
<1>5. n > 0 => wire[e][n].first /\ wire[e][n].packet = p
  BY <1>0, <1>1, <1>2 DEF EndsWithHalf, n
<1>6. PartsTakeTurns(e)'
  <2> SUFFICES ASSUME NEW i \in 1 .. n
               PROVE  /\ wire'[e][i].first => /\ ~wire'[e][i + 1].first
                                              /\ wire'[e][i + 1].packet = wire'[e][i].packet
                      /\ ~wire'[e][i].first => wire'[e][i + 1].first
    BY <1>1 DEF PartsTakeTurns
  <2>1. CASE i = n
    BY <1>1, <1>5, <2>1
  <2>2. CASE i # n
    <3>1. i \in 1 .. n - 1 /\ i + 1 \in 1 .. n
      BY <1>1, <2>2
    <3> QED  BY <1>0, <1>1, <3>1 DEF PartsTakeTurns, n
  <2> QED  BY <2>1, <2>2
<1>7. BeginsWithRest(e)'
  <2>1. CASE n = 0
    <3>1. rpc[Peer(e)] = "more" /\ packet[Peer(e)] = p
      BY <1>0, <1>1, <1>3, <2>1 DEF EmptyBetween
    <3> QED  BY <1>1, <2>1, <3>1 DEF BeginsWithRest
  <2>2. CASE n > 0
    BY <1>0, <1>1, <1>2, <2>2 DEF BeginsWithRest
  <2> QED  BY <1>1, <2>1, <2>2
<1>8. EndsWithHalf(e)'
  BY <1>1 DEF EndsWithHalf
<1> QED  BY <1>1, <1>6, <1>7, <1>8 DEF EmptyBetween

(* Run of e reads a part of what its peer has written.                       *)
LEMMA ShapeTake ==
    ASSUME TypeOK, NEW e \in End, NEW f \in End, f = Peer(e), Shape(f), Arrived(e) # <<>>, Take(e),
           torn'[f] = torn[f], UNCHANGED closed,
           \A q \in Packet : HalfWritten(f, q)' <=> HalfWritten(f, q),
           \/ /\ Head(Arrived(e)).first
              /\ rpc[e] = "more"
           \/ /\ Head(Arrived(e)).first
              /\ rpc'[e] = "more" /\ packet'[e] = Head(Arrived(e)).packet
           \/ /\ ~Head(Arrived(e)).first
              /\ rpc[e] = "more" /\ rpc'[e] # "more"
           \/ /\ ~Head(Arrived(e)).first
              /\ rpc[e] \notin {"more", "stopped"}
    PROVE  Shape(f)'
<1> DEFINE n == Len(wire[f])
<1> SUFFICES ASSUME ~torn[f]
             PROVE  /\ PartsTakeTurns(f)' /\ BeginsWithRest(f)'
                    /\ EndsWithHalf(f)' /\ EmptyBetween(f)'
  BY DEF Shape
<1>0. PartsTakeTurns(f) /\ BeginsWithRest(f) /\ EndsWithHalf(f) /\ EmptyBetween(f)
  BY DEF Shape
<1>1. Peer(f) = e
  BY PeerIsOther
<1>2. /\ n \in Nat /\ n >= 1 /\ wire[f] # <<>>
      /\ Len(wire'[f]) = n - 1
      /\ wire'[f] = <<>> <=> n = 1
      /\ \A i \in 1 .. n - 1 : wire'[f][i] = wire[f][i + 1]
      /\ Head(Arrived(e)) = wire[f][1]
  BY TakeFacts
<1>3. \A i \in 1 .. n : wire[f][i].packet \in Packet
  BY PartTypes
<1>4. Broken(f)' <=> Broken(f)
  BY DEF Broken
<1> HIDE DEF n
<1>5. \/ wire[f][1].first /\ rpc'[e] = "more" /\ packet'[e] = wire[f][1].packet
      \/ ~wire[f][1].first /\ rpc'[e] # "more"
  BY <1>0, <1>1, <1>2 DEF BeginsWithRest
<1>6. PartsTakeTurns(f)'
  <2> SUFFICES ASSUME NEW i \in 1 .. n - 1 - 1
               PROVE  /\ wire'[f][i].first => /\ ~wire'[f][i + 1].first
                                              /\ wire'[f][i + 1].packet = wire'[f][i].packet
                      /\ ~wire'[f][i].first => wire'[f][i + 1].first
    BY <1>2 DEF PartsTakeTurns
  <2>1. i \in 1 .. n - 1 /\ i + 1 \in 1 .. n - 1
    BY <1>2
  <2> QED  BY <1>0, <1>2, <2>1, SMTT(30) DEF PartsTakeTurns, n
<1>7. BeginsWithRest(f)'
  <2> SUFFICES ASSUME n # 1
               PROVE  /\ rpc'[e] = "more" => /\ ~wire'[f][1].first
                                             /\ wire'[f][1].packet = packet'[e]
                      /\ ~wire'[f][1].first => rpc'[e] \in {"more", "stopped"}
    BY <1>1, <1>2 DEF BeginsWithRest
  <2>1. 1 \in 1 .. n - 1 /\ wire'[f][1] = wire[f][1 + 1]
    BY <1>2
  <2> QED  BY <1>0, <1>5, <2>1 DEF PartsTakeTurns, n
<1>8. EndsWithHalf(f)'
  <2> SUFFICES ASSUME ~Broken(f), n # 1
               PROVE  LET last == wire[f][Len(wire[f])]
                      IN  /\ last'.first => HalfWritten(f, last.packet)'
                          /\ \A p \in Packet : HalfWritten(f, p)' => last'.first /\ last'.packet = p
    BY <1>2, <1>4 DEF EndsWithHalf
  <2>1. wire'[f][Len(wire'[f])] = wire[f][n] /\ wire[f][n].packet \in Packet
    BY <1>2, <1>3
  <2> QED  BY <1>0, <1>2, <2>1 DEF EndsWithHalf, n
<1>9. EmptyBetween(f)'
  <2> SUFFICES ASSUME ~Broken(f), n = 1
               PROVE  /\ rpc'[e] = "more" => HalfWritten(f, packet[e])'
                      /\ \A p \in Packet : HalfWritten(f, p)' => rpc'[e] = "more" /\ packet'[e] = p
    BY <1>1, <1>2, <1>4 DEF EmptyBetween
  <2>1. /\ wire[f][1].first => HalfWritten(f, wire[f][1].packet)
        /\ \A p \in Packet : HalfWritten(f, p) => wire[f][1].first /\ wire[f][1].packet = p
    BY <1>0, <1>2 DEF EndsWithHalf, n
  <2>2. wire[f][1].packet \in Packet
    BY <1>2, <1>3
  <2> QED  BY <1>5, <2>1, <2>2
<1> QED  BY <1>6, <1>7, <1>8, <1>9

(* What is half written changes only with the step of its writer.            *)
LEMMA HalfStays ==
    ASSUME NEW e \in End,
           \A k \in Call : From[k] = e =>
               /\ cpc'[k] = "second" <=> cpc[k] = "second"
               /\ cpc[k] = "second" => id'[k] = id[k],
           rpc'[e] = "second" <=> rpc[e] = "second",
           rpc[e] = "second" => packet'[e] = packet[e]
    PROVE  \A p \in Packet : HalfWritten(e, p)' <=> HalfWritten(e, p)
BY DEF HalfWritten, Request

LEMMA CallShape ==
    ASSUME TypeInv, ShapeInv, NEW k \in Call, CallStep(k)
    PROVE  ShapeInv'
<1> DEFINE e == From[k]
<1> USE CallAssumption DEF TypeOK, streamVars, tableVars, callVars, runVars
<1>0. TypeOK /\ RunHolds /\ MutexHeld /\ e \in End
  BY DEF TypeInv
<1>1. UNCHANGED <<rpc, packet, closed>>
  BY DEF CallStep, sendRequest, NewId, InsertEntry, LockRequest, WriteFirst, WriteSecond,
         SendFails, DeleteEntry, Returns, Cancel
<1>2. /\ \A j \in Call : j # k => cpc'[j] = cpc[j] /\ id'[j] = id[j]
      /\ cpc[k] = "second" => id'[k] = id[k]
      /\ \A f \in End : f # e => wire'[f] = wire[f] /\ (~torn'[f] => ~torn[f])
  <2>1. CASE WriteFirst(k) \/ WriteSecond(k)
    <3>2. \A f \in End : f # e => wire'[f] = wire[f]
      BY <1>0, <2>1 DEF WriteFirst, WriteSecond, Put
    <3>3. UNCHANGED <<torn, id>> /\ \A j \in Call : j # k => cpc'[j] = cpc[j]
      BY <1>0, <2>1 DEF WriteFirst, WriteSecond, GotoCall
    <3> QED  BY <3>2, <3>3
  <2>2. CASE ~(WriteFirst(k) \/ WriteSecond(k))
    BY <1>0, <2>2 DEF CallStep, sendRequest, NewId, InsertEntry, LockRequest, SendFails,
         DeleteEntry, Returns, Cancel, GotoCall
  <2> QED  BY <2>1, <2>2
<1>3. \A f \in End : Broken(f)' <=> Broken(f)
  BY <1>1 DEF Broken
<1>4. \A f \in End : /\ Peer(f) \in End
                     /\ Len(wire[f]) \in Nat /\ (wire[f] # <<>> => Len(wire[f]) >= 1)
                     /\ \A i \in 1 .. Len(wire[f]) : wire[f][i].packet \in Packet
                     /\ rpc[Peer(f)] = "more" => packet[Peer(f)] \in Packet
  BY <1>0, PeerIsOther, PartTypes DEF RunHolds
<1>5. ASSUME NEW f \in End, wire'[f] = wire[f], ~torn'[f] => ~torn[f],
             f = e => (cpc'[k] = "second" <=> cpc[k] = "second")
      PROVE  Shape(f)'
  <2>1. \A p \in Packet : HalfWritten(f, p)' <=> HalfWritten(f, p)
    BY <1>1, <1>2, <1>5, HalfStays
  <2> QED  BY <1>1, <1>3, <1>4, <1>5, <2>1, ShapeStays DEF ShapeInv
<1>6. \A f \in End : f # e => Shape(f)'
  BY <1>2, <1>5
<1>7. Shape(e)'
  <2>1. CASE WriteFirst(k)
    <3>1. Put(e, TRUE, Request(k)) /\ cpc'[k] = "second" /\ cpc[k] = "first"
          /\ UNCHANGED <<torn, id>>
      BY <1>0, <2>1 DEF WriteFirst, GotoCall
    <3>2. /\ \A j \in Call : From[j] = e => cpc[j] # "second"
          /\ rpc[e] # "second"
      BY <1>0, <3>1, WritesAlone DEF Writing
    <3>3. \A q \in Packet : ~HalfWritten(e, q)
      BY <3>2 DEF HalfWritten
    <3>4. \A q \in Packet : HalfWritten(e, q)' <=> q = Request(k)
      BY <1>1, <1>2, <3>1, <3>2 DEF HalfWritten, Request
    <3> QED
      BY <1>0, <1>1, <1>4, <3>1, <3>3, <3>4, RequestType, ShapeFirst DEF ShapeInv
  <2>2. CASE WriteSecond(k)
    <3>1. Put(e, FALSE, Request(k)) /\ cpc'[k] = "wait" /\ cpc[k] = "second"
          /\ UNCHANGED <<torn, id>>
      BY <1>0, <2>2 DEF WriteSecond, GotoCall
    <3>2. /\ \A j \in Call : From[j] = e /\ cpc[j] = "second" => j = k
          /\ rpc[e] # "second"
      BY <1>0, <3>1, WritesAlone DEF Writing
    <3>3. HalfWritten(e, Request(k))
      BY <3>1 DEF HalfWritten
    <3>4. \A q \in Packet : ~HalfWritten(e, q)'
      BY <1>1, <1>2, <3>1, <3>2 DEF HalfWritten
    <3> QED
      BY <1>0, <1>1, <1>4, <3>1, <3>3, <3>4, RequestType, ShapeSecond DEF ShapeInv
  <2>3. CASE SendFails(k) /\ cpc[k] = "second"
    <3>1. torn'[e]
      BY <1>0, <2>3 DEF SendFails
    <3> QED  BY <3>1 DEF Shape
  <2>4. CASE SendFails(k) /\ cpc[k] = "first"
    <3>1. wire'[e] = wire[e] /\ (~torn'[e] => ~torn[e]) /\ cpc'[k] = "undo"
      BY <1>0, <2>4 DEF SendFails, GotoCall
    <3> QED  BY <1>0, <1>5, <2>4, <3>1
  <2>5. CASE \/ NewId(k) \/ InsertEntry(k) \/ LockRequest(k) \/ DeleteEntry(k)
             \/ Returns(k) \/ Cancel(k)
    <3>1. wire'[e] = wire[e] /\ (~torn'[e] => ~torn[e]) /\ cpc'[k] # "second" /\ cpc[k] # "second"
      BY <1>0, <2>5 DEF NewId, InsertEntry, LockRequest, DeleteEntry, Returns, Cancel, GotoCall
    <3> QED  BY <1>0, <1>5, <3>1
  <2>6. SendFails(k) => cpc[k] \in {"first", "second"}
    BY DEF SendFails
  <2> QED  BY <2>1, <2>2, <2>3, <2>4, <2>5, <2>6 DEF CallStep, sendRequest
<1> QED  BY <1>6, <1>7 DEF ShapeInv

LEMMA EndShape ==
    ASSUME TypeInv, ShapeInv, NEW e \in End, EndStep(e)
    PROVE  ShapeInv'
<1> DEFINE f == Peer(e)
<1> USE CallAssumption DEF TypeOK, streamVars, tableVars, callVars, runVars
<1>0. TypeOK /\ RunHolds /\ MutexHeld
  BY DEF TypeInv
<1>1. f \in End /\ f # e /\ Peer(f) = e /\ \A g \in End : g = e \/ g = f
  BY PeerIsOther
<1>2. /\ UNCHANGED <<cpc, id>>
      /\ torn'[f] = torn[f] /\ (~torn'[e] => ~torn[e])
      /\ rpc'[f] = rpc[f] /\ packet'[f] = packet[f]
  <2>1. CASE ReadFirst(e) \/ ReadInstead(e)
    BY <1>0, <1>1, <2>1 DEF ReadFirst, ReadInstead, GotoRun
  <2>2. CASE ReadRequest(e) \/ ReadResponse(e)
    <3>1. CASE ReadRequest(e)
      BY <1>0, <1>1, <3>1 DEF ReadRequest, GotoRun
    <3>2. CASE ReadResponse(e)
      BY <1>0, <1>1, <3>2 DEF ReadResponse, GotoRun
    <3> QED  BY <2>2, <3>1, <3>2
  <2>3. CASE LockAnswer(e) \/ AnswerFirst(e) \/ AnswerSecond(e)
    <3>1. CASE LockAnswer(e)
      BY <1>0, <1>1, <3>1 DEF LockAnswer, GotoRun
    <3>2. CASE AnswerFirst(e)
      BY <1>0, <1>1, <3>2 DEF AnswerFirst, GotoRun
    <3>3. CASE AnswerSecond(e)
      BY <1>0, <1>1, <3>3 DEF AnswerSecond, GotoRun
    <3> QED  BY <2>3, <3>1, <3>2, <3>3
  <2>4. CASE AnswerFails(e)
    BY <1>0, <1>1, <2>4 DEF AnswerFails, GotoRun
  <2>5. CASE Stop(e) \/ Close(e)
    BY <1>0, <1>1, <2>5 DEF Stop, Close, GotoRun
  <2> QED  BY <2>1, <2>2, <2>3, <2>4, <2>5 DEF EndStep, Run
<1>3. \A g \in End : /\ Len(wire[g]) \in Nat /\ (wire[g] # <<>> => Len(wire[g]) >= 1)
                     /\ \A i \in 1 .. Len(wire[g]) : wire[g][i].packet \in Packet
                     /\ rpc[g] = "more" => packet[g] \in Packet
  BY <1>0, PartTypes DEF RunHolds
<1>4. \A p \in Packet : HalfWritten(f, p)' <=> HalfWritten(f, p)
  BY <1>1, <1>2, HalfStays
<1>5. ASSUME wire'[e] = wire[e],
             ~Broken(e)' => /\ ~Broken(e)
                            /\ \A p \in Packet : HalfWritten(e, p)' <=> HalfWritten(e, p)
      PROVE  Shape(e)'
  BY <1>1, <1>2, <1>3, <1>5, ShapeStays DEF ShapeInv
<1>6. ASSUME wire'[f] = wire[f], ~Broken(f)' => ~Broken(f),
             rpc'[e] = "more" => rpc[e] = "more" /\ packet'[e] = packet[e],
             rpc[e] = "more" => rpc'[e] = "more" \/ (rpc'[e] = "stopped" /\ Broken(f)'),
             rpc[e] = "stopped" => rpc'[e] = "stopped"
      PROVE  Shape(f)'
  BY <1>1, <1>2, <1>3, <1>4, <1>6, ShapeStays DEF ShapeInv
<1>7. Broken(e) <=> Broken(f)
  BY DEF Broken
<1>8. CASE ReadFirst(e) \/ ReadInstead(e) \/ ReadRequest(e) \/ ReadResponse(e)
  <2>1. /\ Arrived(e) # <<>> /\ Take(e) /\ UNCHANGED closed
        /\ rpc[e] \in {"read", "more"} /\ rpc'[e] # "second"
    BY <1>0, <1>8 DEF ReadFirst, ReadInstead, ReadRequest, ReadResponse, GotoRun
  <2>2. wire'[e] = wire[e]
    BY <1>0, <2>1, TakeFacts
  <2>3. Broken(e)' <=> Broken(e)
    BY <2>1 DEF Broken
  <2>4. \A p \in Packet : HalfWritten(e, p)' <=> HalfWritten(e, p)
    BY <1>2, <2>1, HalfStays
  <2>5. Shape(e)'
    BY <1>5, <2>2, <2>3, <2>4
  <2>6. \/ /\ Head(Arrived(e)).first
           /\ rpc[e] = "more"
        \/ /\ Head(Arrived(e)).first
           /\ rpc'[e] = "more" /\ packet'[e] = Head(Arrived(e)).packet
        \/ /\ ~Head(Arrived(e)).first
           /\ rpc[e] = "more" /\ rpc'[e] # "more"
        \/ /\ ~Head(Arrived(e)).first
           /\ rpc[e] \notin {"more", "stopped"}
    BY <1>0, <1>8 DEF ReadFirst, ReadInstead, ReadRequest, ReadResponse, GotoRun
  <2>7. Shape(f)'
    BY <1>0, <1>1, <1>2, <1>4, <2>1, <2>6, ShapeTake DEF ShapeInv
  <2> QED  BY <1>1, <2>5, <2>7 DEF ShapeInv
<1>9. CASE LockAnswer(e) \/ Close(e)
  <2>1. /\ wire' = wire /\ packet' = packet /\ (~Broken(e)' => ~Broken(e))
        /\ rpc'[e] = rpc[e] \/ (rpc[e] = "lock" /\ rpc'[e] = "first")
    BY <1>0, <1>9 DEF LockAnswer, Close, GotoRun, Broken
  <2>2. \A p \in Packet : HalfWritten(e, p)' <=> HalfWritten(e, p)
    BY <1>2, <2>1, HalfStays
  <2>3. Shape(e)'
    BY <1>5, <2>1, <2>2
  <2>4. Shape(f)'
    BY <1>6, <1>7, <2>1 DEF Broken
  <2> QED  BY <1>1, <2>3, <2>4 DEF ShapeInv
<1>10. CASE Stop(e)
  <2>1. /\ wire' = wire /\ Broken(e) /\ closed' = closed
        /\ rpc[e] \in {"read", "more"} /\ rpc'[e] = "stopped"
    BY <1>0, <1>1, <1>10 DEF Stop, GotoRun, Broken
  <2>2. Broken(e)' /\ Broken(f)'
    BY <2>1 DEF Broken
  <2>3. Shape(e)' /\ Shape(f)'
    BY <1>5, <1>6, <2>1, <2>2
  <2> QED  BY <1>1, <2>3 DEF ShapeInv
<1>12. CASE AnswerFails(e)
  <2>1. /\ wire' = wire /\ closed' = closed /\ rpc'[e] = "read"
        /\ rpc[e] = "first" \/ (rpc[e] = "second" /\ torn'[e])
    BY <1>0, <1>12 DEF AnswerFails, GotoRun
  <2>2. \A g \in End : Broken(g)' <=> Broken(g)
    BY <2>1 DEF Broken
  <2>3. Shape(f)'
    BY <1>1, <1>6, <2>1, <2>2
  <2>4. CASE rpc[e] = "second" /\ torn'[e]
    BY <1>1, <2>3, <2>4 DEF ShapeInv, Shape
  <2>5. CASE rpc[e] = "first"
    <3>1. \A p \in Packet : HalfWritten(e, p)' <=> HalfWritten(e, p)
      BY <1>2, <2>1, <2>5, HalfStays
    <3>2. Shape(e)'
      BY <1>5, <2>1, <2>2, <3>1
    <3> QED  BY <1>1, <2>3, <3>2 DEF ShapeInv
  <2> QED  BY <2>1, <2>4, <2>5
<1>11. CASE AnswerFirst(e) \/ AnswerSecond(e)
  <2>1. /\ rpc[e] \in Writing /\ UNCHANGED closed
        /\ packet[e] \in Packet
        /\ rpc'[e] \notin {"more", "stopped"}
    BY <1>0, <1>11 DEF AnswerFirst, AnswerSecond, GotoRun, Writing, RunHolds, Answering
  <2>3. wire'[f] = wire[f]
    BY <1>0, <1>1, <1>11 DEF AnswerFirst, AnswerSecond, Put
  <2>4. Shape(f)'
    BY <1>6, <2>1, <2>3 DEF Broken, Writing
  <2>5. \A j \in Call : From[j] = e => cpc[j] # "second"
    BY <2>1, WritesAlone
  <2>6. CASE AnswerFirst(e)
    <3>1. /\ Put(e, TRUE, packet[e]) /\ torn' = torn
          /\ rpc'[e] = "second" /\ packet' = packet /\ rpc[e] = "first"
      BY <1>0, <2>6 DEF AnswerFirst, GotoRun
    <3>2. \A q \in Packet : ~HalfWritten(e, q)
      BY <2>5, <3>1 DEF HalfWritten
    <3>3. \A q \in Packet : HalfWritten(e, q)' <=> q = packet[e]
      BY <1>2, <2>5, <3>1 DEF HalfWritten
    <3>4. Shape(e)'
      BY <1>0, <1>1, <1>2, <1>3, <2>1, <3>1, <3>2, <3>3, ShapeFirst DEF ShapeInv
    <3> QED  BY <1>1, <2>4, <3>4 DEF ShapeInv
  <2>7. CASE AnswerSecond(e)
    <3>1. Put(e, FALSE, packet[e]) /\ torn' = torn /\ rpc'[e] = "read" /\ rpc[e] = "second"
      BY <1>0, <2>7 DEF AnswerSecond, GotoRun
    <3>2. HalfWritten(e, packet[e])
      BY <3>1 DEF HalfWritten
    <3>3. \A q \in Packet : ~HalfWritten(e, q)'
      BY <1>2, <2>5, <3>1 DEF HalfWritten
    <3>4. Shape(e)'
      BY <1>0, <1>1, <1>2, <1>3, <2>1, <3>1, <3>2, <3>3, ShapeSecond DEF ShapeInv
    <3> QED  BY <1>1, <2>4, <3>4 DEF ShapeInv
  <2> QED  BY <1>11, <2>6, <2>7
<1> QED  BY <1>8, <1>9, <1>10, <1>11, <1>12 DEF EndStep, Run

(* Every step keeps the shape of both streams.                               *)
LEMMA StepShape == TypeInv /\ ShapeInv /\ [Next]_vars => ShapeInv'
<1> SUFFICES ASSUME TypeInv, ShapeInv, [Next]_vars PROVE ShapeInv'
  OBVIOUS
<1>1. CASE UNCHANGED vars
  BY <1>1 DEF vars, streamVars, callVars, runVars, ShapeInv, Shape, PartsTakeTurns,
              BeginsWithRest, EndsWithHalf, EmptyBetween, HalfWritten, Request, Broken
<1> QED  BY <1>1, CallShape, EndShape DEF Next, CallStep, EndStep

(* The bytes of two messages never mix in the stream, although every call    *)
(* and Run write to it: unless an encoder gave up half way, a first part is  *)
(* followed by the second part of the same message (send,                    *)
(* connection.go:429-460).                                                   *)
THEOREM MessagesFramed == Spec => []Framed
<1>1. TypeInv /\ ShapeInv => Framed
  <2> SUFFICES ASSUME TypeInv, ShapeInv, NEW e \in End, ~torn[e],
                      NEW i \in 1 .. Len(wire[e]) - 1, wire[e][i].first
               PROVE  wire[e][i + 1] = [wire[e][i] EXCEPT !.first = FALSE]
    BY DEF Framed
  <2>1. Len(wire[e]) \in Nat /\ \A j \in 1 .. Len(wire[e]) : wire[e][j] \in Part
    BY PartTypes DEF TypeInv
  <2>2. wire[e][i] \in Part /\ wire[e][i + 1] \in Part
    BY <2>1
  <2>3. ~wire[e][i + 1].first /\ wire[e][i + 1].packet = wire[e][i].packet
    BY DEF ShapeInv, Shape, PartsTakeTurns
  <2> QED  BY <2>2, <2>3 DEF Part
<1>2. Init => TypeInv /\ ShapeInv
  BY InitType, InitShape
<1> QED  BY <1>1, <1>2, StepType, StepShape, PTL DEF Spec

-----------------------------------------------------------------------------
(***************************************************************************)
(* The messages under way belong to calls, go the right way and bear the    *)
(* right ID.                                                                *)
(***************************************************************************)
LEMMA InitFlight == ASSUME Init PROVE FlightInv /\ AnswerInv
<1> USE CallAssumption
<1>1. \A e \in End : wire[e] = <<>> /\ rpc[e] = "read"
  BY DEF Init
<1>2. Len(<<>>) = 0 /\ 1 .. 0 = {}
  OBVIOUS
<1>3. PartsGoWell /\ RunGoesWell
  BY <1>1, <1>2 DEF PartsGoWell, RunGoesWell, Answering
<1>4. OnePlace /\ UnderWay
  BY <1>1, <1>2 DEF OnePlace, UnderWay, InHand
<1>5. NotTooEarly /\ ResultMatches
  BY DEF Init, NotTooEarly, ResultMatches
<1> QED  BY <1>3, <1>4, <1>5 DEF FlightInv, AnswerInv

(* A call keeps its ID once it has one, and the stream stays torn.           *)
LEMMA CallKeeps ==
    ASSUME TypeOK, NEW k \in Call, CallStep(k)
    PROVE  /\ \A c \in Call : cpc[c] # "new" => cpc'[c] # "new" /\ id'[c] = id[c]
           /\ ~Torn' => ~Torn
           /\ ~reused' => ~reused
           /\ UNCHANGED <<rpc, packet, closed, result>>
           /\ \A c \in Call : c # k => cpc'[c] = cpc[c]
<1> USE CallAssumption DEF TypeOK, streamVars, tableVars, callVars, runVars
<1>1. CASE SendFails(k)
  BY <1>1 DEF SendFails, GotoCall, Torn
<1>2. CASE NewId(k)
  BY <1>2 DEF NewId, GotoCall, Torn
<1>3. CASE InsertEntry(k) \/ LockRequest(k)
  BY <1>3 DEF InsertEntry, LockRequest, GotoCall, Torn
<1>4. CASE WriteFirst(k) \/ WriteSecond(k)
  BY <1>4 DEF WriteFirst, WriteSecond, GotoCall, Torn
<1>5. CASE DeleteEntry(k) \/ Returns(k) \/ Cancel(k)
  BY <1>5 DEF DeleteEntry, Returns, Cancel, GotoCall, Torn
<1> QED  BY <1>1, <1>2, <1>3, <1>4, <1>5 DEF CallStep, sendRequest

LEMMA EndKeeps ==
    ASSUME TypeOK, NEW e \in End, EndStep(e)
    PROVE  /\ UNCHANGED <<cpc, id, reused>>
           /\ ~Torn' => ~Torn
           /\ \A f \in End : f # e => rpc'[f] = rpc[f] /\ packet'[f] = packet[f]
<1> USE DEF TypeOK, streamVars, tableVars, callVars, runVars
<1>1. CASE ReadFirst(e) \/ ReadInstead(e) \/ ReadRequest(e) \/ ReadResponse(e)
  BY <1>1 DEF ReadFirst, ReadInstead, ReadRequest, ReadResponse, GotoRun, Torn
<1>2. CASE LockAnswer(e) \/ AnswerFirst(e) \/ AnswerSecond(e) \/ Stop(e) \/ Close(e)
  BY <1>2 DEF LockAnswer, AnswerFirst, AnswerSecond, Stop, Close, GotoRun, Torn
<1>3. CASE AnswerFails(e)
  BY <1>3 DEF AnswerFails, GotoRun, Torn
<1> QED  BY <1>1, <1>2, <1>3 DEF EndStep, Run

(* What goes well goes on well.                                              *)
LEMMA GoesOn ==
    ASSUME \A c \in Call : cpc[c] # "new" => cpc'[c] # "new" /\ id'[c] = id[c],
           NEW e \in End, NEW p, GoesWell(e, p)
    PROVE  GoesWell(e, p)'
BY DEF GoesWell

LEMMA CallFlight ==
    ASSUME TypeInv, FlightInv, NEW k \in Call, CallStep(k)
    PROVE  FlightInv'
<1> SUFFICES ASSUME ~Torn' PROVE PartsGoWell' /\ RunGoesWell'
  BY DEF FlightInv
<1> USE CallAssumption
<1>0. TypeOK /\ \A g \in End : Peer(g) \in End
  BY PeerIsOther DEF TypeInv
<1>1. /\ \A c \in Call : cpc[c] # "new" => cpc'[c] # "new" /\ id'[c] = id[c]
      /\ UNCHANGED <<rpc, packet>>
      /\ PartsGoWell /\ RunGoesWell
  BY <1>0, CallKeeps DEF FlightInv
<1>2. RunGoesWell'
  BY <1>0, <1>1, GoesOn DEF RunGoesWell, GoesWell
<1>3. PartsGoWell'
  <2>1. CASE WriteFirst(k) \/ WriteSecond(k)
    <3> DEFINE e == From[k]
    <3> DEFINE n == Len(wire[e])
    <3>1. /\ Len(wire'[e]) = n + 1 /\ n \in Nat
          /\ \A i \in 1 .. n : wire'[e][i] = wire[e][i]
          /\ wire'[e][n + 1].packet = Request(k)
          /\ \A f \in End : f # e => wire'[f] = wire[f]
          /\ cpc'[k] # "new" /\ id'[k] = id[k] /\ e \in End
      <4>1. CASE WriteFirst(k)
        <5>1. Put(e, TRUE, Request(k)) /\ e \in End /\ Request(k) \in Packet
          BY <1>0, <4>1, RequestType DEF WriteFirst, TypeOK
        <5>2. cpc'[k] # "new" /\ id'[k] = id[k]
          BY <1>0, <4>1 DEF WriteFirst, GotoCall, TypeOK
        <5>3. /\ Len(wire'[e]) = n + 1 /\ n \in Nat
              /\ \A i \in 1 .. n : wire'[e][i] = wire[e][i]
              /\ wire'[e][n + 1] = [first |-> TRUE, packet |-> Request(k)]
              /\ \A f \in End : f # e => wire'[f] = wire[f]
          BY <1>0, <5>1, PutFacts
        <5> QED  BY <5>1, <5>2, <5>3
      <4>2. CASE WriteSecond(k)
        <5>1. Put(e, FALSE, Request(k)) /\ e \in End /\ Request(k) \in Packet
          BY <1>0, <4>2, RequestType DEF WriteSecond, TypeOK
        <5>2. cpc'[k] # "new" /\ id'[k] = id[k]
          BY <1>0, <4>2 DEF WriteSecond, GotoCall, TypeOK
        <5>3. /\ Len(wire'[e]) = n + 1 /\ n \in Nat
              /\ \A i \in 1 .. n : wire'[e][i] = wire[e][i]
              /\ wire'[e][n + 1] = [first |-> FALSE, packet |-> Request(k)]
              /\ \A f \in End : f # e => wire'[f] = wire[f]
          BY <1>0, <5>1, PutFacts
        <5> QED  BY <5>1, <5>2, <5>3
      <4> QED  BY <2>1, <4>1, <4>2
    <3>2. GoesWell(e, Request(k))'
      BY <3>1 DEF GoesWell, Request
    <3>3. ASSUME NEW g \in End, NEW i \in 1 .. Len(wire'[g])
          PROVE  GoesWell(g, wire[g][i].packet)'
      <4>1. CASE g = e /\ i = n + 1
        BY <3>1, <3>2, <4>1 DEF GoesWell, Request
      <4>2. CASE ~(g = e /\ i = n + 1)
        <5>1. wire'[g][i] = wire[g][i] /\ i \in 1 .. Len(wire[g])
          BY <3>1, <4>2
        <5> QED  BY <1>1, <5>1 DEF PartsGoWell, GoesWell
      <4> QED  BY <4>1, <4>2
    <3> QED  BY <3>3 DEF PartsGoWell
  <2>2. CASE ~(WriteFirst(k) \/ WriteSecond(k))
    <3>1. wire' = wire
      BY <2>2 DEF CallStep, sendRequest, NewId, InsertEntry, LockRequest, SendFails,
           DeleteEntry, Returns, Cancel, streamVars
    <3> QED  BY <1>1, <3>1 DEF PartsGoWell, GoesWell
  <2> QED  BY <2>1, <2>2
<1> QED  BY <1>2, <1>3

LEMMA EndFlight ==
    ASSUME TypeInv, ShapeInv, FlightInv, NEW e \in End, EndStep(e)
    PROVE  FlightInv'
<1> SUFFICES ASSUME ~Torn' PROVE PartsGoWell' /\ RunGoesWell'
  BY DEF FlightInv
<1> DEFINE f == Peer(e)
<1> USE CallAssumption DEF Answering
<1>0. TypeOK /\ f \in End /\ f # e /\ Peer(f) = e /\ \A g \in End : g = e \/ g = f
  BY PeerIsOther DEF TypeInv
<1>1. /\ UNCHANGED <<cpc, id>>
      /\ PartsGoWell /\ RunGoesWell
      /\ ~Torn
      /\ rpc'[f] = rpc[f] /\ packet'[f] = packet[f]
  BY <1>0, EndKeeps DEF FlightInv
<1>2. \A g \in End : \A p : GoesWell(g, p)' <=> GoesWell(g, p)
  BY <1>1 DEF GoesWell
<1>3. CASE ReadFirst(e) \/ ReadInstead(e) \/ ReadRequest(e) \/ ReadResponse(e)
  <2>1. /\ Arrived(e) # <<>> /\ Take(e)
        /\ rpc[e] \in {"read", "more"}
    BY <1>3 DEF ReadFirst, ReadInstead, ReadRequest, ReadResponse
  <2>2. /\ wire'[e] = wire[e]
        /\ Len(wire[f]) \in Nat /\ Len(wire[f]) >= 1 /\ wire[f] # <<>>
        /\ Len(wire'[f]) = Len(wire[f]) - 1
        /\ \A i \in 1 .. Len(wire[f]) - 1 : wire'[f][i] = wire[f][i + 1]
        /\ Head(Arrived(e)) = wire[f][1]
    BY <1>0, <2>1, TakeFacts
  <2>3. ASSUME NEW g \in End, NEW i \in 1 .. Len(wire'[g])
        PROVE  GoesWell(g, wire[g][i].packet)'
    <3>1. PICK j \in 1 .. Len(wire[g]) : wire'[g][i] = wire[g][j]
      <4>1. CASE g = e
        BY <2>2, <4>1
      <4>2. CASE g = f
        <5>1. i \in 1 .. Len(wire[f]) - 1 /\ i + 1 \in 1 .. Len(wire[f])
          BY <2>2, <4>2
        <5> QED  BY <2>2, <4>2, <5>1
      <4> QED  BY <1>0, <4>1, <4>2
    <3> QED  BY <1>1, <3>1 DEF PartsGoWell, GoesWell
  <2>4. GoesWell(f, Head(Arrived(e)).packet)
    BY <1>0, <1>1, <2>2 DEF PartsGoWell
  <2>5. ~ReadInstead(e)
    BY <1>0, <1>1, <2>2 DEF ReadInstead, ShapeInv, Shape, BeginsWithRest, Torn
  <2>6. /\ rpc'[e] = "more" => GoesWell(f, packet[e])'
        /\ rpc'[e] \in Answering => packet'[e].type = "res" /\ GoesWell(e, packet[e])'
    <3>1. CASE ReadFirst(e)
      BY <1>0, <1>1, <2>4, <3>1 DEF ReadFirst, GotoRun, TypeOK, GoesWell
    <3>2. CASE ReadResponse(e)
      BY <1>0, <3>2 DEF ReadResponse, GotoRun, TypeOK
    <3>3. CASE ReadRequest(e)
      <4>1. GoesWell(f, packet[e]) /\ packet[e].type = "req" /\ packet[e] \in Packet
        BY <1>1, <3>3 DEF ReadRequest, RunGoesWell, TypeInv, RunHolds
      <4>2. packet'[e] = [packet[e] EXCEPT !.type = "res"] /\ rpc'[e] = "lock"
        BY <1>0, <3>3 DEF ReadRequest, GotoRun, TypeOK
      <4>3. /\ packet'[e].type = "res" /\ packet'[e].call = packet[e].call
            /\ packet'[e].id = packet[e].id
        BY <4>1, <4>2 DEF Packet
      <4> QED  BY <1>1, <4>1, <4>2, <4>3 DEF GoesWell
    <3> QED  BY <1>3, <2>5, <3>1, <3>2, <3>3
  <2>7. RunGoesWell'
    BY <1>0, <1>1, <2>6 DEF RunGoesWell, GoesWell
  <2> QED  BY <2>3, <2>7 DEF PartsGoWell
<1>4. CASE LockAnswer(e) \/ AnswerFails(e) \/ Stop(e) \/ Close(e)
  <2>1. /\ wire' = wire
        /\ rpc'[e] \in {"more"} \cup Answering =>
               /\ packet'[e] = packet[e]
               /\ rpc[e] = rpc'[e] \/ (rpc[e] = "lock" /\ rpc'[e] = "first")
    BY <1>0, <1>4 DEF LockAnswer, AnswerFails, Stop, Close, GotoRun, TypeOK, streamVars, runVars
  <2> QED  BY <1>0, <1>1, <2>1 DEF PartsGoWell, RunGoesWell, GoesWell
<1>5. CASE AnswerFirst(e) \/ AnswerSecond(e)
  <2> DEFINE n == Len(wire[e])
  <2>0. packet[e] \in Packet /\ GoesWell(e, packet[e]) /\ packet[e].type = "res"
    BY <1>1, <1>5 DEF AnswerFirst, AnswerSecond, RunGoesWell, TypeInv, RunHolds
  <2>1. /\ Len(wire'[e]) = n + 1 /\ n \in Nat
        /\ \A i \in 1 .. n : wire'[e][i] = wire[e][i]
        /\ wire'[e][n + 1].packet = packet[e]
        /\ wire'[f] = wire[f]
        /\ rpc'[e] \in {"more"} \cup Answering => packet'[e] = packet[e] /\ rpc'[e] # "more"
    <3>1. CASE AnswerFirst(e)
      <4>1. Put(e, TRUE, packet[e])
        BY <3>1 DEF AnswerFirst
      <4>2. rpc'[e] \in {"more"} \cup Answering => packet'[e] = packet[e] /\ rpc'[e] # "more"
        BY <1>0, <3>1 DEF AnswerFirst, GotoRun, TypeOK
      <4>3. TypeOK /\ packet[e] \in Packet /\ TRUE \in BOOLEAN
        BY <1>0, <2>0
      <4>4. /\ Len(wire'[e]) = n + 1 /\ n \in Nat
            /\ \A i \in 1 .. n : wire'[e][i] = wire[e][i]
            /\ wire'[e][n + 1] = [first |-> TRUE, packet |-> packet[e]]
            /\ \A g \in End : g # e => wire'[g] = wire[g]
        BY <4>1, <4>3, PutFacts
      <4>5. wire'[e][n + 1].packet = packet[e]
        BY <4>4
      <4> QED  BY <1>0, <4>2, <4>4, <4>5
    <3>2. CASE AnswerSecond(e)
      <4>1. Put(e, FALSE, packet[e])
        BY <3>2 DEF AnswerSecond
      <4>2. rpc'[e] \in {"more"} \cup Answering => packet'[e] = packet[e] /\ rpc'[e] # "more"
        BY <1>0, <3>2 DEF AnswerSecond, GotoRun, TypeOK
      <4>3. TypeOK /\ packet[e] \in Packet /\ FALSE \in BOOLEAN
        BY <1>0, <2>0
      <4>4. /\ Len(wire'[e]) = n + 1 /\ n \in Nat
            /\ \A i \in 1 .. n : wire'[e][i] = wire[e][i]
            /\ wire'[e][n + 1] = [first |-> FALSE, packet |-> packet[e]]
            /\ \A g \in End : g # e => wire'[g] = wire[g]
        BY <4>1, <4>3, PutFacts
      <4>5. wire'[e][n + 1].packet = packet[e]
        BY <4>4
      <4> QED  BY <1>0, <4>2, <4>4, <4>5
    <3> QED  BY <1>5, <3>1, <3>2
  <2>2. ASSUME NEW g \in End, NEW i \in 1 .. Len(wire'[g])
        PROVE  GoesWell(g, wire[g][i].packet)'
    <3>1. CASE g = e /\ i = n + 1
      BY <1>1, <2>0, <2>1, <3>1 DEF GoesWell
    <3>2. CASE ~(g = e /\ i = n + 1)
      <4>1. wire'[g][i] = wire[g][i] /\ i \in 1 .. Len(wire[g])
        BY <1>0, <2>1, <3>2
      <4> QED  BY <1>1, <4>1 DEF PartsGoWell, GoesWell
    <3> QED  BY <3>1, <3>2
  <2>3. PartsGoWell'
    BY <2>2 DEF PartsGoWell
  <2> QED  BY <1>0, <1>1, <2>0, <2>1, <2>3, SMTT(30) DEF RunGoesWell, GoesWell
<1> QED  BY <1>3, <1>4, <1>5 DEF EndStep, Run

-----------------------------------------------------------------------------
(***************************************************************************)
(* Each call has at most one message under way, and none once it has its    *)
(* answer.                                                                  *)
(***************************************************************************)

(* A step that puts no first part into a stream and takes up no message: the *)
(* first parts move up by d, and some may be gone.                           *)
LEMMA FewerPlaces ==
    ASSUME NEW d \in [End -> Nat],
           \A e \in End : Len(wire[e]) \in Nat /\ Len(wire'[e]) \in Nat,
           \A e \in End : \A i \in 1 .. Len(wire'[e]) :
               wire'[e][i].first =>
                   i + d[e] \in 1 .. Len(wire[e]) /\ wire'[e][i] = wire[e][i + d[e]],
           \A e \in End, k \in Call : InHand(e, k)' => InHand(e, k),
           \A k \in Call : Awaited(k) =>
               \/ Awaited(k)'
               \/ \A e \in End : /\ ~InHand(e, k)'
                                 /\ \A i \in 1 .. Len(wire[e]) : ~InStream(e, i, k),
           OnePlace, UnderWay
    PROVE  OnePlace' /\ UnderWay'
<1>1. \A e \in End : d[e] \in Nat
  OBVIOUS
<1>2. ASSUME NEW k \in Call, NEW e \in End, NEW i \in 1 .. Len(wire'[e]), InStream(e, i, k)'
      PROVE  i + d[e] \in 1 .. Len(wire[e]) /\ InStream(e, i + d[e], k) /\ i \in Nat
  BY <1>2 DEF InStream
<1>3. OnePlace'
  <2> SUFFICES ASSUME NEW k \in Call
               PROVE  /\ \A e, f \in End :
                             \A i \in 1 .. Len(wire'[e]), j \in 1 .. Len(wire'[f]) :
                                 InStream(e, i, k)' /\ InStream(f, j, k)' => e = f /\ i = j
                      /\ \A e, f \in End : \A i \in 1 .. Len(wire'[e]) :
                             ~(InStream(e, i, k)' /\ InHand(f, k)')
                      /\ \A e, f \in End : InHand(e, k)' /\ InHand(f, k)' => e = f
    BY DEF OnePlace
  <2>1. ASSUME NEW e \in End, NEW f \in End,
               NEW i \in 1 .. Len(wire'[e]), NEW j \in 1 .. Len(wire'[f]),
               InStream(e, i, k)', InStream(f, j, k)'
        PROVE  e = f /\ i = j
    <3>1. /\ i + d[e] \in 1 .. Len(wire[e]) /\ InStream(e, i + d[e], k) /\ i \in Nat
          /\ j + d[f] \in 1 .. Len(wire[f]) /\ InStream(f, j + d[f], k) /\ j \in Nat
      BY <1>2, <2>1
    <3>2. e = f /\ i + d[e] = j + d[f]
      BY <3>1 DEF OnePlace
    <3> QED  BY <1>1, <3>1, <3>2
  <2>2. ASSUME NEW e \in End, NEW f \in End, NEW i \in 1 .. Len(wire'[e]),
               InStream(e, i, k)', InHand(f, k)'
        PROVE  FALSE
    BY <1>2, <2>2 DEF OnePlace
  <2>3. \A e, f \in End : InHand(e, k)' /\ InHand(f, k)' => e = f
    BY DEF OnePlace
  <2> QED  BY <2>1, <2>2, <2>3
<1>4. UnderWay'
  <2> SUFFICES ASSUME NEW k \in Call, NEW e \in End
               PROVE  /\ \A i \in 1 .. Len(wire'[e]) : InStream(e, i, k)' => Awaited(k)'
                      /\ InHand(e, k)' => Awaited(k)'
    BY DEF UnderWay
  <2>1. ASSUME NEW i \in 1 .. Len(wire'[e]), InStream(e, i, k)' PROVE Awaited(k)'
    <3>1. i + d[e] \in 1 .. Len(wire[e]) /\ InStream(e, i + d[e], k)
      BY <1>2, <2>1
    <3>2. Awaited(k)
      BY <3>1 DEF UnderWay
    <3> QED  BY <3>1, <3>2
  <2>2. InHand(e, k)' => Awaited(k)'
    BY DEF UnderWay
  <2> QED  BY <2>1, <2>2
<1> QED  BY <1>3, <1>4

(* Streams that stay as they are, or get a second part, or lose their head,  *)
(* are instances of the above.                                               *)
LEMMA SameStreams ==
    ASSUME TypeOK, wire' = wire,
           \A e \in End, k \in Call : InHand(e, k)' => InHand(e, k),
           \A k \in Call : Awaited(k) =>
               \/ Awaited(k)'
               \/ \A e \in End : /\ ~InHand(e, k)'
                                 /\ \A i \in 1 .. Len(wire[e]) : ~InStream(e, i, k),
           OnePlace, UnderWay
    PROVE  OnePlace' /\ UnderWay'
<1> DEFINE d == [e \in End |-> 0]
<1>1. d \in [End -> Nat] /\ \A e \in End : d[e] = 0
  OBVIOUS
<1>2. \A e \in End : Len(wire[e]) \in Nat
  BY PartTypes
<1>3. \A e \in End : \A i \in 1 .. Len(wire'[e]) :
          i + d[e] \in 1 .. Len(wire[e]) /\ wire'[e][i] = wire[e][i + d[e]]
  BY <1>1, <1>2
<1> HIDE DEF d
<1> QED  BY <1>1, <1>2, <1>3, FewerPlaces

LEMMA SecondPut ==
    ASSUME TypeOK, NEW g \in End, NEW p \in Packet, Put(g, FALSE, p),
           \A e \in End, k \in Call : InHand(e, k)' => InHand(e, k),
           \A k \in Call : Awaited(k) => Awaited(k)',
           OnePlace, UnderWay
    PROVE  OnePlace' /\ UnderWay'
<1> DEFINE d == [e \in End |-> 0]
<1>1. d \in [End -> Nat] /\ \A e \in End : d[e] = 0
  OBVIOUS
<1>2. \A e \in End : Len(wire[e]) \in Nat
  BY PartTypes
<1>3. /\ Len(wire'[g]) = Len(wire[g]) + 1
      /\ \A i \in 1 .. Len(wire[g]) : wire'[g][i] = wire[g][i]
      /\ wire'[g][Len(wire[g]) + 1] = [first |-> FALSE, packet |-> p]
      /\ \A f \in End : f # g => wire'[f] = wire[f]
  BY PutFacts
<1>4. ASSUME NEW e \in End, NEW i \in 1 .. Len(wire'[e]), wire'[e][i].first
      PROVE  i + d[e] \in 1 .. Len(wire[e]) /\ wire'[e][i] = wire[e][i + d[e]]
  <2>1. ~(e = g /\ i = Len(wire[g]) + 1)
    BY <1>3, <1>4
  <2> QED  BY <1>1, <1>2, <1>3, <2>1
<1>5. \A e \in End : Len(wire'[e]) \in Nat
  BY <1>2, <1>3
<1> HIDE DEF d
<1> QED  BY <1>1, <1>2, <1>4, <1>5, FewerPlaces

LEMMA HeadTaken ==
    ASSUME TypeOK, NEW g \in End, Arrived(g) # <<>>, Take(g),
           \A e \in End, k \in Call : InHand(e, k)' => InHand(e, k),
           \A k \in Call : Awaited(k) =>
               \/ Awaited(k)'
               \/ \A e \in End : /\ ~InHand(e, k)'
                                 /\ \A i \in 1 .. Len(wire[e]) : ~InStream(e, i, k),
           OnePlace, UnderWay
    PROVE  OnePlace' /\ UnderWay'
<1> DEFINE d == [e \in End |-> IF e = g THEN 0 ELSE 1]
<1>1. d \in [End -> Nat] /\ \A e \in End : d[e] = IF e = g THEN 0 ELSE 1
  OBVIOUS
<1>2. \A e \in End : Len(wire[e]) \in Nat /\ (e = g \/ e = Peer(g))
  BY PartTypes, PeerIsOther
<1>3. /\ Len(wire[Peer(g)]) >= 1 /\ Peer(g) \in End /\ Peer(g) # g
      /\ Len(wire'[Peer(g)]) = Len(wire[Peer(g)]) - 1
      /\ \A i \in 1 .. Len(wire[Peer(g)]) - 1 : wire'[Peer(g)][i] = wire[Peer(g)][i + 1]
      /\ wire'[g] = wire[g]
  BY TakeFacts, PeerIsOther
<1>4. ASSUME NEW e \in End, NEW i \in 1 .. Len(wire'[e])
      PROVE  i + d[e] \in 1 .. Len(wire[e]) /\ wire'[e][i] = wire[e][i + d[e]]
  <2>1. CASE e = g
    BY <1>1, <1>2, <1>3, <2>1
  <2>2. CASE e = Peer(g)
    <3>1. d[e] = 1 /\ i \in 1 .. Len(wire[e]) - 1 /\ i \in Nat /\ i + 1 \in 1 .. Len(wire[e])
      BY <1>1, <1>2, <1>3, <2>2
    <3> QED  BY <1>3, <2>2, <3>1
  <2> QED  BY <1>2, <2>1, <2>2
<1>5. \A e \in End : Len(wire'[e]) \in Nat
  BY <1>2, <1>3
<1> HIDE DEF d
<1> QED  BY <1>1, <1>2, <1>4, <1>5, FewerPlaces

(* A first part is written of a message that was nowhere, or in the hands of *)
(* its writer.                                                               *)
LEMMA FirstPut ==
    ASSUME TypeOK, NEW g \in End, NEW p \in Packet, Put(g, TRUE, p), p.call \in Call,
           \A e \in End : \A i \in 1 .. Len(wire[e]) : ~InStream(e, i, p.call),
           \A e \in End : ~InHand(e, p.call)',
           \A e \in End, k \in Call : InHand(e, k)' => InHand(e, k),
           \A k \in Call : Awaited(k) => Awaited(k)',
           Awaited(p.call)', OnePlace, UnderWay
    PROVE  OnePlace' /\ UnderWay'
<1> DEFINE n == Len(wire[g])
<1>1. \A e \in End : Len(wire[e]) \in Nat
  BY PartTypes
<1>2. /\ Len(wire'[g]) = n + 1
      /\ \A i \in 1 .. n : wire'[g][i] = wire[g][i]
      /\ wire'[g][n + 1] = [first |-> TRUE, packet |-> p]
      /\ \A f \in End : f # g => wire'[f] = wire[f]
  BY PutFacts
<1>3. ASSUME NEW k \in Call, NEW e \in End, NEW i \in 1 .. Len(wire'[e]), InStream(e, i, k)'
      PROVE  \/ i \in 1 .. Len(wire[e]) /\ InStream(e, i, k) /\ k # p.call
             \/ e = g /\ i = n + 1 /\ k = p.call
  <2>1. CASE e = g /\ i = n + 1
    BY <1>2, <1>3, <2>1 DEF InStream
  <2>2. CASE ~(e = g /\ i = n + 1)
    <3>1. i \in 1 .. Len(wire[e]) /\ wire'[e][i] = wire[e][i]
      BY <1>1, <1>2, <2>2
    <3>2. InStream(e, i, k)
      BY <1>3, <3>1 DEF InStream
    <3> QED  BY <3>1, <3>2
  <2> QED  BY <2>1, <2>2
<1> HIDE DEF n
<1>4. OnePlace'
  <2> SUFFICES ASSUME NEW k \in Call
               PROVE  /\ \A e, f \in End :
                             \A i \in 1 .. Len(wire'[e]), j \in 1 .. Len(wire'[f]) :
                                 InStream(e, i, k)' /\ InStream(f, j, k)' => e = f /\ i = j
                      /\ \A e, f \in End : \A i \in 1 .. Len(wire'[e]) :
                             ~(InStream(e, i, k)' /\ InHand(f, k)')
                      /\ \A e, f \in End : InHand(e, k)' /\ InHand(f, k)' => e = f
    BY DEF OnePlace
  <2>1. ASSUME NEW e \in End, NEW f \in End,
               NEW i \in 1 .. Len(wire'[e]), NEW j \in 1 .. Len(wire'[f]),
               InStream(e, i, k)', InStream(f, j, k)'
        PROVE  e = f /\ i = j
    <3>1. CASE k = p.call
      BY <1>3, <2>1, <3>1
    <3>2. CASE k # p.call
      <4>1. /\ i \in 1 .. Len(wire[e]) /\ InStream(e, i, k)
            /\ j \in 1 .. Len(wire[f]) /\ InStream(f, j, k)
        BY <1>3, <2>1, <3>2
      <4> QED  BY <4>1 DEF OnePlace
    <3> QED  BY <3>1, <3>2
  <2>2. ASSUME NEW e \in End, NEW f \in End, NEW i \in 1 .. Len(wire'[e]),
               InStream(e, i, k)', InHand(f, k)'
        PROVE  FALSE
    <3>1. k # p.call
      BY <2>2
    <3>2. i \in 1 .. Len(wire[e]) /\ InStream(e, i, k)
      BY <1>3, <2>2, <3>1
    <3> QED  BY <2>2, <3>2 DEF OnePlace
  <2>3. \A e, f \in End : InHand(e, k)' /\ InHand(f, k)' => e = f
    BY DEF OnePlace
  <2> QED  BY <2>1, <2>2, <2>3
<1>5. UnderWay'
  <2> SUFFICES ASSUME NEW k \in Call, NEW e \in End
               PROVE  /\ \A i \in 1 .. Len(wire'[e]) : InStream(e, i, k)' => Awaited(k)'
                      /\ InHand(e, k)' => Awaited(k)'
    BY DEF UnderWay
  <2>1. ASSUME NEW i \in 1 .. Len(wire'[e]), InStream(e, i, k)' PROVE Awaited(k)'
    <3>1. CASE k = p.call
      BY <3>1
    <3>2. CASE k # p.call
      <4>1. i \in 1 .. Len(wire[e]) /\ InStream(e, i, k)
        BY <1>3, <2>1, <3>2
      <4> QED  BY <4>1 DEF UnderWay
    <3> QED  BY <3>1, <3>2
  <2>2. InHand(e, k)' => Awaited(k)'
    BY DEF UnderWay
  <2> QED  BY <2>1, <2>2
<1> QED  BY <1>4, <1>5

(* Run takes a message from the stream into its hands.                       *)
LEMMA TakenUp ==
    ASSUME TypeOK, NEW g \in End, Arrived(g) # <<>>, Take(g),
           Head(Arrived(g)).first,
           \A k \in Call : ~InHand(g, k),
           packet'[g] = Head(Arrived(g)).packet,
           \A e \in End, k \in Call : e # g => (InHand(e, k)' <=> InHand(e, k)),
           \A k \in Call : Awaited(k) => Awaited(k)',
           OnePlace, UnderWay
    PROVE  OnePlace' /\ UnderWay'
<1> DEFINE f == Peer(g)
<1> DEFINE c == wire[f][1].packet.call
<1>1. \A e \in End : Len(wire[e]) \in Nat /\ (e = g \/ e = f)
  BY PartTypes, PeerIsOther
<1>2. /\ Len(wire[f]) >= 1 /\ f \in End /\ f # g
      /\ Len(wire'[f]) = Len(wire[f]) - 1
      /\ \A i \in 1 .. Len(wire[f]) - 1 : wire'[f][i] = wire[f][i + 1]
      /\ wire'[g] = wire[g]
      /\ Head(Arrived(g)) = wire[f][1]
  BY TakeFacts, PeerIsOther
<1>3. \A k \in Call : InHand(g, k)' => k = c
  BY <1>2 DEF InHand
<1>4. 1 \in 1 .. Len(wire[f]) /\ InStream(f, 1, c)
  BY <1>1, <1>2 DEF InStream
<1> HIDE DEF f, c
<1>5. ASSUME NEW k \in Call, NEW e \in End, NEW i \in 1 .. Len(wire'[e]), InStream(e, i, k)'
      PROVE  /\ k # c
             /\ \/ e = g /\ i \in 1 .. Len(wire[g]) /\ InStream(g, i, k)
                \/ e = f /\ i + 1 \in 1 .. Len(wire[f]) /\ InStream(f, i + 1, k)
  <2>1. CASE e = g
    <3>1. i \in 1 .. Len(wire[g]) /\ InStream(g, i, k)
      BY <1>2, <1>5, <2>1 DEF InStream
    <3>2. k # c
      BY <1>2, <1>4, <3>1 DEF OnePlace
    <3> QED  BY <2>1, <3>1, <3>2
  <2>2. CASE e = f
    <3>1. i \in 1 .. Len(wire[f]) - 1 /\ i \in Nat /\ i + 1 \in 1 .. Len(wire[f]) /\ i + 1 # 1
      BY <1>1, <1>2, <2>2
    <3>2. InStream(f, i + 1, k)
      BY <1>2, <1>5, <2>2, <3>1 DEF InStream
    <3>3. k # c
      BY <1>2, <1>4, <3>1, <3>2 DEF OnePlace
    <3> QED  BY <2>2, <3>1, <3>2, <3>3
  <2> QED  BY <1>1, <2>1, <2>2
<1>6. OnePlace'
  <2> SUFFICES ASSUME NEW k \in Call
               PROVE  /\ \A e, h \in End :
                             \A i \in 1 .. Len(wire'[e]), j \in 1 .. Len(wire'[h]) :
                                 InStream(e, i, k)' /\ InStream(h, j, k)' => e = h /\ i = j
                      /\ \A e, h \in End : \A i \in 1 .. Len(wire'[e]) :
                             ~(InStream(e, i, k)' /\ InHand(h, k)')
                      /\ \A e, h \in End : InHand(e, k)' /\ InHand(h, k)' => e = h
    BY DEF OnePlace
  <2>1. ASSUME NEW e \in End, NEW h \in End,
               NEW i \in 1 .. Len(wire'[e]), NEW j \in 1 .. Len(wire'[h]),
               InStream(e, i, k)', InStream(h, j, k)'
        PROVE  e = h /\ i = j
    <3>1. /\ \/ e = g /\ i \in 1 .. Len(wire[g]) /\ InStream(g, i, k)
             \/ e = f /\ i + 1 \in 1 .. Len(wire[f]) /\ InStream(f, i + 1, k)
          /\ \/ h = g /\ j \in 1 .. Len(wire[g]) /\ InStream(g, j, k)
             \/ h = f /\ j + 1 \in 1 .. Len(wire[f]) /\ InStream(f, j + 1, k)
      BY <1>5, <2>1
    <3>2. CASE e = g /\ h = g
      BY <1>2, <3>1, <3>2 DEF OnePlace
    <3>3. CASE e = f /\ h = f
      <4>1. i + 1 = j + 1
        BY <1>2, <3>1, <3>3 DEF OnePlace
      <4> QED  BY <3>3, <4>1
    <3>4. CASE (e = g /\ h = f) \/ (e = f /\ h = g)
      BY <1>2, <3>1, <3>4 DEF OnePlace
    <3> QED  BY <1>1, <3>2, <3>3, <3>4
  <2>2. ASSUME NEW e \in End, NEW h \in End, NEW i \in 1 .. Len(wire'[e]),
               InStream(e, i, k)', InHand(h, k)'
        PROVE  FALSE
    <3>1. h # g
      BY <1>3, <1>5, <2>2
    <3>2. InHand(h, k)
      BY <2>2, <3>1
    <3> QED  BY <1>2, <1>5, <2>2, <3>2 DEF OnePlace
  <2>3. ASSUME NEW e \in End, NEW h \in End, InHand(e, k)', InHand(h, k)' PROVE e = h
    <3>1. e # g => InHand(e, k)
      BY <2>3
    <3>2. h # g => InHand(h, k)
      BY <2>3
    <3>3. e = g \/ h = g => k = c
      BY <1>3, <2>3
    <3> QED  BY <1>2, <1>4, <3>1, <3>2, <3>3 DEF OnePlace
  <2> QED  BY <2>1, <2>2, <2>3
<1>7. UnderWay'
  <2> SUFFICES ASSUME NEW k \in Call, NEW e \in End
               PROVE  /\ \A i \in 1 .. Len(wire'[e]) : InStream(e, i, k)' => Awaited(k)'
                      /\ InHand(e, k)' => Awaited(k)'
    BY DEF UnderWay
  <2>1. ASSUME NEW i \in 1 .. Len(wire'[e]), InStream(e, i, k)' PROVE Awaited(k)'
    BY <1>2, <1>5, <2>1 DEF UnderWay
  <2>2. ASSUME InHand(e, k)' PROVE Awaited(k)'
    <3>1. CASE e = g
      BY <1>2, <1>3, <1>4, <2>2, <3>1 DEF UnderWay
    <3>2. CASE e # g
      BY <2>2, <3>2 DEF UnderWay
    <3> QED  BY <3>1, <3>2
  <2> QED  BY <2>1, <2>2
<1> QED  BY <1>6, <1>7

LEMMA CallAnswer ==
    ASSUME TypeInv, EntryInv, AnswerInv, NEW k \in Call, CallStep(k)
    PROVE  AnswerInv'
<1> SUFFICES ASSUME ~Torn', ~reused'
             PROVE  OnePlace' /\ UnderWay' /\ NotTooEarly' /\ ResultMatches'
  BY DEF AnswerInv
<1> USE CallAssumption
<1>0. TypeOK
  BY DEF TypeInv
<1>1. /\ ~Torn /\ ~reused /\ UNCHANGED <<rpc, packet, result>>
      /\ \A c \in Call : c # k => cpc'[c] = cpc[c]
  BY <1>0, CallKeeps
<1>2. OnePlace /\ UnderWay /\ NotTooEarly /\ \A c \in Call : result[c] \in {c, None}
  BY <1>1 DEF AnswerInv, ResultMatches
<1>3. ResultMatches'
  BY <1>1, <1>2 DEF ResultMatches
<1>4. \A e \in End, c \in Call : InHand(e, c)' <=> InHand(e, c)
  BY <1>1 DEF InHand
<1>5. \A c \in Call : c # k => (Awaited(c)' <=> Awaited(c))
  BY <1>1 DEF Awaited
<1>6. ASSUME ~Awaited(k)
      PROVE  \A e \in End : /\ ~InHand(e, k)
                            /\ \A i \in 1 .. Len(wire[e]) : ~InStream(e, i, k)
  BY <1>2, <1>6 DEF UnderWay
<1>7. CASE WriteFirst(k)
  <2>1. Put(From[k], TRUE, Request(k)) /\ cpc[k] = "first" /\ cpc'[k] = "second"
    BY <1>0, <1>7 DEF WriteFirst, GotoCall, TypeOK
  <2>2. ~Awaited(k) /\ Awaited(k)'
    BY <1>1, <1>2, <2>1 DEF Awaited, NotTooEarly
  <2>3. PICK p \in Packet : p = Request(k)
    BY <1>0, RequestType
  <2>4. p.call = k /\ From[k] \in End /\ Put(From[k], TRUE, p)
    BY <2>1, <2>3 DEF Request
  <2>5. \A e \in End : ~InHand(e, p.call)' /\ Awaited(p.call)'
    BY <1>4, <1>6, <2>2, <2>4
  <2>6. OnePlace' /\ UnderWay'
    BY <1>0, <1>2, <1>4, <1>5, <1>6, <2>2, <2>4, <2>5, FirstPut
  <2>7. NotTooEarly'
    BY <1>1, <1>2, <2>1 DEF NotTooEarly
  <2> QED  BY <1>3, <2>6, <2>7
<1>8. CASE WriteSecond(k)
  <2>1. Put(From[k], FALSE, Request(k)) /\ cpc[k] = "second" /\ cpc'[k] = "wait"
    BY <1>0, <1>8 DEF WriteSecond, GotoCall, TypeOK
  <2>2. Awaited(k) => Awaited(k)'
    BY <1>1, <2>1 DEF Awaited
  <2>3. Request(k) \in Packet /\ From[k] \in End
    BY <1>0, RequestType
  <2>4. OnePlace' /\ UnderWay'
    BY <1>0, <1>2, <1>4, <1>5, <2>1, <2>2, <2>3, SecondPut
  <2>5. NotTooEarly'
    BY <1>1, <1>2, <2>1 DEF NotTooEarly
  <2> QED  BY <1>3, <2>4, <2>5
<1>9. CASE ~WriteFirst(k) /\ ~WriteSecond(k)
  <2>1. wire' = wire
    BY <1>9 DEF CallStep, sendRequest, NewId, InsertEntry, LockRequest, SendFails,
         DeleteEntry, Returns, Cancel, streamVars
  <2>2. \/ cpc[k] \in {"new", "insert", "lock", "first", "undo"}
        \/ cpc[k] = "wait" /\ (result[k] # None \/ cpc'[k] = "cancelled")
    <3>1. CASE SendFails(k)
      <4>1. cpc[k] # "second"
        BY <1>0, <3>1 DEF SendFails, Torn, TypeOK
      <4> QED  BY <3>1, <4>1 DEF SendFails
    <3>2. CASE ~SendFails(k)
      BY <1>0, <1>9, <3>2 DEF CallStep, sendRequest, NewId, InsertEntry, LockRequest,
           DeleteEntry, Returns, Cancel, GotoCall, TypeOK
    <3> QED  BY <3>1, <3>2
  <2>3. ~Awaited(k) \/ Awaited(k)'
    BY <1>1, <2>2 DEF Awaited
  <2>4. OnePlace' /\ UnderWay'
    BY <1>0, <1>2, <1>4, <1>5, <2>1, <2>3, SameStreams
  <2>5. cpc'[k] \in {"lock", "first"} => cpc[k] \in {"insert", "lock"}
    BY <1>0, <1>9 DEF CallStep, sendRequest, NewId, InsertEntry, LockRequest, SendFails,
         DeleteEntry, Returns, Cancel, GotoCall, TypeOK
  <2>6. NotTooEarly'
    BY <1>1, <1>2, <2>5 DEF NotTooEarly, EntryInv, ResultLate
  <2> QED  BY <1>3, <2>4, <2>6
<1> QED  BY <1>7, <1>8, <1>9

(* The answer that Run reads is that of the call whose entry it finds.       *)
LEMMA RightEntry ==
    ASSUME TypeInv, EntryInv, FlightInv, AnswerInv, ~Torn, ~reused,
           NEW e \in End, ReadResponse(e)
    PROVE  LET c == packet[e].call
           IN  /\ c \in Call /\ InHand(e, c) /\ Awaited(c)
               /\ activeOutRequests[e][packet[e].id] = c
<1> DEFINE c == packet[e].call
<1>1. rpc[e] = "more" /\ packet[e].type = "res"
  BY DEF ReadResponse
<1>2. GoesWell(Peer(e), packet[e]) /\ Peer(Peer(e)) = e
  BY <1>1, PeerIsOther DEF FlightInv, RunGoesWell
<1>3. c \in Call /\ From[c] = e /\ packet[e].id = id[c]
  BY <1>1, <1>2 DEF GoesWell
<1>4. InHand(e, c)
  BY <1>1 DEF InHand
<1>5. Awaited(c)
  BY <1>3, <1>4 DEF AnswerInv, UnderWay
<1>6. activeOutRequests[e][id[c]] = c
  BY <1>3, <1>5 DEF EntryInv, EntryKept, Live, Awaited
<1> QED  BY <1>3, <1>4, <1>5, <1>6

LEMMA EndAnswer ==
    ASSUME TypeInv, EntryInv, ShapeInv, FlightInv, AnswerInv, NEW e \in End, EndStep(e)
    PROVE  AnswerInv'
<1> SUFFICES ASSUME ~Torn', ~reused'
             PROVE  OnePlace' /\ UnderWay' /\ NotTooEarly' /\ ResultMatches'
  BY DEF AnswerInv
<1> USE CallAssumption
<1>0. TypeOK /\ Peer(e) \in End /\ Peer(Peer(e)) = e
  BY PeerIsOther DEF TypeInv
<1>1. /\ ~Torn /\ ~reused /\ UNCHANGED cpc
      /\ \A f \in End : f # e => rpc'[f] = rpc[f] /\ packet'[f] = packet[f]
  BY <1>0, EndKeeps
<1>2. OnePlace /\ UnderWay /\ NotTooEarly /\ \A c \in Call : result[c] \in {c, None}
  BY <1>1 DEF AnswerInv, ResultMatches
<1>3. \A f \in End, c \in Call : f # e => (InHand(f, c)' <=> InHand(f, c))
  BY <1>1 DEF InHand
<1>4. CASE ReadResponse(e)
  <2>0. PICK c \in Call : c = packet[e].call
    BY <1>1, <1>4, RightEntry
  <2>1. /\ InHand(e, c) /\ Awaited(c)
        /\ activeOutRequests[e][packet[e].id] = c
    BY <1>1, <1>4, <2>0, RightEntry
  <2>2. /\ result' = [result EXCEPT ![c] = c] /\ rpc' = [rpc EXCEPT ![e] = "read"]
        /\ Arrived(e) # <<>> /\ Take(e)
    BY <1>4, <2>0, <2>1 DEF ReadResponse, GotoRun
  <2>3. result'[c] = c /\ \A k \in Call : k # c => result'[k] = result[k]
    BY <1>0, <2>1, <2>2 DEF TypeOK
  <2>4. rpc'[e] = "read"
    BY <1>0, <2>2 DEF TypeOK
  <2>5. \A f \in End, k \in Call : InHand(f, k)' => InHand(f, k)
    BY <1>3, <2>4 DEF InHand
  <2>6. \A k \in Call : k # c => (Awaited(k) => Awaited(k)')
    BY <1>1, <2>3 DEF Awaited
  <2>7. \A f \in End : ~InHand(f, c)' /\ \A i \in 1 .. Len(wire[f]) : ~InStream(f, i, c)
    <3>1. \A f \in End : ~InHand(f, c)'
      BY <1>2, <1>3, <2>1, <2>4 DEF InHand, OnePlace
    <3> QED  BY <1>2, <2>1, <3>1 DEF OnePlace
  <2>8. OnePlace' /\ UnderWay'
    BY <1>0, <1>2, <2>2, <2>5, <2>6, <2>7, HeadTaken
  <2>9. NotTooEarly'
    BY <1>1, <1>2, <2>1, <2>3 DEF NotTooEarly, Awaited
  <2>10. ResultMatches'
    BY <1>2, <2>1, <2>3 DEF ResultMatches
  <2> QED  BY <2>8, <2>9, <2>10
<1>5. CASE ~ReadResponse(e)
  <2>1. UNCHANGED result
    BY <1>5 DEF EndStep, Run, ReadFirst, ReadInstead, ReadRequest, LockAnswer, AnswerFirst,
         AnswerSecond, AnswerFails, Stop, Close, callVars
  <2>2. ResultMatches' /\ NotTooEarly'
    BY <1>1, <1>2, <2>1 DEF ResultMatches, NotTooEarly
  <2>3. \A k \in Call : Awaited(k) => Awaited(k)'
    BY <1>1, <2>1 DEF Awaited
  <2>4. CASE ReadFirst(e)
    <3>1. /\ Arrived(e) # <<>> /\ Take(e) /\ rpc[e] = "read"
          /\ packet'[e] = Head(Arrived(e)).packet
      BY <1>0, <2>4 DEF ReadFirst, TypeOK
    <3>2. Head(Arrived(e)) = wire[Peer(e)][1] /\ wire[Peer(e)] # <<>>
      BY <1>0, <3>1, TakeFacts
    <3>3. Head(Arrived(e)).first
      BY <1>0, <1>1, <3>1, <3>2 DEF ShapeInv, Shape, BeginsWithRest, Torn
    <3>4. \A k \in Call : ~InHand(e, k)
      BY <3>1 DEF InHand
    <3>5. OnePlace' /\ UnderWay'
      BY <1>0, <1>2, <1>3, <2>3, <3>1, <3>3, <3>4, TakenUp
    <3> QED  BY <2>2, <3>5
  <2>5. CASE ReadInstead(e)
    <3>1. /\ Arrived(e) # <<>> /\ Take(e) /\ rpc[e] = "more" /\ Head(Arrived(e)).first
      BY <2>5 DEF ReadInstead
    <3>2. Head(Arrived(e)) = wire[Peer(e)][1] /\ wire[Peer(e)] # <<>>
      BY <1>0, <3>1, TakeFacts
    <3> QED  BY <1>0, <1>1, <3>1, <3>2 DEF ShapeInv, Shape, BeginsWithRest, Torn
  <2>6. CASE ReadRequest(e)
    <3>1. /\ Arrived(e) # <<>> /\ Take(e) /\ rpc[e] = "more"
          /\ packet' = [packet EXCEPT ![e].type = "res"]
      BY <2>6 DEF ReadRequest
    <3>2. packet[e] \in Packet
      BY <3>1 DEF TypeInv, RunHolds
    <3>3. packet'[e] = [packet[e] EXCEPT !.type = "res"]
      BY <1>0, <3>1 DEF TypeOK
    <3>4. packet'[e].call = packet[e].call
      BY <3>2, <3>3 DEF Packet
    <3>5. \A f \in End, k \in Call : InHand(f, k)' => InHand(f, k)
      BY <1>3, <3>1, <3>4 DEF InHand
    <3>6. OnePlace' /\ UnderWay'
      BY <1>0, <1>2, <2>3, <3>1, <3>5, HeadTaken
    <3> QED  BY <2>2, <3>6
  <2>7. CASE LockAnswer(e) \/ AnswerFails(e) \/ Stop(e) \/ Close(e)
    <3>1. /\ wire' = wire
          /\ rpc'[e] \in {"more", "lock", "first"} =>
                 rpc[e] \in {"more", "lock", "first"} /\ packet'[e] = packet[e]
      BY <1>0, <2>7 DEF LockAnswer, AnswerFails, Stop, Close, GotoRun, TypeOK, streamVars, runVars
    <3>2. \A f \in End, k \in Call : InHand(f, k)' => InHand(f, k)
      BY <1>3, <3>1 DEF InHand
    <3>3. OnePlace' /\ UnderWay'
      BY <1>0, <1>2, <2>3, <3>1, <3>2, SameStreams
    <3> QED  BY <2>2, <3>3
  <2>8. CASE AnswerFirst(e)
    <3>1. /\ Put(e, TRUE, packet[e]) /\ rpc[e] = "first" /\ rpc'[e] = "second"
      BY <1>0, <2>8 DEF AnswerFirst, GotoRun, TypeOK
    <3>2. packet[e] \in Packet /\ packet[e].call \in Call /\ InHand(e, packet[e].call)
      BY <1>1, <3>1 DEF TypeInv, RunHolds, Answering, FlightInv, RunGoesWell, GoesWell, InHand
    <3>3. \A f \in End : \A i \in 1 .. Len(wire[f]) : ~InStream(f, i, packet[e].call)
      BY <1>2, <3>2 DEF OnePlace
    <3>4. \A f \in End, k \in Call : InHand(f, k)' => InHand(f, k) /\ f # e
      BY <1>3, <3>1 DEF InHand
    <3>5. Awaited(packet[e].call) /\ \A f \in End : InHand(f, packet[e].call) => f = e
      BY <1>2, <3>2 DEF UnderWay, OnePlace
    <3>6. PICK p \in Packet : p = packet[e]
      BY <3>2
    <3>7. \A f \in End : ~InHand(f, p.call)'
      BY <3>2, <3>4, <3>5, <3>6
    <3>8. Awaited(p.call)'
      BY <2>3, <3>2, <3>5, <3>6
    <3>9. OnePlace' /\ UnderWay'
      BY <1>0, <1>2, <2>3, <3>1, <3>2, <3>3, <3>4, <3>6, <3>7, <3>8, FirstPut
    <3> QED  BY <2>2, <3>9
  <2>9. CASE AnswerSecond(e)
    <3>1. Put(e, FALSE, packet[e]) /\ rpc[e] = "second" /\ rpc'[e] = "read"
      BY <1>0, <2>9 DEF AnswerSecond, GotoRun, TypeOK
    <3>2. packet[e] \in Packet
      BY <3>1 DEF TypeInv, RunHolds, Answering
    <3>3. \A f \in End, k \in Call : InHand(f, k)' => InHand(f, k)
      BY <1>3, <3>1 DEF InHand
    <3>4. OnePlace' /\ UnderWay'
      BY <1>0, <1>2, <2>3, <3>1, <3>2, <3>3, SecondPut
    <3> QED  BY <2>2, <3>4
  <2> QED
    BY <1>5, <2>4, <2>5, <2>6, <2>7, <2>8, <2>9 DEF EndStep, Run
<1> QED  BY <1>4, <1>5

(* All of it together.                                                       *)
ConnectionInv == TypeInv /\ EntryInv /\ ShapeInv /\ FlightInv /\ AnswerInv

LEMMA StepConnection == ConnectionInv /\ [Next]_vars => ConnectionInv'
<1> SUFFICES ASSUME ConnectionInv, [Next]_vars PROVE ConnectionInv'
  OBVIOUS
<1>1. TypeInv' /\ EntryInv' /\ ShapeInv'
  BY StepType, StepEntry, StepShape DEF ConnectionInv
<1>2. FlightInv' /\ AnswerInv'
  <2>1. CASE UNCHANGED vars
    BY <2>1, SMTT(30) DEF vars, streamVars, tableVars, callVars, runVars, ConnectionInv, FlightInv,
         AnswerInv, PartsGoWell, RunGoesWell, GoesWell, OnePlace, UnderWay, InStream, InHand,
         Awaited, NotTooEarly, ResultMatches, Torn
  <2>2. ASSUME NEW k \in Call, CallStep(k) PROVE FlightInv' /\ AnswerInv'
    BY <2>2, CallFlight, CallAnswer DEF ConnectionInv
  <2>3. ASSUME NEW e \in End, EndStep(e) PROVE FlightInv' /\ AnswerInv'
    BY <2>3, EndFlight, EndAnswer DEF ConnectionInv
  <2> QED  BY <2>1, <2>2, <2>3 DEF Next, CallStep, EndStep
<1> QED  BY <1>1, <1>2 DEF ConnectionInv

(* A call is given the answer to itself, whatever the interleaving of calls, *)
(* cancellations, answers of both ends and the end of the connection         *)
(* (handleIncomingResponse, connection.go:340-356), as long as the counter   *)
(* has not come round to an ID in use and no message was left half written.  *)
THEOREM AnswersReachTheirCalls == Spec => []ResultMatches
<1>1. ConnectionInv => ResultMatches
  BY DEF ConnectionInv, AnswerInv, ResultMatches
<1>2. Init => ConnectionInv
  BY InitType, InitEntry, InitShape, InitFlight DEF ConnectionInv
<1> QED  BY <1>1, <1>2, StepConnection, PTL DEF Spec

=============================================================================
