------------------------- MODULE NetworkApiProofs -------------------------
(***************************************************************************)
(* The network API, for any number of callers, sockets, identifiers and     *)
(* datagrams: no socket is lost, no packet is mixed up, no byte is read     *)
(* twice.                                                                   *)
(***************************************************************************)
EXTENDS NetworkApi, FiniteSetTheorems, SequenceTheorems, WellFoundedInduction, TLAPS

(* What a worker holds at each step, beyond the types.                       *)
HeldInv ==
    /\ \A w \in Worker :
           /\ pc[w] \in {"store", "accept", "deadline", "read", "write", "close"} =>
                  hand[w] \in Handle
           /\ pc[w] = "keep" => buf[w] \in Seq(Byte)
           /\ pc[w] = "append" => buf[w] \in Seq(Worker)

TypeInv == TypeOK /\ HeldInv

(* The steps of a worker.                                                    *)
WorkerStep(w) == Tcp(w) \/ Udp(w) \/ Accepted(w) \/ Running(w)

LEMMA ZeroIsId == 0 \in Id
<1>1. Cardinality(Handle) \in Nat
  BY IdModAssumption, FS_CardinalityType
<1> QED  BY <1>1, IdModAssumption DEF Id

LEMMA InSequence ==
    ASSUME NEW S, NEW q \in Seq(S), NEW l \in DOMAIN q
    PROVE  q[l] \in S
  OBVIOUS

(* Taking the first element of a queue.                                      *)
LEMMA TakeFromQueue ==
    ASSUME NEW S, NEW q \in Seq(S), q # <<>>
    PROVE  /\ Len(q) \in Nat /\ Len(q) >= 1
           /\ Head(q) = q[1] /\ Head(q) \in S
           /\ Tail(q) \in Seq(S) /\ Len(Tail(q)) = Len(q) - 1
           /\ \A j \in 1 .. Len(q) - 1 : Tail(q)[j] = q[j + 1]
<1>1. Len(q) \in Nat /\ Len(q) >= 1
  OBVIOUS
<1> QED  BY <1>1

LEMMA NetworkInit == Init => TypeInv
<1> SUFFICES ASSUME Init PROVE TypeInv
  OBVIOUS
<1>1. /\ opens \in 0 .. MaxOpens /\ arrived \in 0 .. MaxPackets
      /\ pieces \in [Id -> Nat] /\ id \in [Worker -> Id] /\ nextConnectionID \in Id
  BY ZeroIsId, BoundAssumption DEF Init
<1>2. /\ inbox \in [Handle -> Seq(1 .. MaxPackets)]
      /\ udpReadBuffers \in [Id -> Seq(Byte)]
  BY DEF Init
<1>3. /\ kind \in [Handle -> {"conn", "listener", "udp"}]
      /\ open \in [Handle -> BOOLEAN]
      /\ timed \in [Handle -> BOOLEAN]
      /\ pc \in [Worker -> Steps]
      /\ wrapped \in BOOLEAN /\ crashed \in BOOLEAN
  BY DEF Init, Steps
<1>4. TypeOK
  BY <1>1, <1>2, <1>3 DEF Init, TypeOK
<1>5. HeldInv
  BY DEF Init, HeldInv
<1> QED  BY <1>4, <1>5 DEF TypeInv

(* A handler that is done holds nothing.                                     *)
LEMMA ForgetTypes ==
    ASSUME TypeInv, NEW w \in Worker, Forget(w)
    PROVE  /\ pc' \in [Worker -> Steps]
           /\ id' \in [Worker -> Id]
           /\ hand' \in [Worker -> Handle \cup {None}]
           /\ buf' \in [Worker -> Seq(Worker) \cup Seq(Byte) \cup {None}]
           /\ to' \in [Worker -> Worker \cup {None}]
           /\ HeldInv'
<1>1. 0 \in Id
  BY ZeroIsId
<1> QED  BY <1>1 DEF TypeInv, TypeOK, HeldInv, Forget, Goto, Steps

LEMMA NewSocketTypes ==
    ASSUME TypeInv, NEW w \in Worker, NEW k \in {"conn", "listener", "udp"},
           NewSocket(w, k), UNCHANGED <<crashed, mix>>
    PROVE  TypeInv'
<1> USE DEF TypeInv, TypeOK
<1>1. PICK h \in Handle :
           /\ kind' = [kind EXCEPT ![h] = k]
           /\ open' = [open EXCEPT ![h] = TRUE]
           /\ timed' = [timed EXCEPT ![h] = FALSE]
           /\ inbox' = [inbox EXCEPT ![h] = <<>>]
           /\ hand' = [hand EXCEPT ![w] = h]
  BY DEF NewSocket
<1>2. UNCHANGED <<arrived, tableVars, idVars, packetVars, readVars, id, buf, to, readers>>
      /\ opens' = opens + 1 /\ opens < MaxOpens /\ pc' = [pc EXCEPT ![w] = "store"]
  BY DEF NewSocket, Goto
<1>3. HeldInv'
  BY <1>1, <1>2 DEF HeldInv
<1>4. opens' \in 0 .. MaxOpens
  BY <1>2, BoundAssumption
<1> QED
  BY <1>1, <1>2, <1>3, <1>4 DEF tableVars, idVars, packetVars, readVars, Steps

LEMMA LookupTypes ==
    ASSUME TypeInv, NEW w \in Worker, NEW table \in [Id -> Handle \cup {None}],
           NEW i \in Id, NEW step \in Steps \ {"keep", "append"}, Lookup(w, table, i, step)
    PROVE  /\ pc' \in [Worker -> Steps]
           /\ id' \in [Worker -> Id]
           /\ hand' \in [Worker -> Handle \cup {None}]
           /\ buf' = buf => HeldInv'
  BY DEF TypeInv, TypeOK, HeldInv, Lookup, Goto

(* What takeLockAndGenerateNextID finds is an identifier, and a new one as   *)
(* long as the counter does not wrap.                                        *)
LEMMA CandidateIsId ==
    ASSUME NEW n \in Id, NEW k \in 1 .. IdMod
    PROVE  /\ (n + k) % IdMod \in Id
           /\ n + k < IdMod => (n + k) % IdMod = n + k
<1>1. IdMod \in Nat /\ IdMod > 0
  BY ZeroIsId, IdModAssumption DEF Id
<1> QED  BY <1>1 DEF Id

LEMMA WorkerTypes ==
    ASSUME TypeInv, NEW w \in Worker, WorkerStep(w), UNCHANGED <<crashed, mix>>
    PROVE  TypeInv'
<1> USE DEF TypeInv
<1>0. TypeOK
  OBVIOUS
<1>1. CASE tcpConnect(w) \/ tcpConnectSSL(w) \/ tcpListen(w) \/ udpConnect(w) \/ Accepted(w)
  BY <1>1, NewSocketTypes DEF tcpConnect, tcpConnectSSL, tcpListen, udpConnect, Accepted
<1>2. CASE tcpAccept(w) \/ tcpRead(w) \/ tcpWrite(w) \/ udpAwaitPacket(w)
  <2>1. /\ UNCHANGED <<osVars, tableVars, idVars, packetVars, readVars, buf, to, readers>>
        /\ \E i \in Id, table \in {liveListeners, liveConnections, liveUdpConnections},
              step \in Steps \ {"keep", "append"} : Lookup(w, table, i, step)
    BY <1>2 DEF tcpAccept, tcpRead, tcpWrite, udpAwaitPacket, Steps
  <2>2. /\ pc' \in [Worker -> Steps] /\ id' \in [Worker -> Id]
        /\ hand' \in [Worker -> Handle \cup {None}] /\ HeldInv'
    BY <1>0, <2>1, LookupTypes DEF TypeOK
  <2> QED
    BY <1>0, <2>1, <2>2 DEF TypeOK, osVars, tableVars, idVars, packetVars, readVars
<1>3. CASE tcpClose(w)
  <2>1. PICK i \in Id :
            /\ Lookup(w, liveConnections, i, "close")
            /\ liveConnections' = [liveConnections EXCEPT ![i] = None]
    BY <1>3 DEF tcpClose
  <2>2. UNCHANGED <<osVars, liveListeners, liveUdpConnections, idVars, packetVars,
                    readVars, buf, to, readers>>
    BY <1>3 DEF tcpClose
  <2>3. /\ pc' \in [Worker -> Steps] /\ id' \in [Worker -> Id]
        /\ hand' \in [Worker -> Handle \cup {None}] /\ HeldInv'
    BY <1>0, <2>1, <2>2, LookupTypes DEF TypeOK, Steps
  <2> QED
    BY <1>0, <2>1, <2>2, <2>3 DEF TypeOK, osVars, idVars, packetVars, readVars
<1>4. CASE tcpCloseListener(w)
  <2>1. PICK i \in Id :
            /\ Lookup(w, liveListeners, i, "close")
            /\ liveListeners' = [liveListeners EXCEPT ![i] = None]
    BY <1>4 DEF tcpCloseListener
  <2>2. UNCHANGED <<osVars, liveConnections, liveUdpConnections, idVars, packetVars,
                    readVars, buf, to, readers>>
    BY <1>4 DEF tcpCloseListener
  <2>3. /\ pc' \in [Worker -> Steps] /\ id' \in [Worker -> Id]
        /\ hand' \in [Worker -> Handle \cup {None}] /\ HeldInv'
    BY <1>0, <2>1, <2>2, LookupTypes DEF TypeOK, Steps
  <2> QED
    BY <1>0, <2>1, <2>2, <2>3 DEF TypeOK, osVars, idVars, packetVars, readVars
<1>5. CASE udpClose(w)
  <2>1. PICK i \in Id :
            /\ udpReadBuffers' = [udpReadBuffers EXCEPT ![i] = <<>>]
            /\ \/ /\ Lookup(w, liveUdpConnections, i, "close")
                  /\ liveUdpConnections' = [liveUdpConnections EXCEPT ![i] = None]
               \/ UNCHANGED <<id, hand, pc, liveUdpConnections>>
    BY <1>5 DEF udpClose
  <2>2. UNCHANGED <<osVars, liveConnections, liveListeners, idVars, packetVars, given,
                    buf, to, readers>>
    BY <1>5 DEF udpClose
  <2>3. /\ pc' \in [Worker -> Steps] /\ id' \in [Worker -> Id]
        /\ hand' \in [Worker -> Handle \cup {None}] /\ HeldInv'
        /\ liveUdpConnections' \in [Id -> Handle \cup {None}]
    <3>1. CASE Lookup(w, liveUdpConnections, i, "close")
               /\ liveUdpConnections' = [liveUdpConnections EXCEPT ![i] = None]
      BY <1>0, <3>1, <2>2, LookupTypes DEF TypeOK, Steps
    <3>2. CASE UNCHANGED <<id, hand, pc, liveUdpConnections>>
      BY <1>0, <3>2, <2>2 DEF TypeOK, HeldInv
    <3> QED  BY <2>1, <3>1, <3>2
  <2>4. udpReadBuffers' \in [Id -> Seq(Byte)]
    BY <1>0, <2>1 DEF TypeOK
  <2> QED
    BY <1>0, <2>2, <2>3, <2>4 DEF TypeOK, osVars, idVars, packetVars
<1>6. CASE udpRead(w)
  <2>1. PICK i \in Id, maxBytes \in 1 .. 2 :
           LET data == udpReadBuffers[i]
               n    == IF Len(data) > maxBytes THEN maxBytes ELSE Len(data)
           IN  /\ data # <<>>
               /\ given' = given \cup {data[j] : j \in 1 .. n}
               /\ udpReadBuffers' =
                      [udpReadBuffers EXCEPT ![i] = SubSeq(data, n + 1, Len(data))]
    BY <1>6 DEF udpRead
  <2>2. UNCHANGED <<osVars, tableVars, idVars, packetVars, localVars, readers, pc>>
    BY <1>6 DEF udpRead
  <2>3. PICK data \in Seq(Byte) : data = udpReadBuffers[i]
    BY <1>0 DEF TypeOK
  <2>4. PICK n \in 0 .. Len(data) :
            /\ given' = given \cup {data[j] : j \in 1 .. n}
            /\ udpReadBuffers' = [udpReadBuffers EXCEPT ![i] = SubSeq(data, n + 1, Len(data))]
    <3> DEFINE n == IF Len(data) > maxBytes THEN maxBytes ELSE Len(data)
    <3>1. n \in 0 .. Len(data)
      BY <2>3
    <3>2. /\ given' = given \cup {data[j] : j \in 1 .. n}
          /\ udpReadBuffers' = [udpReadBuffers EXCEPT ![i] = SubSeq(data, n + 1, Len(data))]
      BY <2>1, <2>3
    <3> HIDE DEF n
    <3> QED  BY <3>1, <3>2
  <2>5. given' \subseteq Byte
    <3>1. \A j \in 1 .. n : data[j] \in Byte
      BY <2>3, <2>4
    <3> QED  BY <1>0, <2>4, <3>1 DEF TypeOK
  <2>6. SubSeq(data, n + 1, Len(data)) \in Seq(Byte)
    BY <2>3, <2>4
  <2>7. udpReadBuffers' \in [Id -> Seq(Byte)]
    BY <1>0, <2>4, <2>6 DEF TypeOK
  <2>8. HeldInv'
    BY <2>2 DEF HeldInv, localVars
  <2> QED
    BY <1>0, <2>2, <2>5, <2>7, <2>8 DEF TypeOK, osVars, tableVars, idVars, packetVars, localVars
<1>7. CASE udpDropPacket(w)
  <2>1. HeldInv'
    BY <1>0, <1>7 DEF TypeOK, HeldInv, udpDropPacket, Goto
  <2> QED
    BY <1>0, <1>7, <2>1 DEF udpDropPacket, Goto, RLock, TypeOK, osVars, tableVars, idVars,
                            packetVars, readVars, Steps
<1>8. CASE udpBeginPacket(w)
  <2>1. PICK i \in Id : Lookup(w, liveUdpConnections, i, "resolve") /\ Touch(w, i)
    BY <1>8 DEF udpBeginPacket
  <2>2. /\ UNCHANGED <<osVars, tableVars, idVars, udpWriteTargets, udpWriteBuffers, readVars,
                       buf, to>>
        /\ readers' = readers \cup {w}
    BY <1>8 DEF udpBeginPacket, RLock
  <2>3. /\ pc' \in [Worker -> Steps] /\ id' \in [Worker -> Id]
        /\ hand' \in [Worker -> Handle \cup {None}] /\ HeldInv'
    BY <1>0, <2>1, <2>2, LookupTypes DEF TypeOK, Steps
  <2>4. owner' \in [Id -> Worker \cup {None}] /\ pieces' \in [Id -> Nat]
    BY <1>0, <2>1 DEF TypeOK, Touch
  <2> QED
    BY <1>0, <2>2, <2>3, <2>4 DEF TypeOK, osVars, tableVars, idVars, readVars
<1>9. CASE udpEndPacket(w)
  <2>1. PICK i \in Id : /\ Lookup(w, liveUdpConnections, i, "end")
                        /\ buf' = [buf EXCEPT ![w] = udpWriteBuffers[i]]
                        /\ Touch(w, i)
    BY <1>9 DEF udpEndPacket
  <2>2. /\ UNCHANGED <<osVars, tableVars, idVars, udpWriteTargets, udpWriteBuffers, readVars,
                       to>>
        /\ readers' = readers \cup {w}
    BY <1>9 DEF udpEndPacket, RLock
  <2>3. /\ pc' \in [Worker -> Steps] /\ id' \in [Worker -> Id]
        /\ hand' \in [Worker -> Handle \cup {None}]
    BY <1>0, <2>1, <2>2, LookupTypes DEF TypeOK, Steps
  <2>4. owner' \in [Id -> Worker \cup {None}] /\ pieces' \in [Id -> Nat]
    BY <1>0, <2>1 DEF TypeOK, Touch
  <2>5. udpWriteBuffers[i] \in Seq(Worker) \cup Seq(Byte) \cup {None}
    BY <1>0 DEF TypeOK
  <2>6. buf' \in [Worker -> Seq(Worker) \cup Seq(Byte) \cup {None}]
    BY <1>0, <2>1, <2>5 DEF TypeOK
  <2>7. HeldInv'
    BY <1>0, <2>1 DEF TypeOK, HeldInv, Lookup, Goto
  <2> QED
    BY <1>0, <2>2, <2>3, <2>4, <2>6, <2>7 DEF TypeOK, osVars, tableVars, idVars, readVars
<1>10. CASE udpWrite(w)
  <2>1. PICK i \in Id : /\ udpWriteBuffers[i] # None
                        /\ buf' = [buf EXCEPT ![w] = udpWriteBuffers[i]]
                        /\ id' = [id EXCEPT ![w] = i]
                        /\ Touch(w, i)
    BY <1>10 DEF udpWrite
  <2>2. /\ UNCHANGED <<osVars, tableVars, idVars, udpWriteTargets, udpWriteBuffers, readVars,
                       hand, to>>
        /\ readers' = readers \cup {w}
        /\ pc' = [pc EXCEPT ![w] = "append"]
    BY <1>10 DEF udpWrite, RLock, Goto
  <2>3. PICK data \in Seq(Worker) : data = udpWriteBuffers[i]
    BY <1>0, <2>1 DEF TypeOK
  <2>4. owner' \in [Id -> Worker \cup {None}] /\ pieces' \in [Id -> Nat]
    BY <1>0, <2>1 DEF TypeOK, Touch
  <2>5. data \in Seq(Worker) \cup Seq(Byte) \cup {None}
    BY <2>3
  <2>6. buf' \in [Worker -> Seq(Worker) \cup Seq(Byte) \cup {None}]
    BY <1>0, <2>1, <2>3, <2>5 DEF TypeOK
  <2>7. HeldInv'
    BY <1>0, <2>1, <2>2, <2>3 DEF TypeOK, HeldInv
  <2>8. /\ pc' \in [Worker -> Steps] /\ id' \in [Worker -> Id]
    BY <1>0, <2>1, <2>2 DEF TypeOK, Steps
  <2> QED
    BY <1>0, <2>2, <2>4, <2>6, <2>7, <2>8 DEF TypeOK, osVars, tableVars, idVars, readVars
<1>11. CASE Store(w)
  <2>1. Forget(w) /\ UNCHANGED <<osVars, packetVars, readVars, readers>>
    BY <1>11 DEF Store, Return
  <2>2. hand[w] \in Handle
    BY <1>11 DEF Store, HeldInv
  <2>3. kind[hand[w]] \in {"conn", "listener", "udp"}
    BY <1>0, <2>2 DEF TypeOK
  <2>4. PICK k \in 1 .. IdMod :
         LET new == (nextConnectionID + k) % IdMod
         IN  /\ nextConnectionID' = new
             /\ wrapped' = (wrapped \/ nextConnectionID + k >= IdMod)
             /\ CASE kind[hand[w]] = "conn" ->
                       /\ liveConnections' = [liveConnections EXCEPT ![new] = hand[w]]
                       /\ UNCHANGED <<liveListeners, liveUdpConnections>>
                  [] kind[hand[w]] = "listener" ->
                       /\ liveListeners' = [liveListeners EXCEPT ![new] = hand[w]]
                       /\ UNCHANGED <<liveConnections, liveUdpConnections>>
                  [] kind[hand[w]] = "udp" ->
                       /\ liveUdpConnections' = [liveUdpConnections EXCEPT ![new] = hand[w]]
                       /\ UNCHANGED <<liveConnections, liveListeners>>
    BY <1>11 DEF Store
  <2>5. PICK new \in Id : new = (nextConnectionID + k) % IdMod
    BY <1>0, CandidateIsId DEF TypeOK
  <2>6. /\ liveConnections' \in [Id -> Handle \cup {None}]
        /\ liveListeners' \in [Id -> Handle \cup {None}]
        /\ liveUdpConnections' \in [Id -> Handle \cup {None}]
        /\ nextConnectionID' \in Id
    BY <1>0, <2>2, <2>3, <2>4, <2>5 DEF TypeOK
  <2>7. wrapped' \in BOOLEAN
    BY <2>4
  <2> QED
    BY <1>0, <2>1, <2>6, <2>7, ForgetTypes DEF TypeOK, osVars, packetVars, readVars
<1>12. CASE AcceptFails(w) \/ CallEnds(w) \/ WriteTo(w)
  <2>1. /\ Forget(w)
        /\ UNCHANGED <<osVars, tableVars, idVars, packetVars, readVars, readers>>
    BY <1>12 DEF AcceptFails, CallEnds, WriteTo, Return
  <2> QED
    BY <1>0, <2>1, ForgetTypes DEF TypeOK, osVars, tableVars, idVars, packetVars, readVars
<1>13. CASE ResolveFails(w) \/ Respond(w)
  <2>1. /\ Forget(w) /\ readers' = readers \ {w}
        /\ UNCHANGED <<osVars, tableVars, idVars, packetVars, readVars>>
    BY <1>13 DEF ResolveFails, Respond, RUnlock
  <2> QED
    BY <1>0, <2>1, ForgetTypes DEF TypeOK, osVars, tableVars, idVars, packetVars, readVars
<1>14. CASE CloseSocket(w)
  <2>1. open' \in [Handle -> BOOLEAN]
    BY <1>0, <1>14 DEF TypeOK, CloseSocket
  <2>2. /\ Forget(w)
        /\ UNCHANGED <<opens, kind, timed, inbox, arrived, tableVars, idVars, packetVars,
                       readVars, readers>>
    BY <1>14 DEF CloseSocket, Return
  <2> QED
    BY <1>0, <2>1, <2>2, ForgetTypes DEF TypeOK, tableVars, idVars, packetVars, readVars
<1>15. CASE SetReadDeadline(w)
  <2>1. timed' \in [Handle -> BOOLEAN]
    BY <1>0, <1>15 DEF TypeOK, SetReadDeadline
  <2>2. /\ UNCHANGED <<opens, kind, open, inbox, arrived, tableVars, idVars, packetVars,
                       readVars, localVars, readers>>
        /\ pc[w] = "deadline" /\ pc' = [pc EXCEPT ![w] = "read"]
    BY <1>15 DEF SetReadDeadline, Goto
  <2>3. HeldInv' /\ pc' \in [Worker -> Steps]
    BY <1>0, <2>2 DEF TypeOK, HeldInv, localVars, Steps
  <2> QED
    BY <1>0, <2>1, <2>2, <2>3 DEF TypeOK, tableVars, idVars, packetVars, readVars, localVars
<1>16. CASE ReadFrom(w)
  <2>1. PICK h \in Handle : h = hand[w]
    BY <1>16 DEF ReadFrom, HeldInv
  <2>2. PICK queue \in Seq(1 .. MaxPackets) : queue = inbox[h]
    BY <1>0 DEF TypeOK
  <2>3. queue # <<>> /\ inbox' = [inbox EXCEPT ![h] = Tail(queue)]
    BY <1>16, <2>1, <2>2 DEF ReadFrom
  <2>4. PICK p \in 1 .. MaxPackets : p = Head(queue)
    <3>1. Head(queue) \in 1 .. MaxPackets
      BY <2>2, <2>3, TakeFromQueue
    <3> QED  BY <3>1
  <2>5. PICK data \in Seq(Byte) : data = << <<p, 1>>, <<p, 2>> >>
    <3>1. <<p, 1>> \in Byte /\ <<p, 2>> \in Byte
      BY DEF Byte
    <3>2. << <<p, 1>>, <<p, 2>> >> \in Seq(Byte)
      BY <3>1
    <3> QED  BY <3>2
  <2>6. /\ buf' = [buf EXCEPT ![w] = data] /\ pc' = [pc EXCEPT ![w] = "keep"]
        /\ UNCHANGED <<opens, kind, open, timed, arrived, tableVars, idVars, packetVars,
                       readVars, id, hand, to, readers>>
    BY <1>16, <2>1, <2>2, <2>4, <2>5 DEF ReadFrom, Goto
  <2>7. inbox' \in [Handle -> Seq(1 .. MaxPackets)]
    BY <1>0, <2>2, <2>3 DEF TypeOK
  <2>8. HeldInv' /\ pc' \in [Worker -> Steps]
    BY <1>0, <2>6 DEF TypeOK, HeldInv, Steps
  <2>9. buf' \in [Worker -> Seq(Worker) \cup Seq(Byte) \cup {None}]
    BY <1>0, <2>6 DEF TypeOK
  <2> QED
    BY <1>0, <2>6, <2>7, <2>8, <2>9 DEF TypeOK, tableVars, idVars, packetVars, readVars
<1>17. CASE KeepPacket(w)
  <2>1. buf[w] \in Seq(Byte)
    BY <1>17 DEF KeepPacket, HeldInv
  <2>2. udpReadBuffers' \in [Id -> Seq(Byte)]
    BY <1>0, <1>17, <2>1 DEF TypeOK, KeepPacket
  <2>3. /\ Forget(w)
        /\ UNCHANGED <<osVars, tableVars, idVars, packetVars, given, readers>>
    BY <1>17 DEF KeepPacket, Return
  <2> QED
    BY <1>0, <2>2, <2>3, ForgetTypes DEF TypeOK, osVars, tableVars, idVars, packetVars
<1>18. CASE Drop(w)
  <2>1. udpReadBuffers' \in [Id -> Seq(Byte)]
    BY <1>0, <1>18 DEF TypeOK, Drop
  <2>2. /\ Forget(w) /\ readers' = readers \ {w}
        /\ UNCHANGED <<osVars, tableVars, idVars, packetVars, given>>
    BY <1>18 DEF Drop, RUnlock
  <2> QED
    BY <1>0, <2>1, <2>2, ForgetTypes DEF TypeOK, osVars, tableVars, idVars, packetVars
<1>19. CASE Resolved(w)
  <2>1. /\ udpWriteTargets' \in [Id -> Worker \cup {None}]
        /\ owner' \in [Id -> Worker \cup {None}]
        /\ pc' \in [Worker -> Steps] /\ HeldInv'
    BY <1>0, <1>19 DEF TypeOK, HeldInv, Resolved, Goto, localVars, Steps
  <2>2. UNCHANGED <<osVars, tableVars, idVars, udpWriteBuffers, pieces, readVars, localVars,
                    readers>>
    BY <1>19 DEF Resolved
  <2> QED
    BY <1>0, <2>1, <2>2 DEF TypeOK, osVars, tableVars, idVars, readVars, localVars
<1>20. CASE Begin(w)
  <2>1. udpWriteBuffers' \in [Id -> Seq(Worker) \cup {None}]
    BY <1>0, <1>20 DEF TypeOK, Begin
  <2>2. /\ pieces' \in [Id -> Nat]
        /\ pc' \in [Worker -> Steps] /\ HeldInv'
    BY <1>0, <1>20 DEF TypeOK, HeldInv, Begin, Goto, localVars, Steps
  <2>3. UNCHANGED <<osVars, tableVars, idVars, udpWriteTargets, owner, readVars,
                    localVars, readers>>
    BY <1>20 DEF Begin
  <2> QED
    BY <1>0, <2>1, <2>2, <2>3 DEF TypeOK, osVars, tableVars, idVars, readVars, localVars
<1>21. CASE AppendPiece(w)
  <2>1. PICK data \in Seq(Worker) : data = buf[w]
    BY <1>21 DEF AppendPiece, HeldInv
  <2>2. PICK longer \in Seq(Worker) : longer = Append(data, w)
    <3>1. Append(data, w) \in Seq(Worker)
      BY <2>1
    <3> QED  BY <3>1
  <2>3. udpWriteBuffers' = [udpWriteBuffers EXCEPT ![id[w]] = longer]
    BY <1>21, <2>1, <2>2 DEF AppendPiece
  <2>4. udpWriteBuffers' \in [Id -> Seq(Worker) \cup {None}]
    BY <1>0, <2>3 DEF TypeOK
  <2>5. pieces' \in [Id -> Nat]
    BY <1>0, <1>21 DEF TypeOK, AppendPiece
  <2>6. /\ Forget(w) /\ readers' = readers \ {w}
        /\ UNCHANGED <<osVars, tableVars, idVars, udpWriteTargets, owner, readVars>>
    BY <1>21 DEF AppendPiece, RUnlock
  <2> QED
    BY <1>0, <2>4, <2>5, <2>6, ForgetTypes DEF TypeOK, osVars, tableVars, idVars, readVars
<1>22. CASE TakePacket(w)
  <2>1. /\ udpWriteBuffers' \in [Id -> Seq(Worker) \cup {None}]
        /\ udpWriteTargets' \in [Id -> Worker \cup {None}]
        /\ owner' \in [Id -> Worker \cup {None}]
        /\ pieces' \in [Id -> Nat]
    BY <1>0, <1>22 DEF TypeOK, TakePacket
  <2>2. /\ UNCHANGED <<osVars, tableVars, idVars, readVars>>
        /\ readers' = readers \ {w}
    BY <1>22 DEF TakePacket, RUnlock
  <2>3. /\ pc' \in [Worker -> Steps] /\ id' \in [Worker -> Id]
        /\ hand' \in [Worker -> Handle \cup {None}]
        /\ buf' \in [Worker -> Seq(Worker) \cup Seq(Byte) \cup {None}]
        /\ to' \in [Worker -> Worker \cup {None}]
        /\ HeldInv'
    <3>1. CASE buf[w] = None
      BY <1>22, <3>1, ForgetTypes DEF TakePacket
    <3>2. CASE buf[w] # None
      <4>1. /\ to' = [to EXCEPT ![w] = udpWriteTargets[id[w]]]
            /\ pc' = [pc EXCEPT ![w] = "send"]
            /\ UNCHANGED <<id, hand, buf>>
        BY <1>22, <3>2 DEF TakePacket, Goto
      <4>2. udpWriteTargets[id[w]] \in Worker \cup {None}
        BY <1>0 DEF TypeOK
      <4> QED  BY <1>0, <4>1, <4>2 DEF TypeOK, HeldInv, Steps
    <3> QED  BY <3>1, <3>2
  <2> QED
    BY <1>0, <2>1, <2>2, <2>3 DEF TypeOK, osVars, tableVars, idVars, readVars
<1> QED
  BY <1>1, <1>2, <1>3, <1>4, <1>5, <1>6, <1>7, <1>8, <1>9, <1>10, <1>11, <1>12, <1>13,
     <1>14, <1>15, <1>16, <1>17, <1>18, <1>19, <1>20, <1>21, <1>22
     DEF WorkerStep, Tcp, Udp, Running

LEMMA TypesKeep == TypeInv /\ [Next]_vars => TypeInv'
<1> SUFFICES ASSUME TypeInv, [Next]_vars PROVE TypeInv'
  OBVIOUS
<1>1. CASE \E w \in Worker : WorkerStep(w) /\ UNCHANGED <<crashed, mix>>
  BY <1>1, WorkerTypes
<1>2. ASSUME NEW h \in Handle, Datagram(h), UNCHANGED <<crashed, mix>>
      PROVE  TypeInv'
  <2>0. TypeOK
    BY DEF TypeInv
  <2>1. arrived' \in 1 .. MaxPackets /\ arrived' = arrived + 1
    BY <1>2, <2>0, BoundAssumption DEF TypeOK, Datagram
  <2>2. PICK queue \in Seq(1 .. MaxPackets) : queue = inbox[h]
    BY <2>0 DEF TypeOK
  <2>3. PICK longer \in Seq(1 .. MaxPackets) : longer = Append(queue, arrived + 1)
    <3>1. Append(queue, arrived + 1) \in Seq(1 .. MaxPackets)
      BY <2>1, <2>2
    <3> QED  BY <3>1
  <2>4. inbox' = [inbox EXCEPT ![h] = longer]
    BY <1>2, <2>2, <2>3 DEF Datagram
  <2>5. inbox' \in [Handle -> Seq(1 .. MaxPackets)]
    BY <2>0, <2>4 DEF TypeOK
  <2>6. UNCHANGED <<opens, kind, open, timed, tableVars, idVars, packetVars, readVars,
                    localVars, readers, pc>>
    BY <1>2 DEF Datagram
  <2>7. HeldInv' /\ arrived' \in 0 .. MaxPackets
    BY <2>1, <2>6, BoundAssumption DEF TypeInv, HeldInv, localVars
  <2> QED
    BY <1>2, <2>0, <2>5, <2>6, <2>7 DEF TypeInv, TypeOK, tableVars, idVars, packetVars,
                                        readVars, localVars
<1>3. CASE Crash /\ UNCHANGED mix
  BY <1>3 DEF Crash, TypeInv, TypeOK, HeldInv, osVars, tableVars, idVars, packetVars,
              readVars, localVars
<1>4. CASE UNCHANGED vars
  BY <1>4 DEF vars, TypeInv, TypeOK, HeldInv, osVars, tableVars, idVars, packetVars,
              readVars, localVars
<1> QED  BY <1>1, <1>2, <1>3, <1>4 DEF Next, WorkerStep

(* Every variable keeps its type: the tables hold sockets, the buffers       *)
(* whole bytes, and a handler at a step that needs a socket has one.         *)
THEOREM NetworkTypeCorrect == Spec => []TypeOK
<1>1. TypeInv => TypeOK
  BY DEF TypeInv
<1> QED  BY <1>1, NetworkInit, TypesKeep, PTL DEF Spec

-----------------------------------------------------------------------------
(***************************************************************************)
(* Outgoing packets.                                                        *)
(***************************************************************************)
(* The steps inside a section under the read lock.                           *)
Locked == {"resolve", "begin", "respond", "append", "end", "drop"}

(* The read lock is held by the workers that are inside such a section.      *)
LockInv == \A w \in Worker : w \in readers <=> pc[w] \in Locked

(* Worker w is at a step of its work on the outgoing packet of i.            *)
WorksOn(w, i) == w \in readers /\ id[w] = i /\ pc[w] # "drop"

(* A packet of n pieces, all of them of w.                                   *)
PiecesOf(w, n) == [j \in 1 .. n |-> w]

(* Nobody but u works on the packet of i, and it is what u put together,     *)
(* except that the buffer of an earlier packet is still there until Begin    *)
(* has replaced it.                                                          *)
Owned(i, u) ==
    /\ \A v \in Worker : WorksOn(v, i) => v = u
    /\ udpWriteTargets[i] = u
    /\ ~(pc[u] = "begin" /\ id[u] = i) => udpWriteBuffers[i] = PiecesOf(u, pieces[i])
    /\ pc[u] = "append" /\ id[u] = i => buf[u] = udpWriteBuffers[i]

OwnerInv == \A i \in Id, u \in Worker : owner[i] = u => Owned(i, u)

PacketInv == TypeInv /\ LockInv /\ OwnerInv

LEMMA OnePieceMore ==
    ASSUME NEW w \in Worker, NEW n \in Nat
    PROVE  PiecesOf(w, 0) = <<>> /\ Append(PiecesOf(w, n), w) = PiecesOf(w, n + 1)
<1>1. PiecesOf(w, 0) = <<>>
  BY DEF PiecesOf
<1>2. PiecesOf(w, n) \in Seq(Worker) /\ Len(PiecesOf(w, n)) = n
  BY DEF PiecesOf
<1>3. Append(PiecesOf(w, n), w) = [j \in 1 .. n + 1 |-> IF j <= n THEN w ELSE w]
  BY <1>2 DEF PiecesOf
<1> QED  BY <1>1, <1>3 DEF PiecesOf

(* Nothing changes for the workers other than w.                             *)
OthersRest(w) ==
    \A v \in Worker \ {w} : pc'[v] = pc[v] /\ id'[v] = id[v] /\ buf'[v] = buf[v]

(* A step of w away from the outgoing packets.                               *)
Outside(w) ==
    /\ UNCHANGED <<packetVars, readers>>
    /\ pc[w] \notin Locked /\ pc'[w] \notin Locked
    /\ OthersRest(w)

LEMMA OutsideKeeps ==
    ASSUME PacketInv, NEW w \in Worker, Outside(w)
    PROVE  LockInv' /\ OwnerInv'
<1> USE DEF PacketInv, Outside, OthersRest, packetVars
<1>1. LockInv'
  BY DEF LockInv
<1>2. ASSUME NEW i \in Id, NEW u \in Worker, owner'[i] = u PROVE Owned(i, u)'
  <2>1. w \notin readers
    BY DEF LockInv
  <2>2. \A v \in Worker : WorksOn(v, i)' => WorksOn(v, i)
    BY <2>1 DEF WorksOn
  <2> QED  BY <1>2, <2>2 DEF OwnerInv, Owned, Locked
<1> QED  BY <1>1, <1>2 DEF OwnerInv

(* Which steps those are.                                                    *)
OutsideSteps(w) ==
    \/ Tcp(w) \/ udpConnect(w) \/ udpAwaitPacket(w) \/ udpRead(w) \/ udpClose(w)
    \/ Accepted(w) \/ Store(w) \/ AcceptFails(w) \/ CloseSocket(w) \/ SetReadDeadline(w)
    \/ CallEnds(w) \/ ReadFrom(w) \/ KeepPacket(w) \/ WriteTo(w)

LEMMA ForgetRests ==
    ASSUME TypeInv, NEW w \in Worker, Forget(w)
    PROVE  OthersRest(w) /\ pc'[w] = "idle"
  BY DEF TypeInv, TypeOK, Forget, Goto, OthersRest

LEMMA LookupRests ==
    ASSUME TypeInv, NEW w \in Worker, NEW table, NEW i, NEW step, Lookup(w, table, i, step)
    PROVE  /\ pc'[w] = step /\ id'[w] = i
           /\ \A v \in Worker \ {w} : pc'[v] = pc[v] /\ id'[v] = id[v]
  BY DEF TypeInv, TypeOK, Lookup, Goto

LEMMA OutsideOnes ==
    ASSUME TypeInv, NEW w \in Worker, OutsideSteps(w)
    PROVE  Outside(w)
<1>0. TypeOK
  BY DEF TypeInv
<1>1. CASE tcpConnect(w) \/ tcpConnectSSL(w) \/ tcpListen(w) \/ udpConnect(w) \/ Accepted(w)
  <2>1. /\ UNCHANGED <<packetVars, id, buf, readers>>
        /\ pc[w] \in {"idle", "accept"} /\ pc' = [pc EXCEPT ![w] = "store"]
    BY <1>1 DEF tcpConnect, tcpConnectSSL, tcpListen, udpConnect, Accepted, NewSocket, Goto,
                Called
  <2> QED  BY <1>0, <2>1 DEF TypeOK, Outside, OthersRest, Locked
<1>2. CASE tcpAccept(w) \/ tcpRead(w) \/ tcpWrite(w) \/ udpAwaitPacket(w) \/ tcpClose(w)
           \/ tcpCloseListener(w)
  <2>1. UNCHANGED <<packetVars, buf, readers>> /\ pc[w] = "idle"
    BY <1>2 DEF tcpAccept, tcpRead, tcpWrite, udpAwaitPacket, tcpClose, tcpCloseListener,
                Called
  <2>2. PICK i \in Id, table \in {liveListeners, liveConnections, liveUdpConnections},
             step \in {"accept", "deadline", "write", "close"} :
                 Lookup(w, table, i, step)
    BY <1>2 DEF tcpAccept, tcpRead, tcpWrite, udpAwaitPacket, tcpClose, tcpCloseListener
  <2> QED  BY <2>1, <2>2, LookupRests DEF Outside, OthersRest, Locked
<1>3. CASE udpClose(w)
  <2>1. UNCHANGED <<packetVars, buf, readers>> /\ pc[w] = "idle"
    BY <1>3 DEF udpClose, Called
  <2>2. \/ \E i \in Id : Lookup(w, liveUdpConnections, i, "close")
        \/ UNCHANGED <<id, pc>>
    BY <1>3 DEF udpClose
  <2> QED  BY <2>1, <2>2, LookupRests DEF Outside, OthersRest, Locked
<1>4. CASE udpRead(w)
  BY <1>4 DEF udpRead, Called, localVars, Outside, OthersRest, Locked
<1>5. CASE Store(w) \/ AcceptFails(w) \/ CloseSocket(w) \/ CallEnds(w) \/ KeepPacket(w)
           \/ WriteTo(w)
  <2>1. /\ Forget(w) /\ UNCHANGED <<packetVars, readers>>
        /\ pc[w] \in {"store", "accept", "close", "read", "write", "deadline", "keep", "send"}
    BY <1>5 DEF Store, AcceptFails, CloseSocket, CallEnds, KeepPacket, WriteTo, Return
  <2> QED  BY <2>1, ForgetRests DEF Outside, Locked
<1>6. CASE SetReadDeadline(w)
  BY <1>0, <1>6 DEF SetReadDeadline, TypeOK, Goto, localVars, Outside, OthersRest, Locked
<1>7. CASE ReadFrom(w)
  BY <1>0, <1>7 DEF ReadFrom, TypeOK, Goto, Outside, OthersRest, Locked
<1> QED
  BY <1>1, <1>2, <1>3, <1>4, <1>5, <1>6, <1>7 DEF OutsideSteps, Tcp

(* A step of w under the read lock.                                          *)
LEMMA LockedKeep ==
    ASSUME PacketInv, NEW w \in Worker, WorkerStep(w), ~OutsideSteps(w)
    PROVE  LockInv' /\ OwnerInv'
<1>0. TypeOK /\ id[w] \in Id
  BY DEF PacketInv, TypeInv, TypeOK
<1>1. \A i \in Id, u \in Worker : owner[i] = u => Owned(i, u)
  BY DEF PacketInv, OwnerInv
<1>2. LockInv
  BY DEF PacketInv
<1>3. SUFFICES /\ LockInv'
               /\ \A i \in Id, u \in Worker : owner'[i] = u => Owned(i, u)'
  BY DEF OwnerInv
<1>4. ASSUME Forget(w), readers' = readers \ {w}, pc[w] \in Locked \ {"begin"},
             UNCHANGED <<udpWriteTargets, owner>>,
             \A i \in Id :
                 \/ udpWriteBuffers'[i] = udpWriteBuffers[i] /\ pieces'[i] = pieces[i]
                 \/ owner[i] \notin Worker
                 \/ owner[i] = w /\ udpWriteBuffers'[i] = PiecesOf(w, pieces'[i])
      PROVE  LockInv' /\ \A i \in Id, u \in Worker : owner'[i] = u => Owned(i, u)'
  <2>1. OthersRest(w) /\ pc'[w] = "idle"
    BY <1>4, ForgetRests DEF PacketInv
  <2>2. LockInv'
    BY <1>2, <1>4, <2>1 DEF LockInv, OthersRest, Locked
  <2>3. \A i \in Id, v \in Worker : WorksOn(v, i)' => WorksOn(v, i)
    BY <1>4, <2>1 DEF WorksOn, OthersRest
  <2>4. ASSUME NEW i \in Id, NEW u \in Worker, owner'[i] = u PROVE Owned(i, u)'
    <3>1. Owned(i, u)
      BY <1>1, <1>4, <2>4
    <3>2. CASE u = w
      BY <1>4, <2>1, <2>3, <2>4, <3>1, <3>2 DEF Owned
    <3>3. CASE u # w
      BY <1>4, <2>1, <2>3, <2>4, <3>1, <3>3 DEF Owned, OthersRest
    <3> QED  BY <3>2, <3>3
  <2> QED  BY <2>2, <2>4
<1>5. CASE Drop(w) \/ ResolveFails(w) \/ Respond(w)
  BY <1>4, <1>5 DEF Drop, ResolveFails, Respond, RUnlock, packetVars, Locked
<1>6. CASE AppendPiece(w)
  <2>1. PICK i \in Id : i = id[w]
    BY <1>0
  <2>2. /\ udpWriteBuffers' = [udpWriteBuffers EXCEPT ![i] = Append(buf[w], w)]
        /\ pieces' = [pieces EXCEPT ![i] = IF owner[i] = w THEN pieces[i] + 1 ELSE 0]
        /\ Forget(w) /\ readers' = readers \ {w} /\ pc[w] = "append"
        /\ UNCHANGED <<udpWriteTargets, owner>>
    BY <1>6, <2>1 DEF AppendPiece, RUnlock
  <2>3. WorksOn(w, i)
    BY <1>2, <2>1, <2>2 DEF LockInv, WorksOn, Locked
  <2>4. owner[i] \in Worker => owner[i] = w
    BY <1>1, <2>3 DEF Owned
  <2>5. owner[i] = w => udpWriteBuffers'[i] = PiecesOf(w, pieces'[i])
    <3> SUFFICES ASSUME owner[i] = w PROVE udpWriteBuffers'[i] = PiecesOf(w, pieces'[i])
      OBVIOUS
    <3>1. buf[w] = PiecesOf(w, pieces[i])
      BY <1>1, <2>1, <2>2 DEF Owned
    <3>2. pieces[i] \in Nat /\ pieces'[i] = pieces[i] + 1
      BY <1>0, <2>2 DEF TypeOK
    <3>3. udpWriteBuffers'[i] = Append(buf[w], w)
      BY <1>0, <2>2 DEF TypeOK
    <3> QED  BY <3>1, <3>2, <3>3, OnePieceMore
  <2>6. \A k \in Id \ {i} : udpWriteBuffers'[k] = udpWriteBuffers[k] /\ pieces'[k] = pieces[k]
    BY <1>0, <2>2 DEF TypeOK
  <2> QED  BY <1>4, <2>2, <2>4, <2>5, <2>6 DEF Locked
<1>7. CASE TakePacket(w)
  <2>1. PICK i \in Id : i = id[w]
    BY <1>0
  <2>2. /\ udpWriteBuffers' = [udpWriteBuffers EXCEPT ![i] = None]
        /\ udpWriteTargets' = [udpWriteTargets EXCEPT ![i] = None]
        /\ owner' = [owner EXCEPT ![i] = None]
        /\ pieces' = [pieces EXCEPT ![i] = 0]
        /\ readers' = readers \ {w} /\ pc[w] = "end"
    BY <1>7, <2>1 DEF TakePacket, RUnlock
  <2>3. OthersRest(w) /\ pc'[w] \in {"idle", "send"}
    <3>1. CASE buf[w] = None
      BY <1>7, <3>1, ForgetRests DEF TakePacket, PacketInv
    <3>2. CASE buf[w] # None
      BY <1>0, <1>7, <3>2 DEF TakePacket, Goto, TypeOK, OthersRest
    <3> QED  BY <3>1, <3>2
  <2>4. LockInv'
    BY <1>2, <2>2, <2>3 DEF LockInv, OthersRest, Locked
  <2>5. ASSUME NEW k \in Id, NEW u \in Worker, owner'[k] = u PROVE Owned(k, u)'
    <3>1. k # i
      BY <1>0, <2>2, <2>5, NoneAssumption DEF TypeOK
    <3>2. /\ owner[k] = u /\ udpWriteTargets'[k] = udpWriteTargets[k]
          /\ udpWriteBuffers'[k] = udpWriteBuffers[k] /\ pieces'[k] = pieces[k]
      BY <1>0, <2>2, <2>5, <3>1 DEF TypeOK
    <3>3. \A v \in Worker : WorksOn(v, k)' => WorksOn(v, k)
      BY <2>2, <2>3 DEF WorksOn, OthersRest
    <3>4. Owned(k, u)
      BY <1>1, <3>2
    <3>5. CASE u = w
      BY <2>1, <2>3, <3>1, <3>2, <3>3, <3>4, <3>5, <2>2 DEF Owned
    <3>6. CASE u # w
      BY <2>3, <3>2, <3>3, <3>4, <3>6 DEF Owned, OthersRest
    <3> QED  BY <3>5, <3>6
  <2> QED  BY <2>4, <2>5
<1>8. CASE Resolved(w)
  <2>1. PICK i \in Id : i = id[w]
    BY <1>0
  <2>2. /\ udpWriteTargets' = [udpWriteTargets EXCEPT ![i] = w]
        /\ owner' = [owner EXCEPT ![i] = IF Others(w, i) = {} THEN w ELSE None]
        /\ pc[w] = "resolve" /\ pc' = [pc EXCEPT ![w] = "begin"]
        /\ UNCHANGED <<udpWriteBuffers, pieces, id, buf, readers>>
    BY <1>8, <2>1 DEF Resolved, Goto, localVars
  <2>3. OthersRest(w) /\ pc'[w] = "begin" /\ id'[w] = i
    BY <1>0, <2>1, <2>2 DEF OthersRest, TypeOK
  <2>4. LockInv'
    BY <1>2, <2>2, <2>3 DEF LockInv, OthersRest, Locked
  <2>5. ASSUME NEW k \in Id, NEW u \in Worker, owner'[k] = u PROVE Owned(k, u)'
    <3>1. \A v \in Worker : WorksOn(v, k)' => WorksOn(v, k)
      BY <2>2, <2>3 DEF WorksOn, OthersRest
    <3>2. CASE k = i
      <4>1. u = w /\ Others(w, i) = {}
        BY <1>0, <2>2, <2>5, <3>2, NoneAssumption DEF TypeOK
      <4>2. \A v \in Worker : WorksOn(v, i) => v = w
        BY <4>1 DEF WorksOn, Others
      <4>3. udpWriteTargets'[i] = w
        BY <1>0, <2>2 DEF TypeOK
      <4> QED  BY <2>3, <3>1, <3>2, <4>1, <4>2, <4>3 DEF Owned
    <3>3. CASE k # i
      <4>1. owner[k] = u /\ udpWriteTargets'[k] = udpWriteTargets[k]
        BY <1>0, <2>2, <2>5, <3>3 DEF TypeOK
      <4>2. Owned(k, u)
        BY <1>1, <4>1
      <4> QED  BY <2>1, <2>2, <2>3, <3>1, <3>3, <4>1, <4>2 DEF Owned, OthersRest
    <3> QED  BY <3>2, <3>3
  <2> QED  BY <2>4, <2>5
<1>9. CASE Begin(w)
  <2>1. PICK i \in Id : i = id[w]
    BY <1>0
  <2>2. /\ udpWriteBuffers' = [udpWriteBuffers EXCEPT ![i] = <<>>]
        /\ pieces' = [pieces EXCEPT ![i] = 0]
        /\ pc[w] = "begin" /\ pc' = [pc EXCEPT ![w] = "respond"]
        /\ UNCHANGED <<udpWriteTargets, owner, id, buf, readers>>
    BY <1>9, <2>1 DEF Begin, Goto, localVars
  <2>3. OthersRest(w) /\ pc'[w] = "respond" /\ id'[w] = i
    BY <1>0, <2>1, <2>2 DEF OthersRest, TypeOK
  <2>4. LockInv'
    BY <1>2, <2>2, <2>3 DEF LockInv, OthersRest, Locked
  <2>5. ASSUME NEW k \in Id, NEW u \in Worker, owner'[k] = u PROVE Owned(k, u)'
    <3>1. \A v \in Worker : WorksOn(v, k)' => WorksOn(v, k)
      BY <2>2, <2>3 DEF WorksOn, OthersRest
    <3>2. Owned(k, u)
      BY <1>1, <2>2, <2>5
    <3>3. CASE k = i
      <4>1. u = w
        BY <1>2, <2>1, <2>2, <3>2, <3>3 DEF Owned, WorksOn, LockInv, Locked
      <4>2. pieces'[i] = 0 /\ udpWriteBuffers'[i] = <<>>
        BY <1>0, <2>2 DEF TypeOK
      <4>3. udpWriteBuffers'[k] = PiecesOf(u, pieces'[k])
        BY <3>3, <4>2, OnePieceMore
      <4> QED  BY <2>2, <2>3, <3>1, <3>2, <4>1, <4>3 DEF Owned
    <3>4. CASE k # i
      <4>1. udpWriteBuffers'[k] = udpWriteBuffers[k] /\ pieces'[k] = pieces[k]
        BY <1>0, <2>2, <3>4 DEF TypeOK
      <4> QED  BY <2>1, <2>2, <2>3, <3>1, <3>2, <3>4, <4>1 DEF Owned, OthersRest
    <3> QED  BY <3>3, <3>4
  <2> QED  BY <2>4, <2>5
<1>10. CASE udpDropPacket(w)
  <2>1. /\ UNCHANGED <<packetVars, buf>> /\ readers' = readers \cup {w}
        /\ pc[w] = "idle" /\ pc' = [pc EXCEPT ![w] = "drop"]
        /\ \E i \in Id : id' = [id EXCEPT ![w] = i]
    BY <1>10 DEF udpDropPacket, Called, RLock, Goto
  <2>2. OthersRest(w) /\ pc'[w] = "drop"
    BY <1>0, <2>1 DEF OthersRest, TypeOK
  <2>3. LockInv'
    BY <1>2, <2>1, <2>2 DEF LockInv, OthersRest, Locked
  <2>4. ASSUME NEW k \in Id, NEW u \in Worker, owner'[k] = u PROVE Owned(k, u)'
    <3>1. \A v \in Worker : WorksOn(v, k)' => WorksOn(v, k)
      BY <2>1, <2>2 DEF WorksOn, OthersRest
    <3>2. Owned(k, u)
      BY <1>1, <2>1, <2>4 DEF packetVars
    <3>3. CASE u = w
      BY <2>1, <2>2, <3>1, <3>2, <3>3 DEF Owned, packetVars
    <3>4. CASE u # w
      BY <2>1, <2>2, <3>1, <3>2, <3>4 DEF Owned, packetVars, OthersRest
    <3> QED  BY <3>3, <3>4
  <2> QED  BY <2>3, <2>4
<1>11. CASE udpBeginPacket(w) \/ udpWrite(w) \/ udpEndPacket(w)
  <2>1. PICK i \in Id :
            /\ Touch(w, i) /\ readers' = readers \cup {w} /\ pc[w] = "idle"
            /\ UNCHANGED <<udpWriteTargets, udpWriteBuffers>>
            /\ OthersRest(w) /\ id'[w] = i
            /\ pc'[w] \in {"resolve", "append", "end"}
            /\ pc'[w] = "append" => buf'[w] = udpWriteBuffers[i]
    <3>1. CASE udpBeginPacket(w)
      <4>1. PICK i \in Id : Lookup(w, liveUdpConnections, i, "resolve") /\ Touch(w, i)
        BY <3>1 DEF udpBeginPacket
      <4> QED
        BY <3>1, <4>1, LookupRests DEF udpBeginPacket, Called, RLock, OthersRest, PacketInv
    <3>2. CASE udpEndPacket(w)
      <4>1. PICK i \in Id : /\ Lookup(w, liveUdpConnections, i, "end") /\ Touch(w, i)
                            /\ buf' = [buf EXCEPT ![w] = udpWriteBuffers[i]]
        BY <3>2 DEF udpEndPacket
      <4>2. \A v \in Worker \ {w} : buf'[v] = buf[v]
        BY <1>0, <4>1 DEF TypeOK
      <4> QED
        BY <3>2, <4>1, <4>2, LookupRests DEF udpEndPacket, Called, RLock, OthersRest, PacketInv
    <3>3. CASE udpWrite(w)
      <4>1. PICK i \in Id : /\ Touch(w, i)
                            /\ buf' = [buf EXCEPT ![w] = udpWriteBuffers[i]]
                            /\ id' = [id EXCEPT ![w] = i]
        BY <3>3 DEF udpWrite
      <4>2. pc' = [pc EXCEPT ![w] = "append"]
        BY <3>3 DEF udpWrite, Goto
      <4>3. OthersRest(w) /\ id'[w] = i /\ pc'[w] = "append" /\ buf'[w] = udpWriteBuffers[i]
        BY <1>0, <4>1, <4>2 DEF TypeOK, OthersRest
      <4> QED  BY <3>3, <4>1, <4>3 DEF udpWrite, Called, RLock
    <3> QED  BY <1>11, <3>1, <3>2, <3>3
  <2>2. LockInv'
    BY <1>2, <2>1 DEF LockInv, OthersRest, Locked
  <2>3. ASSUME NEW k \in Id, NEW u \in Worker, owner'[k] = u PROVE Owned(k, u)'
    <3>1. owner[k] = u /\ pieces'[k] = pieces[k] /\ (k = i => u = w)
      BY <1>0, <2>1, <2>3, NoneAssumption DEF TypeOK, Touch
    <3>2. Owned(k, u)
      BY <1>1, <3>1
    <3>3. \A v \in Worker : WorksOn(v, k)' => v = u
      BY <2>1, <3>1, <3>2 DEF WorksOn, OthersRest, Owned
    <3>4. ~(pc[u] = "begin" /\ id[u] = k) => udpWriteBuffers[k] = PiecesOf(u, pieces'[k])
      BY <3>1, <3>2 DEF Owned
    <3>5. CASE u = w
      BY <2>1, <3>1, <3>2, <3>3, <3>4, <3>5 DEF Owned
    <3>6. CASE u # w
      BY <2>1, <3>1, <3>2, <3>3, <3>4, <3>6 DEF Owned, OthersRest
    <3> QED  BY <3>5, <3>6
  <2> QED  BY <2>2, <2>3
<1> QED
  BY <1>5, <1>6, <1>7, <1>8, <1>9, <1>10, <1>11
     DEF WorkerStep, OutsideSteps, Udp, Running

LEMMA PacketsKeep == PacketInv /\ [Next]_vars => PacketInv'
<1> SUFFICES ASSUME PacketInv, [Next]_vars PROVE PacketInv'
  OBVIOUS
<1>1. TypeInv'
  BY TypesKeep DEF PacketInv
<1>2. CASE \E w \in Worker : WorkerStep(w)
  BY <1>1, <1>2, OutsideOnes, OutsideKeeps, LockedKeep DEF PacketInv
<1>3. CASE UNCHANGED <<packetVars, localVars, readers, pc>>
  BY <1>1, <1>3 DEF PacketInv, LockInv, OwnerInv, Owned, WorksOn, packetVars, localVars
<1> QED
  BY <1>2, <1>3 DEF Next, WorkerStep, Crash, Datagram, vars

(* udp/endPacket sends what its caller put together: the target of its       *)
(* udp/beginPacket and each piece of its udp/write calls once, whatever the  *)
(* other callers do under the shared read lock on other identifiers.         *)
THEOREM PacketsStayIntact == Spec => []PacketIntact
<1>1. Init => PacketInv
  BY NetworkInit, NoneAssumption DEF Init, PacketInv, LockInv, OwnerInv, Locked
<1>2. PacketInv => PacketIntact
  BY DEF PacketInv, LockInv, OwnerInv, Owned, PacketIntact, PiecesOf, Locked
<1> QED  BY <1>1, <1>2, PacketsKeep, PTL DEF Spec

-----------------------------------------------------------------------------
(***************************************************************************)
(* Datagrams.                                                               *)
(***************************************************************************)
(* A datagram as it was received, and what is left when one byte was read.   *)
Whole(p) == << <<p, 1>>, <<p, 2>> >>
Rest(p)  == << <<p, 2>> >>

(* The number of the datagram that the bytes s are of, and the bytes.        *)
Number(s)  == s[1][1]
Content(s) == {s[j] : j \in DOMAIN s}

(* What is held anywhere is one of the datagrams that have arrived, or the   *)
(* rest of one.                                                              *)
BytesInv ==
    /\ \A h \in Handle : \A j \in DOMAIN inbox[h] : inbox[h][j] <= arrived
    /\ \A w \in Worker : pc[w] = "keep" => \E p \in 1 .. arrived : buf[w] = Whole(p)
    /\ \A i \in Id : udpReadBuffers[i] # <<>> =>
           \E p \in 1 .. arrived : udpReadBuffers[i] \in {Whole(p), Rest(p)}

(* A datagram is in one socket at one position ...                           *)
InboxInv ==
    \A h, k \in Handle : \A j \in DOMAIN inbox[h], l \in DOMAIN inbox[k] :
        inbox[h][j] = inbox[k][l] => h = k /\ j = l

(* ... or with one udp/awaitPacket that has received it ...                  *)
KeepInv ==
    \A w \in Worker : pc[w] = "keep" =>
        /\ \A h \in Handle : \A j \in DOMAIN inbox[h] : inbox[h][j] # Number(buf[w])
        /\ \A v \in Worker : pc[v] = "keep" /\ Number(buf[v]) = Number(buf[w]) => v = w

(* ... or in one buffer.                                                     *)
BufferInv ==
    \A i \in Id : udpReadBuffers[i] # <<>> =>
        /\ \A h \in Handle : \A j \in DOMAIN inbox[h] :
               inbox[h][j] # Number(udpReadBuffers[i])
        /\ \A w \in Worker : pc[w] = "keep" => Number(buf[w]) # Number(udpReadBuffers[i])
        /\ \A k \in Id :
               udpReadBuffers[k] # <<>>
               /\ Number(udpReadBuffers[k]) = Number(udpReadBuffers[i]) => k = i

(* A byte that was returned is of a datagram that has left its socket and    *)
(* was stored, and is no longer in the buffer.                               *)
GivenInv ==
    \A b \in given :
        /\ b[1] <= arrived
        /\ \A h \in Handle : \A j \in DOMAIN inbox[h] : inbox[h][j] # b[1]
        /\ \A w \in Worker : pc[w] = "keep" => Number(buf[w]) # b[1]
        /\ \A i \in Id : b \notin Content(udpReadBuffers[i])

DatagramInv == BytesInv /\ InboxInv /\ KeepInv /\ BufferInv /\ GivenInv

LEMMA PacketShapes ==
    ASSUME NEW p
    PROVE  /\ Number(Whole(p)) = p /\ Number(Rest(p)) = p
           /\ Whole(p) # <<>> /\ Rest(p) # <<>>
           /\ Len(Whole(p)) = 2 /\ Len(Rest(p)) = 1
           /\ Whole(p)[1] = <<p, 1>> /\ Whole(p)[2] = <<p, 2>> /\ Rest(p)[1] = <<p, 2>>
           /\ Content(Whole(p)) = {<<p, 1>>, <<p, 2>>} /\ Content(Rest(p)) = {<<p, 2>>}
           /\ Content(<<>>) = {}
           /\ SubSeq(Whole(p), 2, 2) = Rest(p) /\ SubSeq(Whole(p), 3, 2) = <<>>
           /\ SubSeq(Rest(p), 2, 1) = <<>>
<1>1. /\ Number(Whole(p)) = p /\ Number(Rest(p)) = p
      /\ Whole(p) # <<>> /\ Rest(p) # <<>>
      /\ Len(Whole(p)) = 2 /\ Len(Rest(p)) = 1
      /\ Whole(p)[1] = <<p, 1>> /\ Whole(p)[2] = <<p, 2>> /\ Rest(p)[1] = <<p, 2>>
  BY DEF Whole, Rest, Number
<1>2. DOMAIN Whole(p) = {1, 2} /\ DOMAIN Rest(p) = {1} /\ DOMAIN <<>> = {}
  BY DEF Whole, Rest
<1>3. /\ Content(Whole(p)) = {<<p, 1>>, <<p, 2>>} /\ Content(Rest(p)) = {<<p, 2>>}
      /\ Content(<<>>) = {}
  BY <1>1, <1>2 DEF Content
<1>4. /\ SubSeq(Whole(p), 2, 2) = Rest(p) /\ SubSeq(Whole(p), 3, 2) = <<>>
      /\ SubSeq(Rest(p), 2, 1) = <<>>
  <2>1. PICK S : S = {<<p, 1>>, <<p, 2>>}
    OBVIOUS
  <2>2. Whole(p) \in Seq(S) /\ Rest(p) \in Seq(S)
    BY <2>1 DEF Whole, Rest
  <2>3. ASSUME NEW s \in Seq(S), NEW n \in Nat, Len(s) = n
        PROVE  SubSeq(s, n + 1, n) = <<>>
    BY <2>3
  <2>4. ASSUME NEW s \in Seq(S), Len(s) = 2
        PROVE  SubSeq(s, 2, 2) = <<s[2]>>
    <3>1. PICK t : t = SubSeq(s, 2, 2)
      OBVIOUS
    <3>2. t \in Seq(S) /\ Len(t) = 1 /\ t[1] = s[2]
      BY <2>4, <3>1
    <3>3. PICK u \in Seq(S) : u = <<s[2]>>
      <4>1. s[2] \in S
        BY <2>4
      <4>2. <<s[2]>> \in Seq(S)
        BY <4>1
      <4> QED  BY <4>2
    <3>4. Len(u) = 1 /\ u[1] = s[2]
      BY <3>3
    <3>5. t = u
      BY <3>2, <3>4, SeqEqual
    <3> QED  BY <3>1, <3>3, <3>5
  <2>5. SubSeq(Whole(p), 2, 2) = <<Whole(p)[2]>>
    BY <1>1, <2>2, <2>4
  <2>6. SubSeq(Whole(p), 2 + 1, 2) = <<>> /\ SubSeq(Rest(p), 1 + 1, 1) = <<>>
    BY <1>1, <2>2, <2>3
  <2> QED  BY <1>1, <2>5, <2>6 DEF Rest
<1> QED  BY <1>1, <1>3, <1>4

(* A step that brings no datagram further: some may be dropped.              *)
NoneMoves ==
    /\ UNCHANGED <<arrived, given>>
    /\ \A h \in Handle : inbox'[h] = inbox[h] \/ inbox'[h] = <<>>
    /\ \A i \in Id : udpReadBuffers'[i] = udpReadBuffers[i] \/ udpReadBuffers'[i] = <<>>
    /\ \A w \in Worker : pc'[w] = "keep" => pc[w] = "keep" /\ buf'[w] = buf[w]

LEMMA NoneMovesKeeps ==
    ASSUME DatagramInv, NoneMoves
    PROVE  DatagramInv'
<1> USE DEF DatagramInv, NoneMoves
<1>0. DOMAIN <<>> = {}
  OBVIOUS
<1>1. \A h \in Handle : \A j \in DOMAIN inbox'[h] :
          j \in DOMAIN inbox[h] /\ inbox'[h][j] = inbox[h][j]
  BY <1>0
<1>2. BytesInv'
  BY <1>1 DEF BytesInv
<1>3. InboxInv'
  BY <1>1 DEF InboxInv
<1>4. KeepInv'
  BY <1>1 DEF KeepInv
<1>5. BufferInv'
  BY <1>1 DEF BufferInv
<1>6. GivenInv'
  BY <1>1, PacketShapes DEF GivenInv
<1> QED  BY <1>2, <1>3, <1>4, <1>5, <1>6

(* Where udp/awaitPacket receives it.                                        *)
LEMMA ReadFromKeeps ==
    ASSUME TypeInv, DatagramInv, NEW w \in Worker, ReadFrom(w)
    PROVE  DatagramInv'
<1> USE DEF DatagramInv
<1>0. TypeOK
  BY DEF TypeInv
<1>1. PICK h \in Handle : h = hand[w]
  BY DEF ReadFrom, TypeInv, HeldInv
<1>2. PICK queue \in Seq(1 .. MaxPackets) : queue = inbox[h]
  BY <1>0 DEF TypeOK
<1>3. /\ queue # <<>> /\ inbox' = [inbox EXCEPT ![h] = Tail(queue)]
      /\ pc' = [pc EXCEPT ![w] = "keep"]
      /\ buf' = [buf EXCEPT ![w] = Whole(Head(queue))]
      /\ UNCHANGED <<arrived, udpReadBuffers, given>>
  BY <1>1, <1>2 DEF ReadFrom, Goto, Whole, readVars
<1>4. PICK p \in 1 .. MaxPackets : p = queue[1] /\ p = Head(queue)
  BY <1>2, <1>3, TakeFromQueue
<1>5. /\ \A k \in Handle \ {h} : inbox'[k] = inbox[k]
      /\ \A l \in DOMAIN inbox'[h] : l + 1 \in DOMAIN inbox[h] /\ l \in Nat \ {0}
                                     /\ inbox'[h][l] = inbox[h][l + 1]
      /\ 1 \in DOMAIN inbox[h] /\ inbox[h][1] = p
  <2>1. inbox'[h] = Tail(queue) /\ \A k \in Handle \ {h} : inbox'[k] = inbox[k]
    BY <1>0, <1>3 DEF TypeOK
  <2>2. /\ Len(queue) \in Nat /\ Len(queue) >= 1
        /\ Tail(queue) \in Seq(1 .. MaxPackets) /\ Len(Tail(queue)) = Len(queue) - 1
        /\ \A j \in 1 .. Len(queue) - 1 : Tail(queue)[j] = queue[j + 1]
    BY <1>2, <1>3, TakeFromQueue
  <2>3. DOMAIN queue = 1 .. Len(queue) /\ DOMAIN Tail(queue) = 1 .. Len(queue) - 1
    BY <2>2
  <2> QED  BY <1>2, <1>4, <2>1, <2>2, <2>3
<1>6. /\ buf'[w] = Whole(p) /\ pc'[w] = "keep" /\ Number(Whole(p)) = p
      /\ \A v \in Worker \ {w} : pc'[v] = pc[v] /\ buf'[v] = buf[v]
  BY <1>0, <1>3, <1>4, PacketShapes DEF TypeOK
<1>7. p \in 1 .. arrived
  BY <1>0, <1>4, <1>5, BoundAssumption DEF BytesInv, TypeOK
<1>8. /\ \A k \in Handle : \A l \in DOMAIN inbox'[k] :
             \E j \in DOMAIN inbox[k] : inbox[k][j] = inbox'[k][l]
      /\ \A k \in Handle : \A l \in DOMAIN inbox'[k] : inbox'[k][l] # p
  <2>1. ASSUME NEW k \in Handle, NEW l \in DOMAIN inbox'[k]
        PROVE  /\ \E j \in DOMAIN inbox[k] : inbox[k][j] = inbox'[k][l]
               /\ inbox'[k][l] # p
    <3>1. CASE k = h
      BY <1>5, <2>1, <3>1 DEF InboxInv
    <3>2. CASE k # h
      BY <1>5, <2>1, <3>2 DEF InboxInv
    <3> QED  BY <3>1, <3>2
  <2> QED  BY <2>1
<1>9. BytesInv'
  <2>1. \A k \in Handle : \A j \in DOMAIN inbox'[k] : inbox'[k][j] <= arrived'
    BY <1>3, <1>8 DEF BytesInv
  <2>2. \A v \in Worker : pc'[v] = "keep" => \E q \in 1 .. arrived' : buf'[v] = Whole(q)
    BY <1>3, <1>6, <1>7 DEF BytesInv
  <2> QED  BY <1>3, <2>1, <2>2 DEF BytesInv
<1>10. InboxInv'
  <2>1. ASSUME NEW i \in Handle, NEW k \in Handle, NEW j \in DOMAIN inbox'[i],
               NEW l \in DOMAIN inbox'[k], inbox'[i][j] = inbox'[k][l]
        PROVE  i = k /\ j = l
    <3>1. CASE i = h /\ k = h
      BY <1>5, <2>1, <3>1 DEF InboxInv
    <3>2. CASE i = h /\ k # h
      BY <1>5, <2>1, <3>2 DEF InboxInv
    <3>3. CASE i # h /\ k = h
      BY <1>5, <2>1, <3>3 DEF InboxInv
    <3>4. CASE i # h /\ k # h
      BY <1>5, <2>1, <3>4 DEF InboxInv
    <3> QED  BY <3>1, <3>2, <3>3, <3>4
  <2> QED  BY <2>1 DEF InboxInv
<1>11. KeepInv'
  <2>1. \A v \in Worker \ {w} : pc[v] = "keep" => Number(buf[v]) # p
    BY <1>5 DEF KeepInv
  <2>2. ASSUME NEW v \in Worker, pc'[v] = "keep"
        PROVE  /\ \A k \in Handle : \A j \in DOMAIN inbox'[k] : inbox'[k][j] # Number(buf'[v])
               /\ \A u \in Worker : pc'[u] = "keep" /\ Number(buf'[u]) = Number(buf'[v])
                                    => u = v
    <3>1. CASE v = w
      BY <1>6, <1>8, <2>1, <3>1
    <3>2. CASE v # w
      BY <1>6, <1>8, <2>1, <2>2, <3>2 DEF KeepInv
    <3> QED  BY <3>1, <3>2
  <2> QED  BY <2>2 DEF KeepInv
<1>12. BufferInv'
  BY <1>3, <1>5, <1>6, <1>8 DEF BufferInv
<1>13. GivenInv'
  BY <1>3, <1>5, <1>6, <1>8 DEF GivenInv
<1> QED  BY <1>9, <1>10, <1>11, <1>12, <1>13

(* Where it is stored.                                                       *)
LEMMA KeepPacketKeeps ==
    ASSUME TypeInv, DatagramInv, NEW w \in Worker, KeepPacket(w)
    PROVE  DatagramInv'
<1> USE DEF DatagramInv
<1>0. TypeOK
  BY DEF TypeInv
<1>1. PICK p \in 1 .. arrived : buf[w] = Whole(p)
  BY DEF KeepPacket, BytesInv
<1>2. PICK i \in Id : i = id[w]
  BY <1>0 DEF TypeOK
<1>3. /\ pc[w] = "keep" /\ UNCHANGED <<inbox, arrived, given>>
      /\ udpReadBuffers' = [udpReadBuffers EXCEPT ![i] = Whole(p)]
      /\ OthersRest(w) /\ pc'[w] = "idle"
  BY <1>1, <1>2, ForgetRests DEF KeepPacket, Return, osVars
<1>4. /\ udpReadBuffers'[i] = Whole(p)
      /\ \A k \in Id \ {i} : udpReadBuffers'[k] = udpReadBuffers[k]
  BY <1>0, <1>3 DEF TypeOK
<1>5. Number(Whole(p)) = p /\ Number(buf[w]) = p
  BY <1>1, PacketShapes
<1>6. BytesInv'
  BY <1>3, <1>4 DEF BytesInv, OthersRest
<1>7. InboxInv'
  BY <1>3 DEF InboxInv
<1>8. KeepInv'
  BY <1>3 DEF KeepInv, OthersRest
<1>9. BufferInv'
  <2>1. ASSUME NEW k \in Id, udpReadBuffers'[k] # <<>>
        PROVE  /\ \A h \in Handle : \A j \in DOMAIN inbox[h] :
                      inbox[h][j] # Number(udpReadBuffers'[k])
               /\ \A v \in Worker : pc'[v] = "keep" =>
                      Number(buf'[v]) # Number(udpReadBuffers'[k])
               /\ \A l \in Id : udpReadBuffers'[l] # <<>>
                      /\ Number(udpReadBuffers'[l]) = Number(udpReadBuffers'[k]) => l = k
    <3>1. CASE k = i
      BY <1>3, <1>4, <1>5, <3>1 DEF KeepInv, BufferInv, OthersRest
    <3>2. CASE k # i
      BY <1>3, <1>4, <1>5, <2>1, <3>2 DEF KeepInv, BufferInv, OthersRest
    <3> QED  BY <3>1, <3>2
  <2> QED  BY <1>3, <2>1 DEF BufferInv
<1>10. GivenInv'
  <2>1. \A b \in given : b \notin Content(Whole(p))
    <3>1. \A b \in given : b[1] # p
      BY <1>3, <1>5 DEF GivenInv
    <3>2. <<p, 1>>[1] = p /\ <<p, 2>>[1] = p
      OBVIOUS
    <3> QED  BY <3>1, <3>2, PacketShapes
  <2> QED  BY <1>3, <1>4, <2>1 DEF GivenInv, OthersRest
<1> QED  BY <1>6, <1>7, <1>8, <1>9, <1>10

(* Where udp/read returns bytes of it.                                       *)
LEMMA udpReadKeepsApart ==
    ASSUME TypeInv, DatagramInv, NEW w \in Worker, udpRead(w)
    PROVE  DatagramInv'
<1> USE DEF DatagramInv
<1>0. TypeOK
  BY DEF TypeInv
<1>1. PICK i \in Id, maxBytes \in 1 .. 2 :
         LET data == udpReadBuffers[i]
             n    == IF Len(data) > maxBytes THEN maxBytes ELSE Len(data)
         IN  /\ data # <<>>
             /\ given' = given \cup {data[j] : j \in 1 .. n}
             /\ udpReadBuffers' = [udpReadBuffers EXCEPT ![i] = SubSeq(data, n + 1, Len(data))]
  BY DEF udpRead
<1>2. UNCHANGED <<inbox, arrived, pc, buf>>
  BY DEF udpRead, osVars, localVars
<1>3. PICK p \in 1 .. arrived : udpReadBuffers[i] \in {Whole(p), Rest(p)}
  BY <1>1 DEF BytesInv
<1>4. PICK taken, left :
          /\ given' = given \cup taken
          /\ udpReadBuffers' = [udpReadBuffers EXCEPT ![i] = left]
          /\ taken \subseteq {<<p, 1>>, <<p, 2>>} /\ taken \subseteq Content(udpReadBuffers[i])
          /\ left \in {<<>>, Rest(p)}
          /\ Content(left) \subseteq Content(udpReadBuffers[i]) \ taken
  <2>1. PICK data : data = udpReadBuffers[i]
    OBVIOUS
  <2>2. /\ Len(data) \in {1, 2}
        /\ given' = given \cup {data[j] : j \in 1 .. (IF Len(data) > maxBytes
                                                      THEN maxBytes ELSE Len(data))}
        /\ udpReadBuffers' = [udpReadBuffers EXCEPT
               ![i] = SubSeq(data, (IF Len(data) > maxBytes THEN maxBytes ELSE Len(data)) + 1,
                             Len(data))]
    BY <1>1, <1>3, <2>1, PacketShapes
  <2>3. 1 .. 1 = {1} /\ 1 .. 2 = {1, 2}
    OBVIOUS
  <2>4. CASE data = Whole(p) /\ maxBytes = 1
    <3>1. Len(data) = 2
      BY <2>4, PacketShapes
    <3>2. /\ given' = given \cup {data[1]}
          /\ udpReadBuffers' = [udpReadBuffers EXCEPT ![i] = SubSeq(data, 2, 2)]
      BY <2>2, <2>3, <2>4, <3>1
    <3>3. <<p, 1>> # <<p, 2>>
      OBVIOUS
    <3>4. PICK taken, left : taken = {<<p, 1>>} /\ left = Rest(p)
      OBVIOUS
    <3>5. /\ given' = given \cup taken
          /\ udpReadBuffers' = [udpReadBuffers EXCEPT ![i] = left]
          /\ Content(left) \subseteq Content(data) \ taken /\ taken \subseteq Content(data)
      BY <2>4, <3>2, <3>3, <3>4, PacketShapes
    <3> QED  BY <2>1, <3>4, <3>5
  <2>5. CASE data = Whole(p) /\ maxBytes = 2
    <3>1. Len(data) = 2
      BY <2>5, PacketShapes
    <3>2. /\ given' = given \cup {data[1], data[2]}
          /\ udpReadBuffers' = [udpReadBuffers EXCEPT ![i] = SubSeq(data, 3, 2)]
      BY <2>2, <2>3, <2>5, <3>1
    <3> QED  BY <2>1, <2>5, <3>2, PacketShapes
  <2>6. CASE data = Rest(p)
    <3>1. Len(data) = 1
      BY <2>6, PacketShapes
    <3>2. ~(1 > maxBytes)
      OBVIOUS
    <3>3. /\ given' = given \cup {data[j] : j \in 1 .. 1}
          /\ udpReadBuffers' = [udpReadBuffers EXCEPT ![i] = SubSeq(data, 1 + 1, 1)]
      BY <2>2, <3>1, <3>2
    <3>4. given' = given \cup {data[1]}
      BY <2>3, <3>3
    <3>5. PICK taken, left : taken = {<<p, 2>>} /\ left = <<>>
      OBVIOUS
    <3>6. /\ given' = given \cup taken
          /\ udpReadBuffers' = [udpReadBuffers EXCEPT ![i] = left]
          /\ Content(left) \subseteq Content(data) \ taken /\ taken \subseteq Content(data)
      <4>1. udpReadBuffers' = [udpReadBuffers EXCEPT ![i] = SubSeq(Rest(p), 2, 1)]
        BY <2>6, <3>3
      <4>2. SubSeq(Rest(p), 2, 1) = left /\ Content(left) = {} /\ data[1] = <<p, 2>>
            /\ Content(data) = {<<p, 2>>}
        BY <2>6, <3>5, PacketShapes
      <4> QED  BY <3>4, <3>5, <4>1, <4>2
    <3> QED  BY <2>1, <3>5, <3>6
  <2>7. maxBytes = 1 \/ maxBytes = 2
    OBVIOUS
  <2> QED  BY <1>3, <2>1, <2>4, <2>5, <2>6, <2>7
<1>5. /\ udpReadBuffers'[i] = left
      /\ \A k \in Id \ {i} : udpReadBuffers'[k] = udpReadBuffers[k]
  BY <1>0, <1>4 DEF TypeOK
<1>6. Number(udpReadBuffers[i]) = p /\ udpReadBuffers[i] # <<>> /\ Number(Rest(p)) = p
  BY <1>3, PacketShapes
<1>7. BytesInv'
  BY <1>2, <1>3, <1>4, <1>5 DEF BytesInv
<1>8. InboxInv' /\ KeepInv'
  BY <1>2 DEF InboxInv, KeepInv
<1>9. BufferInv'
  BY <1>2, <1>4, <1>5, <1>6 DEF BufferInv
<1>10. \A b \in taken : b[1] = p
  BY <1>4
<1>11. \A b \in taken : \A k \in Id \ {i} : b \notin Content(udpReadBuffers[k])
  <2>1. ASSUME NEW b \in taken, NEW k \in Id \ {i}, b \in Content(udpReadBuffers[k])
        PROVE  FALSE
    <3>1. udpReadBuffers[k] # <<>>
      BY <2>1, PacketShapes
    <3>2. PICK q \in 1 .. arrived : udpReadBuffers[k] \in {Whole(q), Rest(q)}
      BY <3>1 DEF BytesInv
    <3>3. Number(udpReadBuffers[k]) = q /\ b \in {<<q, 1>>, <<q, 2>>}
      BY <2>1, <3>2, PacketShapes
    <3>4. b[1] = q
      BY <3>3
    <3> QED  BY <1>6, <1>10, <2>1, <3>1, <3>3, <3>4 DEF BufferInv
  <2> QED  BY <2>1
<1>12. ASSUME NEW b \in given'
       PROVE  /\ b[1] <= arrived
              /\ \A h \in Handle : \A j \in DOMAIN inbox[h] : inbox[h][j] # b[1]
              /\ \A v \in Worker : pc[v] = "keep" => Number(buf[v]) # b[1]
              /\ \A k \in Id : b \notin Content(udpReadBuffers'[k])
  <2>1. CASE b \in given
    BY <1>4, <1>5, <2>1 DEF GivenInv
  <2>2. CASE b \in taken
    BY <1>3, <1>4, <1>5, <1>6, <1>10, <1>11, <2>2 DEF BufferInv
  <2> QED  BY <1>4, <2>1, <2>2
<1>13. GivenInv'
  BY <1>2, <1>12 DEF GivenInv
<1> QED  BY <1>7, <1>8, <1>9, <1>13

(* Where it arrives: it has a new number.                                    *)
LEMMA DatagramKeeps ==
    ASSUME TypeInv, DatagramInv, NEW h \in Handle, Datagram(h)
    PROVE  DatagramInv'
<1> USE DEF DatagramInv
<1>0. TypeOK /\ arrived \in Nat
  BY BoundAssumption DEF TypeInv, TypeOK
<1>1. /\ arrived' = arrived + 1 /\ inbox' = [inbox EXCEPT ![h] = Append(inbox[h], arrived + 1)]
      /\ UNCHANGED <<udpReadBuffers, given, pc, buf>>
  BY DEF Datagram, readVars, localVars
<1>2. PICK queue \in Seq(1 .. MaxPackets) : queue = inbox[h]
  BY <1>0 DEF TypeOK
<1>3. PICK last \in Nat : last = Len(queue) + 1
  BY <1>2
<1>4. /\ \A k \in Handle \ {h} : inbox'[k] = inbox[k]
      /\ DOMAIN inbox[h] = 1 .. last - 1 /\ DOMAIN inbox'[h] = 1 .. last
      /\ \A j \in 1 .. last - 1 : inbox'[h][j] = inbox[h][j]
      /\ inbox'[h][last] = arrived + 1
  <2>1. inbox'[h] = Append(queue, arrived + 1) /\ \A k \in Handle \ {h} : inbox'[k] = inbox[k]
    BY <1>0, <1>1, <1>2 DEF TypeOK
  <2>2. Len(queue) \in Nat /\ DOMAIN queue = 1 .. Len(queue)
    BY <1>2
  <2>3. /\ DOMAIN Append(queue, arrived + 1) = 1 .. last
        /\ \A j \in 1 .. last - 1 : Append(queue, arrived + 1)[j] = queue[j]
        /\ Append(queue, arrived + 1)[last] = arrived + 1
    BY <1>2, <1>3, <2>2
  <2> QED  BY <1>2, <1>3, <2>1, <2>2, <2>3
<1>5. \A k \in Handle : \A l \in DOMAIN inbox'[k] :
          \/ l \in DOMAIN inbox[k] /\ inbox'[k][l] = inbox[k][l]
          \/ k = h /\ l = last /\ inbox'[k][l] = arrived + 1
  BY <1>3, <1>4
<1>6. \A k \in Handle : \A l \in DOMAIN inbox[k] :
          inbox[k][l] \in Nat /\ inbox[k][l] <= arrived
  <2>1. ASSUME NEW k \in Handle, NEW l \in DOMAIN inbox[k] PROVE inbox[k][l] \in Nat
    <3>1. PICK q \in Seq(1 .. MaxPackets) : q = inbox[k]
      BY <1>0 DEF TypeOK
    <3>2. l \in DOMAIN q
      BY <2>1, <3>1
    <3>3. q[l] \in 1 .. MaxPackets
      BY <3>2, InSequence
    <3> QED  BY <3>1, <3>3, BoundAssumption
  <2> QED  BY <2>1 DEF BytesInv
<1>7. /\ \A w \in Worker : pc[w] = "keep" => Number(buf[w]) \in 1 .. arrived
      /\ \A i \in Id : udpReadBuffers[i] # <<>> => Number(udpReadBuffers[i]) \in 1 .. arrived
      /\ \A b \in given : b[1] # arrived + 1 /\ b[1] <= arrived'
  <2>1. \A w \in Worker : pc[w] = "keep" => Number(buf[w]) \in 1 .. arrived
    BY PacketShapes DEF BytesInv
  <2>2. \A i \in Id : udpReadBuffers[i] # <<>> => Number(udpReadBuffers[i]) \in 1 .. arrived
    BY PacketShapes DEF BytesInv
  <2>3. \A b \in given : b[1] \in Nat /\ b[1] <= arrived
    BY <1>0 DEF GivenInv, TypeOK, Byte
  <2> QED  BY <1>0, <1>1, <2>1, <2>2, <2>3
<1>8. BytesInv'
  <2>1. \A k \in Handle : \A j \in DOMAIN inbox'[k] : inbox'[k][j] <= arrived'
    BY <1>0, <1>1, <1>5, <1>6
  <2>2. 1 .. arrived \subseteq 1 .. arrived'
    BY <1>0, <1>1
  <2> QED  BY <1>1, <2>1, <2>2 DEF BytesInv
<1>9. InboxInv'
  <2>1. ASSUME NEW i \in Handle, NEW k \in Handle, NEW j \in DOMAIN inbox'[i],
               NEW l \in DOMAIN inbox'[k], inbox'[i][j] = inbox'[k][l]
        PROVE  i = k /\ j = l
    BY <1>0, <1>5, <1>6, <2>1 DEF InboxInv
  <2> QED  BY <2>1 DEF InboxInv
<1>10. KeepInv'
  BY <1>0, <1>1, <1>5, <1>7 DEF KeepInv
<1>11. BufferInv'
  BY <1>0, <1>1, <1>5, <1>7 DEF BufferInv
<1>12. GivenInv'
  BY <1>1, <1>5, <1>7 DEF GivenInv
<1> QED  BY <1>8, <1>9, <1>10, <1>11, <1>12

(* The other steps of a worker.                                              *)
LEMMA OtherStepsMoveNone ==
    ASSUME TypeInv, NEW w \in Worker, WorkerStep(w),
           ~ReadFrom(w), ~KeepPacket(w), ~udpRead(w)
    PROVE  NoneMoves
<1>0. TypeOK
  BY DEF TypeInv
<1>1. CASE tcpConnect(w) \/ tcpConnectSSL(w) \/ tcpListen(w) \/ udpConnect(w) \/ Accepted(w)
  <2>1. /\ UNCHANGED <<arrived, readVars, buf>>
        /\ \E h \in Handle : inbox' = [inbox EXCEPT ![h] = <<>>]
        /\ pc' = [pc EXCEPT ![w] = "store"]
    BY <1>1 DEF tcpConnect, tcpConnectSSL, tcpListen, udpConnect, Accepted, NewSocket, Goto
  <2> QED  BY <1>0, <2>1 DEF TypeOK, NoneMoves, readVars
<1>2. CASE tcpAccept(w) \/ tcpRead(w) \/ tcpWrite(w) \/ udpAwaitPacket(w) \/ tcpClose(w)
           \/ tcpCloseListener(w) \/ udpBeginPacket(w)
  <2>1. UNCHANGED <<osVars, readVars, buf>>
    BY <1>2 DEF tcpAccept, tcpRead, tcpWrite, udpAwaitPacket, tcpClose, tcpCloseListener,
                udpBeginPacket
  <2>2. PICK i \in Id, table \in {liveListeners, liveConnections, liveUdpConnections},
             step \in {"accept", "deadline", "write", "close", "resolve"} :
                 Lookup(w, table, i, step)
    BY <1>2 DEF tcpAccept, tcpRead, tcpWrite, udpAwaitPacket, tcpClose, tcpCloseListener,
                udpBeginPacket
  <2> QED  BY <2>1, <2>2, LookupRests DEF NoneMoves, osVars, readVars
<1>3. CASE udpEndPacket(w) \/ udpWrite(w) \/ udpDropPacket(w)
  <2>1. /\ UNCHANGED <<osVars, readVars>>
        /\ \A v \in Worker \ {w} : buf'[v] = buf[v]
    BY <1>0, <1>3 DEF udpEndPacket, udpWrite, udpDropPacket, TypeOK
  <2>2. /\ pc'[w] \in {"end", "append", "drop"}
        /\ \A v \in Worker \ {w} : pc'[v] = pc[v]
    BY <1>0, <1>3 DEF udpEndPacket, udpWrite, udpDropPacket, Lookup, Goto, TypeOK
  <2> QED  BY <2>1, <2>2 DEF NoneMoves, osVars, readVars
<1>4. CASE udpClose(w)
  <2>1. /\ UNCHANGED <<osVars, given, buf>>
        /\ \E i \in Id : udpReadBuffers' = [udpReadBuffers EXCEPT ![i] = <<>>]
    BY <1>4 DEF udpClose
  <2>2. \/ \E i \in Id : Lookup(w, liveUdpConnections, i, "close")
        \/ UNCHANGED pc
    BY <1>4 DEF udpClose
  <2>3. \A v \in Worker : pc'[v] = "keep" => pc[v] = "keep"
    BY <2>2, LookupRests
  <2> QED  BY <1>0, <2>1, <2>3 DEF TypeOK, NoneMoves, osVars
<1>5. CASE Store(w) \/ AcceptFails(w) \/ CloseSocket(w) \/ CallEnds(w) \/ WriteTo(w)
           \/ Drop(w) \/ ResolveFails(w) \/ Respond(w) \/ AppendPiece(w)
  <2>1. /\ Forget(w) /\ UNCHANGED <<inbox, arrived, given>>
    BY <1>5 DEF Store, AcceptFails, CloseSocket, CallEnds, WriteTo, Drop, ResolveFails,
                Respond, AppendPiece, Return, osVars, readVars
  <2>2. \A i \in Id : udpReadBuffers'[i] = udpReadBuffers[i] \/ udpReadBuffers'[i] = <<>>
    BY <1>0, <1>5 DEF Store, AcceptFails, CloseSocket, CallEnds, WriteTo, Drop, ResolveFails,
                      Respond, AppendPiece, readVars, TypeOK
  <2> QED  BY <2>1, <2>2, ForgetRests DEF NoneMoves, OthersRest
<1>6. CASE SetReadDeadline(w) \/ Resolved(w) \/ Begin(w)
  <2>1. /\ UNCHANGED <<inbox, arrived, readVars, buf>>
        /\ \E step \in {"read", "begin", "respond"} : pc' = [pc EXCEPT ![w] = step]
    BY <1>6 DEF SetReadDeadline, Resolved, Begin, Goto, localVars, osVars
  <2> QED  BY <1>0, <2>1 DEF TypeOK, NoneMoves, readVars
<1>7. CASE TakePacket(w)
  <2>1. UNCHANGED <<osVars, readVars>>
    BY <1>7 DEF TakePacket
  <2>2. OthersRest(w) /\ pc'[w] \in {"idle", "send"}
    <3>1. CASE buf[w] = None
      BY <1>7, <3>1, ForgetRests DEF TakePacket
    <3>2. CASE buf[w] # None
      BY <1>0, <1>7, <3>2 DEF TakePacket, Goto, TypeOK, OthersRest
    <3> QED  BY <3>1, <3>2
  <2> QED  BY <2>1, <2>2 DEF NoneMoves, OthersRest, osVars, readVars
<1> QED
  BY <1>1, <1>2, <1>3, <1>4, <1>5, <1>6, <1>7 DEF WorkerStep, Tcp, Udp, Running

LEMMA DatagramsKeep == TypeInv /\ DatagramInv /\ [Next]_vars => DatagramInv'
<1> SUFFICES ASSUME TypeInv, DatagramInv, [Next]_vars PROVE DatagramInv'
  OBVIOUS
<1>1. ASSUME NEW w \in Worker, WorkerStep(w) PROVE DatagramInv'
  BY <1>1, ReadFromKeeps, KeepPacketKeeps, udpReadKeepsApart, OtherStepsMoveNone,
     NoneMovesKeeps
<1>2. ASSUME NEW h \in Handle, Datagram(h) PROVE DatagramInv'
  BY <1>2, DatagramKeeps
<1>3. CASE Crash \/ UNCHANGED vars
  <2>1. NoneMoves
    BY <1>3 DEF Crash, vars, osVars, readVars, localVars, NoneMoves
  <2> QED  BY <2>1, NoneMovesKeeps
<1> QED  BY <1>1, <1>2, <1>3 DEF Next, WorkerStep

(* udp/read returns every byte of a datagram once, however udp/awaitPacket,  *)
(* udp/read, udp/dropPacket and udp/close of several callers interleave on   *)
(* one identifier.                                                           *)
THEOREM BytesAreReadOnce == Spec => []NoByteTwice
<1>1. Init => TypeInv /\ DatagramInv
  <2> SUFFICES ASSUME Init PROVE DatagramInv
    BY NetworkInit
  <2>1. \A h \in Handle : DOMAIN inbox[h] = {}
    BY DEF Init
  <2>2. \A w \in Worker : pc[w] # "keep"
    BY DEF Init
  <2> QED
    BY <2>1, <2>2 DEF Init, DatagramInv, BytesInv, InboxInv, KeepInv, BufferInv, GivenInv
<1>2. TypeInv /\ DatagramInv => NoByteTwice
  <2> SUFFICES ASSUME TypeInv, DatagramInv, NEW b \in given
               PROVE  /\ \A i \in Id : b \notin Content(udpReadBuffers[i])
                      /\ \A w \in Worker : pc[w] = "keep" => b \notin {buf[w][1], buf[w][2]}
                      /\ \A h \in Handle : b[1] \notin {inbox[h][j] : j \in DOMAIN inbox[h]}
    BY DEF NoByteTwice, Content
  <2>1. ASSUME NEW w \in Worker, pc[w] = "keep" PROVE b \notin {buf[w][1], buf[w][2]}
    <3>1. PICK p \in 1 .. arrived : buf[w] = Whole(p)
      BY <2>1 DEF DatagramInv, BytesInv
    <3>2. buf[w][1][1] = p /\ buf[w][2][1] = p /\ Number(buf[w]) = p
      BY <3>1 DEF Whole, Number
    <3> QED  BY <2>1, <3>2 DEF DatagramInv, GivenInv
  <2> QED  BY <2>1 DEF DatagramInv, GivenInv
<1> QED  BY <1>1, <1>2, TypesKeep, DatagramsKeep, PTL DEF Spec

-----------------------------------------------------------------------------
(***************************************************************************)
(* Sockets.                                                                 *)
(***************************************************************************)
(* Worker w has h, to enter it in a table or to close it.                    *)
Keeps(w, h) == pc[w] \in {"store", "close"} /\ hand[w] = h

(* Socket h is in a table.                                                   *)
Listed(h) == \E i \in Id : \/ liveConnections[i] = h
                           \/ liveListeners[i] = h
                           \/ liveUdpConnections[i] = h

(* A socket in a table is open and in the table of its kind ...              *)
TableInv ==
    \A h \in Handle, i \in Id :
        /\ liveConnections[i] = h => open[h] /\ kind[h] = "conn"
        /\ liveListeners[i] = h => open[h] /\ kind[h] = "listener"
        /\ liveUdpConnections[i] = h => open[h] /\ kind[h] = "udp"

(* ... under one identifier.                                                 *)
OnceInv ==
    \A h \in Handle, i, j \in Id :
        /\ liveConnections[i] = h /\ liveConnections[j] = h => i = j
        /\ liveListeners[i] = h /\ liveListeners[j] = h => i = j
        /\ liveUdpConnections[i] = h /\ liveUdpConnections[j] = h => i = j

(* A socket a handler enters or closes is open, its own, and in no table.    *)
HandInv ==
    \A w \in Worker, h \in Handle :
        Keeps(w, h) => open[h] /\ ~Listed(h) /\ \A v \in Worker : Keeps(v, h) => v = w

(* An open socket can be reached.                                            *)
FoundInv ==
    \A h \in Handle :
        open[h] /\ (kind[h] # "udp" \/ ~wrapped) => Listed(h) \/ \E w \in Worker : Keeps(w, h)

(* Until the counter wraps, the identifiers above it are unused.             *)
FreshInv == ~wrapped => \A i \in Id : i > nextConnectionID => liveUdpConnections[i] = None

HomeInv == TableInv /\ OnceInv /\ HandInv /\ FoundInv /\ FreshInv

(* A step that leaves every socket where it is.                              *)
NoneRehoused ==
    /\ UNCHANGED <<kind, open, tableVars, idVars>>
    /\ \A v \in Worker, h \in Handle : Keeps(v, h)' <=> Keeps(v, h)

LEMMA NoneRehousedKeeps ==
    ASSUME HomeInv, NoneRehoused
    PROVE  HomeInv'
<1> USE DEF HomeInv, NoneRehoused, tableVars, idVars
<1>1. \A h \in Handle : Listed(h)' <=> Listed(h)
  BY DEF Listed
<1>2. TableInv' /\ OnceInv' /\ FreshInv'
  BY DEF TableInv, OnceInv, FreshInv
<1>3. HandInv'
  BY <1>1 DEF HandInv
<1>4. FoundInv'
  BY <1>1 DEF FoundInv
<1> QED  BY <1>2, <1>3, <1>4

LEMMA NewSocketHoused ==
    ASSUME TypeInv, HomeInv, NEW w \in Worker, NEW k \in {"conn", "listener", "udp"},
           NewSocket(w, k), pc[w] \in {"idle", "accept"}
    PROVE  HomeInv'
<1> USE DEF HomeInv
<1>0. TypeOK
  BY DEF TypeInv
<1>1. PICK h \in Handle :
           /\ ~open[h] /\ ~Referred(h)
           /\ kind' = [kind EXCEPT ![h] = k]
           /\ open' = [open EXCEPT ![h] = TRUE]
           /\ hand' = [hand EXCEPT ![w] = h]
  BY DEF NewSocket
<1>2. /\ UNCHANGED <<liveConnections, liveListeners, liveUdpConnections, nextConnectionID,
                     wrapped>>
      /\ pc' = [pc EXCEPT ![w] = "store"]
  BY DEF NewSocket, Goto, tableVars, idVars
<1>3. ~Listed(h) /\ \A v \in Worker : ~Keeps(v, h)
  BY <1>1 DEF Referred, Listed, Keeps
<1>4. \A v \in Worker, g \in Handle : Keeps(v, g)' <=> Keeps(v, g) \/ (v = w /\ g = h)
  BY <1>0, <1>1, <1>2 DEF Keeps, TypeOK
<1>5. \A g \in Handle : Listed(g)' <=> Listed(g)
  BY <1>2 DEF Listed
<1>6. /\ open'[h] = TRUE
      /\ \A g \in Handle \ {h} : open'[g] = open[g] /\ kind'[g] = kind[g]
  BY <1>0, <1>1 DEF TypeOK
<1>7. TableInv'
  BY <1>2, <1>3, <1>6 DEF TableInv, Listed
<1>8. OnceInv' /\ FreshInv'
  BY <1>2 DEF OnceInv, FreshInv
<1>9. HandInv'
  BY <1>3, <1>4, <1>5, <1>6 DEF HandInv
<1>10. FoundInv'
  BY <1>2, <1>4, <1>5, <1>6 DEF FoundInv
<1> QED  BY <1>7, <1>8, <1>9, <1>10

LEMMA CloseHoused ==
    ASSUME TypeInv, HomeInv, NEW w \in Worker, CloseSocket(w)
    PROVE  HomeInv'
<1> USE DEF HomeInv
<1>0. TypeOK
  BY DEF TypeInv
<1>1. PICK h \in Handle : h = hand[w]
  BY DEF CloseSocket, TypeInv, HeldInv
<1>2. /\ UNCHANGED <<kind, liveConnections, liveListeners, liveUdpConnections,
                     nextConnectionID, wrapped>>
      /\ open' = [open EXCEPT ![h] = FALSE]
      /\ pc[w] = "close" /\ pc' = [pc EXCEPT ![w] = "idle"]
      /\ hand' = [hand EXCEPT ![w] = None]
  BY <1>1 DEF CloseSocket, Return, Forget, Goto, tableVars, idVars
<1>3. Keeps(w, h)
  BY <1>1, <1>2 DEF Keeps
<1>4. ~Listed(h) /\ \A v \in Worker : Keeps(v, h) => v = w
  BY <1>3 DEF HandInv
<1>5. \A v \in Worker, g \in Handle : Keeps(v, g)' <=> Keeps(v, g) /\ v # w
  BY <1>0, <1>2 DEF Keeps, TypeOK
<1>6. \A g \in Handle : Keeps(w, g) => g = h
  BY <1>1 DEF Keeps
<1>7. \A g \in Handle : Listed(g)' <=> Listed(g)
  BY <1>2 DEF Listed
<1>8. open'[h] = FALSE /\ \A g \in Handle \ {h} : open'[g] = open[g]
  BY <1>0, <1>2 DEF TypeOK
<1>9. TableInv'
  BY <1>2, <1>4, <1>8 DEF TableInv, Listed
<1>10. OnceInv' /\ FreshInv'
  BY <1>2 DEF OnceInv, FreshInv
<1>11. HandInv'
  BY <1>4, <1>5, <1>7, <1>8 DEF HandInv
<1>12. FoundInv'
  BY <1>2, <1>5, <1>6, <1>7, <1>8 DEF FoundInv
<1> QED  BY <1>9, <1>10, <1>11, <1>12

(* From a table into the hands of the handler that deleted the entry.        *)
LEMMA DeleteHoused ==
    ASSUME TypeInv, HomeInv, NEW w \in Worker,
           tcpClose(w) \/ tcpCloseListener(w) \/ udpClose(w), ~UNCHANGED pc
    PROVE  HomeInv'
<1> USE DEF HomeInv
<1>0. TypeOK
  BY DEF TypeInv
<1>1. PICK i \in Id, h \in Handle :
         /\ \/ /\ liveConnections[i] = h
               /\ liveConnections' = [liveConnections EXCEPT ![i] = None]
               /\ UNCHANGED <<liveListeners, liveUdpConnections>>
            \/ /\ liveListeners[i] = h
               /\ liveListeners' = [liveListeners EXCEPT ![i] = None]
               /\ UNCHANGED <<liveConnections, liveUdpConnections>>
            \/ /\ liveUdpConnections[i] = h
               /\ liveUdpConnections' = [liveUdpConnections EXCEPT ![i] = None]
               /\ UNCHANGED <<liveConnections, liveListeners>>
         /\ hand' = [hand EXCEPT ![w] = h]
         /\ pc' = [pc EXCEPT ![w] = "close"]
  <2>1. CASE tcpClose(w)
    <3>1. PICK i \in Id : /\ Lookup(w, liveConnections, i, "close")
                          /\ liveConnections' = [liveConnections EXCEPT ![i] = None]
                          /\ UNCHANGED <<liveListeners, liveUdpConnections>>
      BY <2>1 DEF tcpClose
    <3>2. liveConnections[i] \in Handle
      BY <1>0, <3>1 DEF TypeOK, Lookup
    <3> QED  BY <3>1, <3>2 DEF Lookup, Goto
  <2>2. CASE tcpCloseListener(w)
    <3>1. PICK i \in Id : /\ Lookup(w, liveListeners, i, "close")
                          /\ liveListeners' = [liveListeners EXCEPT ![i] = None]
                          /\ UNCHANGED <<liveConnections, liveUdpConnections>>
      BY <2>2 DEF tcpCloseListener
    <3>2. liveListeners[i] \in Handle
      BY <1>0, <3>1 DEF TypeOK, Lookup
    <3> QED  BY <3>1, <3>2 DEF Lookup, Goto
  <2>3. CASE udpClose(w)
    <3>1. PICK i \in Id : /\ Lookup(w, liveUdpConnections, i, "close")
                          /\ liveUdpConnections' = [liveUdpConnections EXCEPT ![i] = None]
                          /\ UNCHANGED <<liveConnections, liveListeners>>
      BY <2>3 DEF udpClose
    <3>2. liveUdpConnections[i] \in Handle
      BY <1>0, <3>1 DEF TypeOK, Lookup
    <3> QED  BY <3>1, <3>2 DEF Lookup, Goto
  <2> QED  BY <2>1, <2>2, <2>3
<1>2. pc[w] = "idle" /\ UNCHANGED <<kind, open, nextConnectionID, wrapped>>
  BY DEF tcpClose, tcpCloseListener, udpClose, Called, osVars, idVars
<1>3. Listed(h)
  BY <1>1 DEF Listed
<1>4. open[h] /\ \A v \in Worker : ~Keeps(v, h)
  BY <1>3 DEF HandInv, TableInv, Listed
<1>5. \A v \in Worker, g \in Handle : Keeps(v, g)' <=> Keeps(v, g) \/ (v = w /\ g = h)
  BY <1>0, <1>1, <1>2 DEF Keeps, TypeOK
<1>6. /\ \A g \in Handle, j \in Id :
             /\ liveConnections'[j] = g => liveConnections[j] = g /\ g # h
             /\ liveListeners'[j] = g => liveListeners[j] = g /\ g # h
             /\ liveUdpConnections'[j] = g => liveUdpConnections[j] = g /\ g # h
      /\ \A j \in Id : liveUdpConnections'[j] \in {liveUdpConnections[j], None}
      /\ \A g \in Handle \ {h}, j \in Id :
             /\ liveConnections[j] = g => liveConnections'[j] = g
             /\ liveListeners[j] = g => liveListeners'[j] = g
             /\ liveUdpConnections[j] = g => liveUdpConnections'[j] = g
  <2>0. /\ liveConnections \in [Id -> Handle \cup {None}]
        /\ liveListeners \in [Id -> Handle \cup {None}]
        /\ liveUdpConnections \in [Id -> Handle \cup {None}]
    BY <1>0 DEF TypeOK
  <2>1. CASE /\ liveConnections[i] = h
             /\ liveConnections' = [liveConnections EXCEPT ![i] = None]
             /\ UNCHANGED <<liveListeners, liveUdpConnections>>
    BY <2>0, <2>1, NoneAssumption DEF OnceInv, TableInv
  <2>2. CASE /\ liveListeners[i] = h
             /\ liveListeners' = [liveListeners EXCEPT ![i] = None]
             /\ UNCHANGED <<liveConnections, liveUdpConnections>>
    BY <2>0, <2>2, NoneAssumption DEF OnceInv, TableInv
  <2>3. CASE /\ liveUdpConnections[i] = h
             /\ liveUdpConnections' = [liveUdpConnections EXCEPT ![i] = None]
             /\ UNCHANGED <<liveConnections, liveListeners>>
    BY <2>0, <2>3, NoneAssumption DEF OnceInv, TableInv
  <2> QED  BY <1>1, <2>1, <2>2, <2>3
<1>7. \A g \in Handle : Listed(g)' <=> Listed(g) /\ g # h
  BY <1>6 DEF Listed
<1>8. TableInv'
  BY <1>2, <1>6 DEF TableInv
<1>9. OnceInv'
  BY <1>6 DEF OnceInv
<1>10. FreshInv'
  BY <1>2, <1>6 DEF FreshInv
<1>11. HandInv'
  BY <1>2, <1>4, <1>5, <1>7 DEF HandInv
<1>12. FoundInv'
  BY <1>2, <1>5, <1>7 DEF FoundInv
<1> QED  BY <1>8, <1>9, <1>10, <1>11, <1>12

(* From the hands of the handler that opened it into a table.  A UDP socket  *)
(* may push another one out of the table once the counter has wrapped.       *)
LEMMA StoreHoused ==
    ASSUME TypeInv, HomeInv, NEW w \in Worker, Store(w)
    PROVE  HomeInv'
<1> USE DEF HomeInv
<1>0. TypeOK
  BY DEF TypeInv
<1>1. PICK h \in Handle : h = hand[w]
  BY DEF Store, TypeInv, HeldInv
<1>2. /\ pc[w] = "store" /\ pc' = [pc EXCEPT ![w] = "idle"]
      /\ hand' = [hand EXCEPT ![w] = None] /\ UNCHANGED <<kind, open>>
  BY DEF Store, Return, Forget, Goto, osVars
<1>3. PICK k \in 1 .. IdMod :
         LET new == (nextConnectionID + k) % IdMod
         IN  /\ Generate(k)
             /\ nextConnectionID' = new
             /\ wrapped' = (wrapped \/ nextConnectionID + k >= IdMod)
             /\ CASE kind[h] = "conn" ->
                       /\ liveConnections' = [liveConnections EXCEPT ![new] = h]
                       /\ UNCHANGED <<liveListeners, liveUdpConnections>>
                  [] kind[h] = "listener" ->
                       /\ liveListeners' = [liveListeners EXCEPT ![new] = h]
                       /\ UNCHANGED <<liveConnections, liveUdpConnections>>
                  [] kind[h] = "udp" ->
                       /\ liveUdpConnections' = [liveUdpConnections EXCEPT ![new] = h]
                       /\ UNCHANGED <<liveConnections, liveListeners>>
  BY <1>1 DEF Store
<1>4. PICK new \in Id : new = (nextConnectionID + k) % IdMod
  BY <1>0, CandidateIsId DEF TypeOK
<1>5. kind[h] \in {"conn", "listener", "udp"}
  BY <1>0 DEF TypeOK
<1>6. /\ nextConnectionID' = new
      /\ liveConnections[new] = None /\ liveListeners[new] = None
      /\ \/ /\ kind[h] = "conn" /\ liveConnections' = [liveConnections EXCEPT ![new] = h]
            /\ UNCHANGED <<liveListeners, liveUdpConnections>>
         \/ /\ kind[h] = "listener" /\ liveListeners' = [liveListeners EXCEPT ![new] = h]
            /\ UNCHANGED <<liveConnections, liveUdpConnections>>
         \/ /\ kind[h] = "udp" /\ liveUdpConnections' = [liveUdpConnections EXCEPT ![new] = h]
            /\ UNCHANGED <<liveConnections, liveListeners>>
  BY <1>3, <1>4, <1>5 DEF Generate
<1>7. ~wrapped' => ~wrapped /\ new > nextConnectionID
  <2>1. ~wrapped' => ~wrapped /\ ~(nextConnectionID + k >= IdMod)
    BY <1>3
  <2>2. nextConnectionID \in Nat /\ k \in Nat /\ k >= 1 /\ IdMod \in Nat
    BY <1>0, IdModAssumption DEF TypeOK, Id
  <2>3. ~(nextConnectionID + k >= IdMod) => new = nextConnectionID + k
    <3>1. PICK n \in Id : n = nextConnectionID
      BY <1>0 DEF TypeOK
    <3>2. n + k < IdMod => (n + k) % IdMod = n + k
      BY CandidateIsId
    <3> QED  BY <1>4, <2>2, <3>1, <3>2
  <2> QED  BY <2>1, <2>2, <2>3
<1>8. Keeps(w, h)
  BY <1>1, <1>2 DEF Keeps
<1>9. open[h] /\ ~Listed(h) /\ \A v \in Worker : Keeps(v, h) => v = w
  BY <1>8 DEF HandInv
<1>10. /\ \A v \in Worker, g \in Handle : Keeps(v, g)' <=> Keeps(v, g) /\ v # w
       /\ \A g \in Handle : Keeps(w, g) => g = h
  BY <1>0, <1>1, <1>2 DEF Keeps, TypeOK
<1>11. /\ \A g \in Handle \ {h}, j \in Id :
              /\ liveConnections'[j] = g => liveConnections[j] = g
              /\ liveListeners'[j] = g => liveListeners[j] = g
              /\ liveUdpConnections'[j] = g => liveUdpConnections[j] = g
       /\ \A j \in Id :
              /\ liveConnections'[j] = h => j = new /\ kind[h] = "conn"
              /\ liveListeners'[j] = h => j = new /\ kind[h] = "listener"
              /\ liveUdpConnections'[j] = h => j = new /\ kind[h] = "udp"
  BY <1>0, <1>6, <1>9 DEF TypeOK, Listed
<1>12. Listed(h)'
  BY <1>0, <1>6 DEF TypeOK, Listed
<1>13. \A g \in Handle \ {h} : Listed(g)' => Listed(g)
  BY <1>11 DEF Listed
<1>14. ASSUME NEW g \in Handle, g # h, Listed(g), kind[g] # "udp" \/ ~wrapped'
       PROVE  Listed(g)'
  <2>1. liveUdpConnections[new] # g
    <3>1. CASE kind[g] # "udp"
      BY <3>1 DEF TableInv
    <3>2. CASE ~wrapped'
      BY <1>7, <3>2, NoneAssumption DEF FreshInv
    <3> QED  BY <1>14, <3>1, <3>2
  <2>2. PICK j \in Id : \/ liveConnections[j] = g
                        \/ liveListeners[j] = g
                        \/ liveUdpConnections[j] = g
    BY <1>14 DEF Listed
  <2>3. j = new => liveConnections[j] # g /\ liveListeners[j] # g
    BY <1>6, NoneAssumption
  <2>4. \/ liveConnections'[j] = g
        \/ liveListeners'[j] = g
        \/ liveUdpConnections'[j] = g
    BY <1>0, <1>6, <2>1, <2>2, <2>3 DEF TypeOK
  <2> QED  BY <2>4 DEF Listed
<1>15. TableInv'
  BY <1>2, <1>9, <1>11 DEF TableInv
<1>16. OnceInv'
  BY <1>11 DEF OnceInv
<1>17. HandInv'
  BY <1>2, <1>9, <1>10, <1>13 DEF HandInv
<1>18. FoundInv'
  <2>1. ASSUME NEW g \in Handle, open[g], kind[g] # "udp" \/ ~wrapped'
        PROVE  Listed(g)' \/ \E v \in Worker : Keeps(v, g)'
    <3>1. CASE g = h
      BY <1>12, <3>1
    <3>2. CASE g # h
      <4>1. kind[g] # "udp" \/ ~wrapped
        BY <1>7, <2>1
      <4>2. Listed(g) \/ \E v \in Worker : Keeps(v, g)
        BY <2>1, <4>1 DEF FoundInv
      <4> QED  BY <1>10, <1>14, <2>1, <3>2, <4>2
    <3> QED  BY <3>1, <3>2
  <2> QED  BY <1>2, <2>1 DEF FoundInv
<1>19. FreshInv'
  <2>1. ASSUME ~wrapped', NEW j \in Id, j > new PROVE liveUdpConnections'[j] = None
    <3>1. j > nextConnectionID /\ j # new
      BY <1>0, <1>7, <2>1, IdModAssumption DEF TypeOK, Id
    <3>2. liveUdpConnections[j] = None
      BY <1>7, <2>1, <3>1 DEF FreshInv
    <3> QED  BY <1>0, <1>6, <3>1, <3>2 DEF TypeOK
  <2> QED  BY <1>6, <2>1 DEF FreshInv
<1> QED  BY <1>15, <1>16, <1>17, <1>18, <1>19

(* The other steps of a worker.                                              *)
LEMMA OtherStepsRehouseNone ==
    ASSUME TypeInv, NEW w \in Worker, WorkerStep(w), ~Store(w), ~CloseSocket(w),
           ~tcpConnect(w), ~tcpConnectSSL(w), ~tcpListen(w), ~udpConnect(w), ~Accepted(w),
           ~tcpClose(w), ~tcpCloseListener(w), ~udpClose(w) \/ UNCHANGED pc
    PROVE  NoneRehoused
<1>0. TypeOK
  BY DEF TypeInv
<1>1. ASSUME pc[w] \notin {"store", "close"}, pc'[w] \notin {"store", "close"},
             \A v \in Worker \ {w} : pc'[v] = pc[v] /\ hand'[v] = hand[v]
      PROVE  \A v \in Worker, h \in Handle : Keeps(v, h)' <=> Keeps(v, h)
  BY <1>1 DEF Keeps
<1>2. CASE udpClose(w)
  <2>1. UNCHANGED pc
    BY <1>2
  <2>2. UNCHANGED <<kind, open, tableVars, idVars, hand>>
    <3>1. UNCHANGED <<osVars, liveConnections, liveListeners, idVars>> /\ pc[w] = "idle"
      BY <1>2 DEF udpClose, Called
    <3>2. UNCHANGED <<hand, liveUdpConnections>>
      BY <1>0, <1>2, <2>1, <3>1 DEF udpClose, Lookup, Goto, TypeOK
    <3> QED  BY <3>1, <3>2 DEF osVars, tableVars
  <2> QED  BY <2>1, <2>2 DEF NoneRehoused, Keeps
<1>3. CASE tcpAccept(w) \/ tcpRead(w) \/ tcpWrite(w) \/ udpAwaitPacket(w)
           \/ udpBeginPacket(w) \/ udpEndPacket(w)
  <2>1. UNCHANGED <<osVars, tableVars, idVars>> /\ pc[w] = "idle"
    BY <1>3 DEF tcpAccept, tcpRead, tcpWrite, udpAwaitPacket, udpBeginPacket, udpEndPacket,
                Called
  <2>2. PICK i \in Id, table \in {liveListeners, liveConnections, liveUdpConnections},
             step \in {"accept", "deadline", "write", "resolve", "end"} :
                 Lookup(w, table, i, step)
    BY <1>3 DEF tcpAccept, tcpRead, tcpWrite, udpAwaitPacket, udpBeginPacket, udpEndPacket
  <2>3. pc'[w] = step /\ \A v \in Worker \ {w} : pc'[v] = pc[v] /\ hand'[v] = hand[v]
    BY <1>0, <2>2 DEF Lookup, Goto, TypeOK
  <2> QED  BY <1>1, <2>1, <2>3 DEF NoneRehoused, osVars
<1>4. CASE udpRead(w)
  BY <1>4 DEF udpRead, NoneRehoused, Keeps, osVars, localVars
<1>5. CASE udpWrite(w) \/ udpDropPacket(w) \/ SetReadDeadline(w) \/ ReadFrom(w)
           \/ Resolved(w) \/ Begin(w)
  <2>1. /\ UNCHANGED <<kind, open, tableVars, idVars, hand>>
        /\ pc[w] \notin {"store", "close"}
        /\ \E step \in {"append", "drop", "read", "keep", "begin", "respond"} :
               pc' = [pc EXCEPT ![w] = step]
    BY <1>5 DEF udpWrite, udpDropPacket, SetReadDeadline, ReadFrom, Resolved, Begin, Goto,
                Called, osVars, localVars
  <2>2. /\ pc'[w] \notin {"store", "close"}
        /\ \A v \in Worker \ {w} : pc'[v] = pc[v] /\ hand'[v] = hand[v]
    BY <1>0, <2>1 DEF TypeOK
  <2> QED  BY <1>1, <2>1, <2>2 DEF NoneRehoused
<1>6. CASE AcceptFails(w) \/ CallEnds(w) \/ KeepPacket(w) \/ WriteTo(w) \/ Drop(w)
           \/ ResolveFails(w) \/ Respond(w) \/ AppendPiece(w)
  <2>1. /\ Forget(w) /\ UNCHANGED <<osVars, tableVars, idVars>>
        /\ pc[w] \notin {"store", "close"}
    BY <1>6 DEF AcceptFails, CallEnds, KeepPacket, WriteTo, Drop, ResolveFails, Respond,
                AppendPiece, Return
  <2>2. pc'[w] = "idle" /\ \A v \in Worker \ {w} : pc'[v] = pc[v] /\ hand'[v] = hand[v]
    BY <1>0, <2>1 DEF Forget, Goto, TypeOK
  <2> QED  BY <1>1, <2>1, <2>2 DEF NoneRehoused, osVars
<1>7. CASE TakePacket(w)
  <2>1. UNCHANGED <<osVars, tableVars, idVars>> /\ pc[w] = "end"
    BY <1>7 DEF TakePacket
  <2>2. /\ pc'[w] \in {"idle", "send"}
        /\ \A v \in Worker \ {w} : pc'[v] = pc[v] /\ hand'[v] = hand[v]
    BY <1>0, <1>7 DEF TakePacket, Forget, Goto, TypeOK
  <2> QED  BY <1>1, <2>1, <2>2 DEF NoneRehoused, osVars
<1> QED
  BY <1>2, <1>3, <1>4, <1>5, <1>6, <1>7 DEF WorkerStep, Tcp, Udp, Running

LEMMA HomesKeep == TypeInv /\ HomeInv /\ [Next]_vars => HomeInv'
<1> SUFFICES ASSUME TypeInv, HomeInv, [Next]_vars PROVE HomeInv'
  OBVIOUS
<1>1. ASSUME NEW w \in Worker, WorkerStep(w) PROVE HomeInv'
  <2>1. CASE tcpConnect(w) \/ tcpConnectSSL(w) \/ tcpListen(w) \/ udpConnect(w)
             \/ Accepted(w)
    BY <2>1, NewSocketHoused DEF tcpConnect, tcpConnectSSL, tcpListen, udpConnect,
                                 Accepted, Called
  <2>2. CASE (tcpClose(w) \/ tcpCloseListener(w) \/ udpClose(w)) /\ ~UNCHANGED pc
    BY <2>2, DeleteHoused
  <2>3. tcpClose(w) \/ tcpCloseListener(w) => ~UNCHANGED pc
    BY DEF tcpClose, tcpCloseListener, Called, Lookup, Goto, TypeInv, TypeOK
  <2>4. CASE Store(w) \/ CloseSocket(w)
    BY <2>4, StoreHoused, CloseHoused
  <2> QED
    BY <1>1, <2>1, <2>2, <2>3, <2>4, OtherStepsRehouseNone, NoneRehousedKeeps
<1>2. CASE Crash \/ (\E h \in Handle : Datagram(h)) \/ UNCHANGED vars
  <2>1. NoneRehoused
    BY <1>2 DEF Crash, Datagram, vars, osVars, localVars, NoneRehoused, Keeps
  <2> QED  BY <2>1, NoneRehousedKeeps
<1> QED  BY <1>1, <1>2 DEF Next, WorkerStep

LEMMA HomeInvariant == Spec => [](TypeInv /\ HomeInv)
<1>1. Init => TypeInv /\ HomeInv
  <2> SUFFICES ASSUME Init PROVE HomeInv
    BY NetworkInit
  <2>1. \A h \in Handle : ~Listed(h) /\ ~open[h] /\ \A w \in Worker : ~Keeps(w, h)
    BY NoneAssumption DEF Init, Listed, Keeps
  <2>2. TableInv /\ OnceInv
    BY <2>1 DEF TableInv, OnceInv, Listed
  <2>3. HandInv /\ FoundInv
    BY <2>1 DEF HandInv, FoundInv
  <2>4. FreshInv
    BY DEF Init, FreshInv
  <2> QED  BY <2>2, <2>3, <2>4 DEF HomeInv
<1> QED  BY <1>1, TypesKeep, HomesKeep, PTL DEF Spec

(* An open socket is in one table under one identifier, or with the one      *)
(* handler that enters or closes it; a closed socket is nowhere: no caller   *)
(* loses a socket, and no identifier leads to a closed one.                  *)
THEOREM SocketsHaveOneHome == Spec => []OneHome
<1>1. TypeInv /\ HomeInv => OneHome
  <2> SUFFICES ASSUME TypeInv, HomeInv, NEW h \in Handle, kind[h] # "udp" \/ ~wrapped
               PROVE  Cardinality(Homes(h)) = IF open[h] THEN 1 ELSE 0
    BY DEF OneHome
  <2>1. ASSUME NEW x \in Homes(h)
        PROVE  \/ \E i \in Id : x = <<"conn", i>> /\ liveConnections[i] = h
               \/ \E i \in Id : x = <<"listener", i>> /\ liveListeners[i] = h
               \/ \E i \in Id : x = <<"udp", i>> /\ liveUdpConnections[i] = h
               \/ \E w \in Worker : x = <<"hand", w>> /\ Keeps(w, h)
    BY <2>1 DEF Homes, Keeps
  <2>2. CASE ~open[h]
    <3>1. Homes(h) = {}
      BY <2>1, <2>2 DEF HomeInv, TableInv, HandInv
    <3> QED  BY <2>2, <3>1, FS_EmptySet
  <2>3. CASE open[h]
    <3>1. \E x : x \in Homes(h)
      <4>1. CASE Listed(h)
        BY <4>1 DEF Listed, Homes
      <4>2. CASE \E w \in Worker : Keeps(w, h)
        BY <4>2 DEF Keeps, Homes
      <4> QED  BY <2>3, <4>1, <4>2 DEF HomeInv, FoundInv
    <3>2. PICK x : x \in Homes(h)
      BY <3>1
    <3>3. ASSUME NEW y \in Homes(h) PROVE y = x
      <4>1. CASE \E w \in Worker : x = <<"hand", w>> /\ Keeps(w, h)
        BY <2>1, <3>2, <3>3, <4>1 DEF HomeInv, HandInv, Listed
      <4>2. CASE \E i \in Id : x = <<"conn", i>> /\ liveConnections[i] = h
        BY <2>1, <3>2, <3>3, <4>2 DEF HomeInv, HandInv, TableInv, OnceInv, Listed
      <4>3. CASE \E i \in Id : x = <<"listener", i>> /\ liveListeners[i] = h
        BY <2>1, <3>2, <3>3, <4>3 DEF HomeInv, HandInv, TableInv, OnceInv, Listed
      <4>4. CASE \E i \in Id : x = <<"udp", i>> /\ liveUdpConnections[i] = h
        BY <2>1, <3>2, <3>3, <4>4 DEF HomeInv, HandInv, TableInv, OnceInv, Listed
      <4> QED  BY <2>1, <3>2, <4>1, <4>2, <4>3, <4>4
    <3>4. Homes(h) = {x}
      BY <3>2, <3>3
    <3> QED  BY <2>3, <3>4, FS_Singleton
  <2> QED  BY <2>2, <2>3
<1> QED  BY <1>1, HomeInvariant, PTL

-----------------------------------------------------------------------------
(***************************************************************************)
(* Identifiers.                                                             *)
(***************************************************************************)
LEMMA LeastElement ==
    ASSUME NEW T \in SUBSET Nat, T # {}
    PROVE  \E x \in T : \A y \in T : x <= y
<1> DEFINE Less == {p \in Nat \X Nat : p[1] < p[2]}
<1>1. IsWellFoundedOn(OpToRel(<, Nat), Nat)
  BY NatLessThanWellFounded
<1>2. IsWellFoundedOn(Less, Nat)
  BY <1>1 DEF OpToRel
<1>3. \E x \in T : \A y \in T : ~ (<<y, x>> \in Less)
  BY <1>2, WFMin, Zenon
<1>4. PICK x \in T : \A y \in T : ~ (<<y, x>> \in Less)
  BY <1>3
<1>5. ASSUME NEW y \in T
      PROVE  x <= y
  <2>1. <<y, x>> \notin Less
    BY <1>4
  <2>2. y \in Nat /\ x \in Nat
    OBVIOUS
  <2> QED  BY <2>1, <2>2
<1> QED  BY <1>5

(* The counter comes to every identifier.                                    *)
LEMMA CounterReaches ==
    ASSUME NEW n \in Id, NEW i \in Id
    PROVE  \E k \in 1 .. IdMod : (n + k) % IdMod = i
<1>0. IdMod \in Nat /\ n \in Nat /\ i \in Nat /\ n < IdMod /\ i < IdMod
  BY IdModAssumption DEF Id
<1>1. CASE i > n
  <2> DEFINE k == i - n
  <2>1. k \in 1 .. IdMod /\ n + k = i
    BY <1>0, <1>1
  <2>2. i % IdMod = i
    BY <1>0
  <2> QED  BY <2>1, <2>2
<1>2. CASE ~(i > n)
  <2> DEFINE k == i - n + IdMod
  <2>1. k \in 1 .. IdMod /\ n + k = i + IdMod
    BY <1>0, <1>2
  <2>2. (i + IdMod) % IdMod = i
    BY <1>0
  <2> QED  BY <2>1, <2>2
<1> QED  BY <1>1, <1>2

(* An identifier that no TCP connection or listener has: each of those that  *)
(* are taken leads to a socket of its own, and there are fewer sockets than  *)
(* identifiers.                                                              *)
LEMMA SomeFree ==
    ASSUME TypeInv, HomeInv
    PROVE  \E i \in Id : liveConnections[i] = None /\ liveListeners[i] = None
<1> SUFFICES ASSUME \A i \in Id : ~(liveConnections[i] = None /\ liveListeners[i] = None)
             PROVE  FALSE
  OBVIOUS
<1> DEFINE socket == [i \in Id |-> IF liveConnections[i] # None THEN liveConnections[i]
                                   ELSE liveListeners[i]]
<1>1. socket \in [Id -> Handle]
  BY DEF TypeInv, TypeOK
<1>2. IsFiniteSet(Id) /\ Cardinality(Id) = IdMod
  <2>1. IdMod \in Nat /\ Cardinality(Handle) \in Nat /\ IdMod > Cardinality(Handle)
    BY IdModAssumption, FS_CardinalityType
  <2>2. 0 \in Int /\ IdMod - 1 \in Int /\ ~(0 > IdMod - 1) /\ (IdMod - 1) - 0 + 1 = IdMod
    BY <2>1
  <2> QED  BY <2>2, FS_Interval DEF Id
<1>3. PICK i \in Id, j \in Id : i # j /\ socket[i] = socket[j]
  <2>1. IsFiniteSet(Handle) /\ Cardinality(Handle) < Cardinality(Id)
    BY <1>2, IdModAssumption, FS_CardinalityType
  <2> HIDE DEF socket
  <2> QED  BY <1>1, <1>2, <2>1, FS_PigeonHole
<1>4. PICK h \in Handle : h = socket[i] /\ h = socket[j]
  BY <1>1, <1>3
<1>5. /\ liveConnections[i] = h \/ liveListeners[i] = h
      /\ liveConnections[j] = h \/ liveListeners[j] = h
  BY <1>4
<1> QED  BY <1>3, <1>5 DEF HomeInv, OnceInv, TableInv

(* The loop of takeLockAndGenerateNextID ends at its first free candidate,   *)
(* in every state and with the lock held throughout: the identifiers in use  *)
(* never run out (network-api.go:64-78).                                     *)
IdentifierFound ==
    \E k \in 1 .. IdMod : Generate(k) /\ \A j \in 1 .. k - 1 : ~Generate(j)

THEOREM IdentifierIsFound == Spec => []IdentifierFound
<1>1. TypeInv /\ HomeInv => IdentifierFound
  <2> SUFFICES ASSUME TypeInv, HomeInv
               PROVE  IdentifierFound
    OBVIOUS
  <2> DEFINE T == {k \in 1 .. IdMod : Generate(k)}
  <2>1. T # {}
    <3>1. PICK i \in Id : liveConnections[i] = None /\ liveListeners[i] = None
      BY SomeFree
    <3>2. nextConnectionID \in Id
      BY DEF TypeInv, TypeOK
    <3>3. PICK k \in 1 .. IdMod : (nextConnectionID + k) % IdMod = i
      BY <3>2, CounterReaches
    <3>4. Generate(k)
      BY <3>1, <3>3 DEF Generate
    <3> QED  BY <3>4
  <2>2. T \in SUBSET Nat
    BY IdModAssumption
  <2>3. PICK k \in T : \A y \in T : k <= y
    BY <2>1, <2>2, LeastElement
  <2>4. ASSUME NEW j \in 1 .. k - 1
        PROVE  ~Generate(j)
    <3>1. k \in 1 .. IdMod /\ j \in 1 .. IdMod /\ ~(k <= j)
      BY <2>3, IdModAssumption
    <3> QED  BY <2>3, <3>1
  <2> QED  BY <2>3, <2>4 DEF IdentifierFound
<1> QED  BY <1>1, HomeInvariant, PTL

============================================================================
