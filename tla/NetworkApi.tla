----------------------------- MODULE NetworkApi -----------------------------
(***************************************************************************)
(* The network API: internal/network-api/network-api.go.  The tcp/ and udp/ *)
(* methods work on sockets that callers name by identifiers.  The tables    *)
(* from identifiers to sockets and to the buffers of UDP packets are under  *)
(* one RWMutex; a handler runs on the goroutine of the RPC connection that  *)
(* called it (a worker), looks its socket up, lets go of the lock, and only *)
(* then connects, accepts, reads, writes or closes.                         *)
(*                                                                          *)
(* One action is one critical section or one blocking call.  The sections   *)
(* under the write lock and the short lookups are single actions; the ones  *)
(* that change the tables of outgoing UDP packets hold only the read lock,  *)
(* so they are split and interleave.  A call that is refused (parameters,   *)
(* unknown identifier, failed dial) before it has changed anything leaves   *)
(* no trace and is not an action.  A map is a function that is 0 or None    *)
(* where the map has no entry.                                              *)
(***************************************************************************)
EXTENDS Naturals, Sequences, FiniteSets

CONSTANTS
    Worker,      \* the RPC connections that call these methods
    Mixes,       \* the sets of methods the callers use together (bound)
    Handle,      \* the sockets: as many as may exist at one time (bound)
    MaxOpens,    \* how many sockets are opened in all (bound)
    MaxPackets,  \* how many datagrams arrive (bound)
    MaxWrites,   \* how many pieces an outgoing packet has (bound)
    IdMod,       \* nextConnectionID counts modulo IdMod (2^32)
    None

Id     == 0 .. IdMod - 1
Byte   == (1 .. MaxPackets) \X {1, 2}   \* a datagram has two bytes

Methods == {"tcp/connect", "tcp/connectSSL", "tcp/listen", "tcp/closeListener",
            "tcp/accept", "tcp/read", "tcp/write", "tcp/close",
            "udp/connect", "udp/beginPacket", "udp/write", "udp/endPacket",
            "udp/awaitPacket", "udp/read", "udp/dropPacket", "udp/close"}

ASSUME MixesAssumption  == Mixes \subseteq SUBSET Methods
ASSUME NoneAssumption   == None \notin Worker /\ None \notin Handle
ASSUME BoundAssumption  == MaxOpens \in Nat /\ MaxPackets \in Nat /\ MaxWrites \in Nat
ASSUME IdModAssumption  == IdMod \in Nat /\ IsFiniteSet(Handle) /\ IdMod > Cardinality(Handle)

VARIABLES
    opens,    \* how many sockets have been opened (bound)
    kind,     \* kind[h]: "conn", "listener" or "udp"
    open,     \* open[h]: not yet closed by us
    timed,    \* timed[h]: a read deadline is set on h
    inbox,    \* inbox[h]: the datagrams waiting at h
    arrived,  \* how many datagrams have arrived (bound)
    liveConnections, liveListeners, liveUdpConnections,
    nextConnectionID,
    wrapped,  \* history: nextConnectionID has passed IdMod
    udpReadBuffers, udpWriteTargets, udpWriteBuffers,
    readers,  \* the workers that hold the read lock between two actions
    pc,       \* where worker w is
    id,       \* id[w]: the identifier it was given
    hand,     \* hand[w]: the socket it holds
    buf,      \* buf[w]: the packet it holds
    to,       \* to[w]: the target of that packet
    given,    \* history: the bytes udp/read has returned
    owner,    \* history: see PacketIntact
    pieces,   \* history: the udp/write calls since udp/beginPacket
    crashed,  \* the Go runtime has stopped the process
    mix       \* the methods the callers use

osVars     == <<opens, kind, open, timed, inbox, arrived>>
tableVars  == <<liveConnections, liveListeners, liveUdpConnections>>
idVars     == <<nextConnectionID, wrapped>>
packetVars == <<udpWriteTargets, udpWriteBuffers, owner, pieces>>
readVars   == <<udpReadBuffers, given>>
localVars  == <<id, hand, buf, to>>
vars == <<osVars, tableVars, idVars, packetVars, readVars, localVars, readers, pc, crashed, mix>>

Steps == {"idle", "store", "accept", "deadline", "read", "write", "close", "keep",
          "resolve", "begin", "respond", "append", "end", "send", "drop"}

TypeOK ==
    /\ opens \in 0 .. MaxOpens
    /\ kind \in [Handle -> {"conn", "listener", "udp"}]
    /\ open \in [Handle -> BOOLEAN]
    /\ timed \in [Handle -> BOOLEAN]
    /\ inbox \in [Handle -> Seq(1 .. MaxPackets)]
    /\ arrived \in 0 .. MaxPackets
    /\ liveConnections \in [Id -> Handle \cup {None}]
    /\ liveListeners \in [Id -> Handle \cup {None}]
    /\ liveUdpConnections \in [Id -> Handle \cup {None}]
    /\ nextConnectionID \in Id
    /\ wrapped \in BOOLEAN
    /\ udpReadBuffers \in [Id -> Seq(Byte)]
    /\ udpWriteTargets \in [Id -> Worker \cup {None}]
    /\ udpWriteBuffers \in [Id -> Seq(Worker) \cup {None}]
    /\ readers \subseteq Worker
    /\ pc \in [Worker -> Steps]
    /\ id \in [Worker -> Id]
    /\ hand \in [Worker -> Handle \cup {None}]
    /\ buf \in [Worker -> Seq(Worker) \cup Seq(Byte) \cup {None}]
    /\ to \in [Worker -> Worker \cup {None}]
    /\ given \subseteq Byte
    /\ owner \in [Id -> Worker \cup {None}]
    /\ pieces \in [Id -> Nat]
    /\ crashed \in BOOLEAN
    /\ mix \in Mixes

Init ==
    /\ opens = 0
    /\ kind = [h \in Handle |-> "conn"]
    /\ open = [h \in Handle |-> FALSE]
    /\ timed = [h \in Handle |-> FALSE]
    /\ inbox = [h \in Handle |-> <<>>]
    /\ arrived = 0
    /\ liveConnections = [i \in Id |-> None]
    /\ liveListeners = [i \in Id |-> None]
    /\ liveUdpConnections = [i \in Id |-> None]
    /\ nextConnectionID = 0
    /\ wrapped = FALSE
    /\ udpReadBuffers = [i \in Id |-> <<>>]
    /\ udpWriteTargets = [i \in Id |-> None]
    /\ udpWriteBuffers = [i \in Id |-> None]
    /\ readers = {}
    /\ pc = [w \in Worker |-> "idle"]
    /\ id = [w \in Worker |-> 0]
    /\ hand = [w \in Worker |-> None]
    /\ buf = [w \in Worker |-> None]
    /\ to = [w \in Worker |-> None]
    /\ given = {}
    /\ owner = [i \in Id |-> None]
    /\ pieces = [i \in Id |-> 0]
    /\ crashed = FALSE
    /\ mix \in Mixes

-----------------------------------------------------------------------------
Called(w, m) == pc[w] = "idle" /\ m \in mix

Goto(w, step) == pc' = [pc EXCEPT ![w] = step]

(* lock.Lock(): nobody is inside a section under the read lock.              *)
Lock == readers = {}

RLock(w)   == readers' = readers \cup {w}
RUnlock(w) == readers' = readers \ {w}

(* The handler is done and forgets what it held.                             *)
Forget(w) ==
    /\ Goto(w, "idle")
    /\ hand' = [hand EXCEPT ![w] = None]
    /\ buf' = [buf EXCEPT ![w] = None]
    /\ to' = [to EXCEPT ![w] = None]
    /\ id' = [id EXCEPT ![w] = 0]

Return(w) == Forget(w) /\ UNCHANGED readers

(***************************************************************************)
(* A dial, a listen or an accept gives the worker a new socket, which it    *)
(* then enters under a new identifier.                                      *)
(***************************************************************************)
Referred(h) == \/ \E i \in Id : h \in {liveConnections[i], liveListeners[i], liveUdpConnections[i]}
               \/ \E w \in Worker : hand[w] = h

(* The socket is a new object: nothing refers to it yet.                     *)
NewSocket(w, k) ==
    /\ opens < MaxOpens
    /\ opens' = opens + 1
    /\ \E h \in Handle :
           /\ ~open[h] /\ ~Referred(h)
           /\ kind' = [kind EXCEPT ![h] = k]
           /\ open' = [open EXCEPT ![h] = TRUE]
           /\ timed' = [timed EXCEPT ![h] = FALSE]
           /\ inbox' = [inbox EXCEPT ![h] = <<>>]
           /\ hand' = [hand EXCEPT ![w] = h]
    /\ Goto(w, "store")
    /\ UNCHANGED <<arrived, tableVars, idVars, packetVars, readVars, id, buf, to, readers>>

tcpConnect(w)    == Called(w, "tcp/connect") /\ NewSocket(w, "conn")
tcpConnectSSL(w) == Called(w, "tcp/connectSSL") /\ NewSocket(w, "conn")
tcpListen(w)     == Called(w, "tcp/listen") /\ NewSocket(w, "listener")
udpConnect(w)    == Called(w, "udp/connect") /\ NewSocket(w, "udp")

(* The k-th candidate of takeLockAndGenerateNextID is not in use.            *)
Generate(k) ==
    LET cand == (nextConnectionID + k) % IdMod
    IN  liveConnections[cand] = None /\ liveListeners[cand] = None

Store(w) ==
    /\ pc[w] = "store"
    /\ Lock
    /\ \E k \in 1 .. IdMod :
         LET new == (nextConnectionID + k) % IdMod
         IN  /\ Generate(k)
             /\ \A j \in 1 .. k - 1 : ~Generate(j)
             /\ nextConnectionID' = new
             /\ wrapped' = (wrapped \/ nextConnectionID + k >= IdMod)
             /\ CASE kind[hand[w]] = "conn" ->
                       /\ liveConnections' = [liveConnections EXCEPT ![new] = hand[w]]
                       /\ UNCHANGED <<liveListeners, liveUdpConnections>>
                  [] kind[hand[w]] = "listener" ->
                       /\ liveListeners' = [liveListeners EXCEPT ![new] = hand[w]]
                       /\ UNCHANGED <<liveConnections, liveUdpConnections>>
                  [] kind[hand[w]] = "udp" ->
                       /\ liveUdpConnections' = [liveUdpConnections EXCEPT ![new] = hand[w]]
                       /\ UNCHANGED <<liveConnections, liveListeners>>
    /\ Return(w)
    /\ UNCHANGED <<osVars, packetVars, readVars>>

(* A lookup under the read lock: the worker keeps the socket it found.       *)
Lookup(w, table, i, step) ==
    /\ table[i] # None
    /\ id' = [id EXCEPT ![w] = i]
    /\ hand' = [hand EXCEPT ![w] = table[i]]
    /\ Goto(w, step)

tcpAccept(w) ==
    /\ Called(w, "tcp/accept")
    /\ \E i \in Id : Lookup(w, liveListeners, i, "accept")
    /\ UNCHANGED <<osVars, tableVars, idVars, packetVars, readVars, buf, to, readers>>

(* listener.Accept: somebody connects, or the listener is closed.            *)
Accepted(w) ==
    /\ pc[w] = "accept"
    /\ open[hand[w]]
    /\ NewSocket(w, "conn")

AcceptFails(w) ==
    /\ pc[w] = "accept"
    /\ ~open[hand[w]]
    /\ Return(w)
    /\ UNCHANGED <<osVars, tableVars, idVars, packetVars, readVars>>

-----------------------------------------------------------------------------
(***************************************************************************)
(* Closing: the entry is deleted under the write lock, the socket closed    *)
(* after it.                                                                *)
(***************************************************************************)
(* Mutant: the entry is looked up and left in place.                         *)
tcpCloseKeepsEntry(w) ==
    /\ Called(w, "tcp/close")
    /\ \E i \in Id : Lookup(w, liveConnections, i, "close")
    /\ UNCHANGED <<osVars, tableVars, idVars, packetVars, readVars, buf, to, readers>>

tcpClose(w) ==
    /\ Called(w, "tcp/close")
    /\ Lock
    /\ \E i \in Id :
           /\ Lookup(w, liveConnections, i, "close")
           /\ liveConnections' = [liveConnections EXCEPT ![i] = None]
    /\ UNCHANGED <<osVars, liveListeners, liveUdpConnections, idVars, packetVars,
                   readVars, buf, to, readers>>

tcpCloseListener(w) ==
    /\ Called(w, "tcp/closeListener")
    /\ Lock
    /\ \E i \in Id :
           /\ Lookup(w, liveListeners, i, "close")
           /\ liveListeners' = [liveListeners EXCEPT ![i] = None]
    /\ UNCHANGED <<osVars, liveConnections, liveUdpConnections, idVars, packetVars,
                   readVars, buf, to, readers>>

(* The packet being read goes too, even when there is no such connection;    *)
(* the packet being written stays.                                           *)
udpClose(w) ==
    /\ Called(w, "udp/close")
    /\ Lock
    /\ \E i \in Id :
           /\ udpReadBuffers' = [udpReadBuffers EXCEPT ![i] = <<>>]
           /\ \/ /\ Lookup(w, liveUdpConnections, i, "close")
                 /\ liveUdpConnections' = [liveUdpConnections EXCEPT ![i] = None]
              \/ /\ liveUdpConnections[i] = None
                 /\ UNCHANGED <<id, hand, pc, liveUdpConnections>>
    /\ UNCHANGED <<osVars, liveConnections, liveListeners, idVars, packetVars, given,
                   buf, to, readers>>

CloseSocket(w) ==
    /\ pc[w] = "close"
    /\ open' = [open EXCEPT ![hand[w]] = FALSE]
    /\ Return(w)
    /\ UNCHANGED <<opens, kind, timed, inbox, arrived, tableVars, idVars, packetVars,
                   readVars>>

-----------------------------------------------------------------------------
(***************************************************************************)
(* tcp/read, tcp/write and udp/awaitPacket use the socket they looked up.   *)
(* The deadline belongs to the socket, not to the call.                     *)
(***************************************************************************)
tcpRead(w) ==
    /\ Called(w, "tcp/read")
    /\ \E i \in Id : Lookup(w, liveConnections, i, "deadline")
    /\ UNCHANGED <<osVars, tableVars, idVars, packetVars, readVars, buf, to, readers>>

tcpWrite(w) ==
    /\ Called(w, "tcp/write")
    /\ \E i \in Id : Lookup(w, liveConnections, i, "write")
    /\ UNCHANGED <<osVars, tableVars, idVars, packetVars, readVars, buf, to, readers>>

udpAwaitPacket(w) ==
    /\ Called(w, "udp/awaitPacket")
    /\ \E i \in Id : Lookup(w, liveUdpConnections, i, "deadline")
    /\ UNCHANGED <<osVars, tableVars, idVars, packetVars, readVars, buf, to, readers>>

SetReadDeadline(w) ==
    /\ pc[w] = "deadline"
    /\ open[hand[w]]
    /\ \E b \in BOOLEAN : timed' = [timed EXCEPT ![hand[w]] = b]
    /\ Goto(w, "read")
    /\ UNCHANGED <<opens, kind, open, inbox, arrived, tableVars, idVars, packetVars,
                   readVars, localVars, readers>>

(* conn.Read returns data or an error of the peer, conn.Write is done, or    *)
(* the deadline has passed, or the socket has been closed under the call.    *)
CallEnds(w) ==
    /\ \/ pc[w] \in {"read", "write"} /\ kind[hand[w]] = "conn"
       \/ pc[w] = "read" /\ timed[hand[w]]
       \/ pc[w] \in {"deadline", "read", "write"} /\ ~open[hand[w]]
    /\ Return(w)
    /\ UNCHANGED <<osVars, tableVars, idVars, packetVars, readVars>>

ReadFrom(w) ==
    LET h == hand[w]
    IN  /\ pc[w] = "read"
        /\ open[h]
        /\ inbox[h] # <<>>
        /\ buf' = [buf EXCEPT ![w] = <<<<Head(inbox[h]), 1>>, <<Head(inbox[h]), 2>>>>]
        /\ inbox' = [inbox EXCEPT ![h] = Tail(@)]
        /\ Goto(w, "keep")
        /\ UNCHANGED <<opens, kind, open, timed, arrived, tableVars, idVars, packetVars,
                       readVars, id, hand, to, readers>>

(* The packet replaces what is left of the one before it.                    *)
KeepPacket(w) ==
    /\ pc[w] = "keep"
    /\ Lock
    /\ udpReadBuffers' = [udpReadBuffers EXCEPT ![id[w]] = buf[w]]
    /\ Return(w)
    /\ UNCHANGED <<osVars, tableVars, idVars, packetVars, given>>

(* Mutant: the rest is kept, and so is what was returned.                    *)
udpReadKeeps(w) ==
    /\ Called(w, "udp/read")
    /\ Lock
    /\ \E i \in Id : /\ udpReadBuffers[i] # <<>>
                     /\ given' = given \cup {udpReadBuffers[i][1]}
                     /\ UNCHANGED udpReadBuffers
    /\ UNCHANGED <<osVars, tableVars, idVars, packetVars, localVars, readers, pc>>

udpRead(w) ==
    /\ Called(w, "udp/read")
    /\ Lock
    /\ \E i \in Id, maxBytes \in 1 .. 2 :
           LET data == udpReadBuffers[i]
               n    == IF Len(data) > maxBytes THEN maxBytes ELSE Len(data)
           IN  /\ data # <<>>
               /\ given' = given \cup {data[j] : j \in 1 .. n}
               /\ udpReadBuffers' =
                      [udpReadBuffers EXCEPT ![i] = SubSeq(data, n + 1, Len(data))]
    /\ UNCHANGED <<osVars, tableVars, idVars, packetVars, localVars, readers, pc>>

(* The packet is dropped under the read lock only.                           *)
udpDropPacket(w) ==
    /\ Called(w, "udp/dropPacket")
    /\ RLock(w)
    /\ \E i \in Id : id' = [id EXCEPT ![w] = i]
    /\ Goto(w, "drop")
    /\ UNCHANGED <<osVars, tableVars, idVars, packetVars, readVars, hand, buf, to>>

Drop(w) ==
    /\ pc[w] = "drop"
    /\ udpReadBuffers' = [udpReadBuffers EXCEPT ![id[w]] = <<>>]
    /\ RUnlock(w)
    /\ Forget(w)
    /\ UNCHANGED <<osVars, tableVars, idVars, packetVars, given>>

-----------------------------------------------------------------------------
(***************************************************************************)
(* An outgoing UDP packet, under the read lock only.  udp/beginPacket keeps *)
(* it while it resolves the target and until its answer is written.         *)
(***************************************************************************)
(* Other calls that are working on the outgoing packet of i.                 *)
Others(w, i) == {v \in readers \ {w} : id[v] = i /\ pc[v] # "drop"}

(* History: w works on the outgoing packet of i.                             *)
Touch(w, i) ==
    /\ owner' = [owner EXCEPT ![i] = IF @ = w THEN w ELSE None]
    /\ pieces' = [pieces EXCEPT ![i] = IF owner[i] = w THEN @ ELSE 0]

udpBeginPacket(w) ==
    /\ Called(w, "udp/beginPacket")
    /\ RLock(w)
    /\ \E i \in Id : Lookup(w, liveUdpConnections, i, "resolve") /\ Touch(w, i)
    /\ UNCHANGED <<osVars, tableVars, idVars, udpWriteTargets, udpWriteBuffers, readVars,
                   buf, to>>

(* Mutant: the read lock is kept when the target does not resolve.           *)
ResolveFailsLocked(w) ==
    /\ pc[w] = "resolve"
    /\ Return(w)
    /\ UNCHANGED <<osVars, tableVars, idVars, packetVars, readVars>>

ResolveFails(w) ==
    /\ pc[w] = "resolve"
    /\ RUnlock(w)
    /\ Forget(w)
    /\ UNCHANGED <<osVars, tableVars, idVars, packetVars, readVars>>

Resolved(w) ==
    /\ pc[w] = "resolve"
    /\ udpWriteTargets' = [udpWriteTargets EXCEPT ![id[w]] = w]
    /\ owner' = [owner EXCEPT ![id[w]] = IF Others(w, id[w]) = {} THEN w ELSE None]
    /\ Goto(w, "begin")
    /\ UNCHANGED <<osVars, tableVars, idVars, udpWriteBuffers, pieces, readVars, localVars,
                   readers>>

(* Mutant: a packet that was begun before is not thrown away.                *)
BeginKeepsBuffer(w) ==
    LET i == id[w]
    IN  /\ pc[w] = "begin"
        /\ udpWriteBuffers' = [udpWriteBuffers EXCEPT ![i] = IF @ = None THEN <<>> ELSE @]
        /\ pieces' = [pieces EXCEPT ![i] = 0]
        /\ Goto(w, "respond")
        /\ UNCHANGED <<osVars, tableVars, idVars, udpWriteTargets, owner, readVars,
                       localVars, readers>>

Begin(w) ==
    LET i == id[w]
    IN  /\ pc[w] = "begin"
        /\ udpWriteBuffers' = [udpWriteBuffers EXCEPT ![i] = <<>>]
        /\ pieces' = [pieces EXCEPT ![i] = 0]
        /\ Goto(w, "respond")
        /\ UNCHANGED <<osVars, tableVars, idVars, udpWriteTargets, owner, readVars,
                       localVars, readers>>

Respond(w) ==
    /\ pc[w] = "respond"
    /\ RUnlock(w)
    /\ Forget(w)
    /\ UNCHANGED <<osVars, tableVars, idVars, packetVars, readVars>>

(* udp/write looks only for a packet that was begun: the connection may be   *)
(* closed.                                                                   *)
udpWrite(w) ==
    /\ Called(w, "udp/write")
    /\ RLock(w)
    /\ \E i \in Id :
           /\ udpWriteBuffers[i] # None
           /\ Len(udpWriteBuffers[i]) < MaxWrites
           /\ buf' = [buf EXCEPT ![w] = udpWriteBuffers[i]]
           /\ id' = [id EXCEPT ![w] = i]
           /\ Touch(w, i)
    /\ Goto(w, "append")
    /\ UNCHANGED <<osVars, tableVars, idVars, udpWriteTargets, udpWriteBuffers, readVars,
                   hand, to>>

AppendPiece(w) ==
    LET i == id[w]
    IN  /\ pc[w] = "append"
        /\ udpWriteBuffers' = [udpWriteBuffers EXCEPT ![i] = Append(buf[w], w)]
        /\ pieces' = [pieces EXCEPT ![i] = IF owner[i] = w THEN @ + 1 ELSE 0]
        /\ RUnlock(w)
        /\ Forget(w)
        /\ UNCHANGED <<osVars, tableVars, idVars, udpWriteTargets, owner, readVars>>

udpEndPacket(w) ==
    /\ Called(w, "udp/endPacket")
    /\ RLock(w)
    /\ \E i \in Id : /\ Lookup(w, liveUdpConnections, i, "end")
                     /\ buf' = [buf EXCEPT ![w] = udpWriteBuffers[i]]
                     /\ Touch(w, i)
    /\ UNCHANGED <<osVars, tableVars, idVars, udpWriteTargets, udpWriteBuffers, readVars,
                   to>>

TakePacket(w) ==
    LET i == id[w]
    IN  /\ pc[w] = "end"
        /\ udpWriteBuffers' = [udpWriteBuffers EXCEPT ![i] = None]
        /\ udpWriteTargets' = [udpWriteTargets EXCEPT ![i] = None]
        /\ owner' = [owner EXCEPT ![i] = None]
        /\ pieces' = [pieces EXCEPT ![i] = 0]
        /\ RUnlock(w)
        /\ IF buf[w] = None
             THEN Forget(w)
             ELSE /\ to' = [to EXCEPT ![w] = udpWriteTargets[i]]
                  /\ Goto(w, "send")
                  /\ UNCHANGED <<id, hand, buf>>
        /\ UNCHANGED <<osVars, tableVars, idVars, readVars>>

WriteTo(w) ==
    /\ pc[w] = "send"
    /\ Return(w)
    /\ UNCHANGED <<osVars, tableVars, idVars, packetVars, readVars>>

-----------------------------------------------------------------------------
(***************************************************************************)
(* Two handlers that change udpWriteTargets, udpWriteBuffers or             *)
(* udpReadBuffers at the same time: the Go runtime may notice ("concurrent  *)
(* map writes") and then stops the process.                                 *)
(***************************************************************************)
MapRace == \E v, w \in readers,
              map \in {{"resolve", "end"}, {"begin", "append", "end"}, {"drop"}} :
               v # w /\ pc[v] \in map /\ pc[w] \in map

(* tcp/connectSSL lets one parameter pass and then takes the second.         *)
IndexPanic == \E w \in Worker : Called(w, "tcp/connectSSL")

Crash ==
    /\ MapRace \/ IndexPanic
    /\ crashed' = TRUE
    /\ UNCHANGED <<osVars, tableVars, idVars, packetVars, readVars, localVars, readers, pc>>

Datagram(h) ==
    /\ open[h]
    /\ kind[h] = "udp"
    /\ arrived < MaxPackets
    /\ arrived' = arrived + 1
    /\ inbox' = [inbox EXCEPT ![h] = Append(@, arrived + 1)]
    /\ UNCHANGED <<opens, kind, open, timed, tableVars, idVars, packetVars, readVars,
                   localVars, readers, pc>>

Tcp(w) == tcpConnect(w) \/ tcpConnectSSL(w) \/ tcpListen(w) \/ tcpAccept(w)
          \/ tcpRead(w) \/ tcpWrite(w) \/ tcpClose(w) \/ tcpCloseListener(w)

Udp(w) == udpConnect(w) \/ udpBeginPacket(w) \/ udpWrite(w) \/ udpEndPacket(w)
          \/ udpAwaitPacket(w) \/ udpRead(w) \/ udpDropPacket(w) \/ udpClose(w)

Running(w) == Store(w) \/ AcceptFails(w) \/ CloseSocket(w) \/ SetReadDeadline(w)
              \/ CallEnds(w) \/ ReadFrom(w) \/ KeepPacket(w) \/ Drop(w) \/ ResolveFails(w)
              \/ Resolved(w) \/ Begin(w) \/ Respond(w) \/ AppendPiece(w)
              \/ TakePacket(w) \/ WriteTo(w)

Next ==
    /\ ~crashed
    /\ UNCHANGED mix
    /\ \/ Crash
       \/ /\ \/ \E w \in Worker : Tcp(w) \/ Udp(w) \/ Accepted(w) \/ Running(w)
             \/ \E h \in Handle : Datagram(h)
          /\ UNCHANGED crashed

Spec == Init /\ [][Next]_vars

(***************************************************************************)
(* A goroutine that can go on does.  A resolution ends, and so does the     *)
(* writing of an answer: the caller reads it.  A writer that waits for the  *)
(* lock gets it although readers come and go (sync.RWMutex lets no new      *)
(* reader in once a writer waits): strong fairness.                         *)
(***************************************************************************)
Fairness == \A w \in Worker : /\ WF_vars(~crashed /\ Running(w) /\ UNCHANGED <<crashed, mix>>)
                               /\ SF_vars(~crashed /\ Store(w) /\ UNCHANGED <<crashed, mix>>)

FairSpec == Spec /\ Fairness

-----------------------------------------------------------------------------
(* Where socket h can be reached from: a table, or a handler that is about  *)
(* to enter it there or to close it.                                        *)
Homes(h) ==
    {<<"conn", i>> : i \in {j \in Id : liveConnections[j] = h}}
    \cup {<<"listener", i>> : i \in {j \in Id : liveListeners[j] = h}}
    \cup {<<"udp", i>> : i \in {j \in Id : liveUdpConnections[j] = h}}
    \cup {<<"hand", w>> : w \in {v \in Worker : hand[v] = h /\ pc[v] \in {"store", "close"}}}

(* No socket is lost and none is reached after it was closed: an open       *)
(* socket has exactly one home, a closed one has none.  This is what the    *)
(* look up and delete in one critical section (188-193, 221-226, 658-662)   *)
(* is for: two calls that close one identifier, or a close and an accept    *)
(* that is still waiting.  UDP sockets only until the counter wraps, as     *)
(* their identifiers are not looked at (71-72).                             *)
OneHome ==
    \A h \in Handle :
        (kind[h] # "udp" \/ ~wrapped) => Cardinality(Homes(h)) = IF open[h] THEN 1 ELSE 0

(* What one caller built with udp/beginPacket and udp/write, with nobody    *)
(* else working on the same identifier, is what udp/endPacket will send:    *)
(* its target, and each piece once.  owner[i] is the caller that began the  *)
(* packet of i, None once somebody else has touched it.                     *)
PacketIntact ==
    \A i \in Id, w \in Worker :
        owner[i] = w /\ w \notin readers =>
            /\ udpWriteTargets[i] = w
            /\ udpWriteBuffers[i] = [j \in 1 .. pieces[i] |-> w]

(* udp/read gives out no byte twice: what it has returned is neither left   *)
(* in a buffer, nor in the hands of a udp/awaitPacket that is about to      *)
(* store it, nor in a socket.                                               *)
NoByteTwice ==
    \A b \in given :
        /\ \A i \in Id : b \notin {udpReadBuffers[i][j] : j \in DOMAIN udpReadBuffers[i]}
        /\ \A w \in Worker : pc[w] = "keep" => b \notin {buf[w][1], buf[w][2]}
        /\ \A h \in Handle : b[1] \notin {inbox[h][j] : j \in DOMAIN inbox[h]}

(* A socket that was opened gets its identifier: takeLockAndGenerateNextID  *)
(* finds a free one, and whoever holds the lock gives it back.              *)
StoreCompletes == \A w \in Worker : pc[w] = "store" ~> (pc[w] = "idle" \/ crashed)
=============================================================================
