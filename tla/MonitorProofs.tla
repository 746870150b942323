--------------------------- MODULE MonitorProofs ---------------------------
(***************************************************************************)
(* The sockets map of the monitor API, for any number of sockets and        *)
(* callers: no open socket is lost and no dead one is kept.                 *)
(***************************************************************************)
EXTENDS Monitor, FiniteSetTheorems, TLAPS

(* The types the argument needs.                                             *)
SocketTypes ==
    /\ peer \in [Socket -> {"new", "here", "gone"}]
    /\ sock \in [Socket -> {"open", "closed"}]
    /\ sockets \subseteq Socket
    /\ gpc \in [Socket -> {"off", "read", "write", "add", "delete", "close", "done"}]
    /\ rpc \in [Rpc -> {"idle", "read", "sub", "next", "write", "delete", "close",
                        "reset"}]
    /\ todo \in [Rpc -> SUBSET Socket]
    /\ cur \in [Rpc -> Socket \cup {NoSocket}]

(* The steps of the clients and of the goroutines of the sockets.            *)
SocketStep(s) == PeerLeaves(s) \/ Accept(s) \/ Reader(s)

(* The steps of the callers.                                                 *)
CallerStep(r) == MonRead(r) \/ MonWrite(r) \/ MonReset(r) \/ Running(r)

(* With these types the two properties are inductive together.               *)
SocketInv == SocketTypes /\ NoDeadEntry /\ NoOrphanSocket

LEMMA SocketInit == Init => SocketInv
  BY DEF Init, SocketInv, SocketTypes, NoDeadEntry, NoOrphanSocket

(* What the map sees of a client or of a goroutine that reads a socket.      *)
LEMMA SocketStepKeeps ==
  ASSUME SocketInv, NEW s \in Socket, SocketStep(s)
  PROVE  SocketInv'
<1> USE DEF SocketInv, SocketTypes
<1>1. UNCHANGED <<rpc, todo, cur>>
  BY DEF SocketStep, PeerLeaves, Accept, Reader, ReadChunk, ReadEnds, PipeWrite,
         AddBytes, ReaderDeletes, ReaderCloses, rpcVars
<1>2. CASE PeerLeaves(s)
  BY <1>1, <1>2 DEF PeerLeaves, socketVars, readerVars, NoDeadEntry, NoOrphanSocket
<1>3. CASE Accept(s)
  BY <1>1, <1>3 DEF Accept, NoDeadEntry, NoOrphanSocket
<1>4. CASE ReadChunk(s) \/ ReadEnds(s) \/ AddBytes(s)
  BY <1>1, <1>4 DEF ReadChunk, ReadEnds, AddBytes, socketVars, NoDeadEntry,
                    NoOrphanSocket
<1>5. CASE PipeWrite(s)
  <2>1. /\ UNCHANGED <<peer, sock, sockets>>
        /\ gpc' = gpc \/ (gpc[s] = "write" /\ gpc' = [gpc EXCEPT ![s] = "add"])
    BY <1>5 DEF PipeWrite, socketVars
  <2> QED  BY <1>1, <2>1 DEF NoDeadEntry, NoOrphanSocket
<1>6. CASE ReaderDeletes(s)
  BY <1>1, <1>6 DEF ReaderDeletes, NoDeadEntry, NoOrphanSocket
<1>7. CASE ReaderCloses(s)
  BY <1>1, <1>7 DEF ReaderCloses, NoDeadEntry, NoOrphanSocket
<1> QED
  BY <1>2, <1>3, <1>4, <1>5, <1>6, <1>7 DEF SocketStep, Reader

(* What the map sees of a caller.                                            *)
LEMMA CallerStepKeeps ==
  ASSUME SocketInv, NEW r \in Rpc, CallerStep(r)
  PROVE  SocketInv'
<1> USE DEF SocketInv, SocketTypes
<1>1. UNCHANGED <<peer, gpc>>
  BY DEF CallerStep, Running, MonRead, MonWrite, MonReset, PipeRead, SubBytes,
         SetWriteDeadline, ConnWrite, WriterDeletes, WriterCloses, ResetCloses,
         readerVars
<1>2. CASE MonRead(r) \/ PipeRead(r) \/ SubBytes(r)
  <2>1. /\ UNCHANGED <<sock, sockets, todo, cur>>
        /\ \E p \in {"read", "sub", "idle"} : rpc' = [rpc EXCEPT ![r] = p]
        /\ rpc[r] \in {"idle", "read", "sub"}
    BY <1>2 DEF MonRead, PipeRead, SubBytes, socketVars
  <2> QED  BY <1>1, <2>1 DEF NoDeadEntry, NoOrphanSocket
<1>3. CASE MonWrite(r)
  <2>1. /\ UNCHANGED <<sock, sockets, cur>>
        /\ rpc' = [rpc EXCEPT ![r] = "next"]
        /\ rpc[r] = "idle"
        /\ todo' = [todo EXCEPT ![r] = sockets]
        /\ sockets \subseteq Socket
    BY <1>3 DEF MonWrite, socketVars
  <2> QED  BY <1>1, <2>1 DEF NoDeadEntry, NoOrphanSocket
<1>4. CASE SetWriteDeadline(r)
  BY <1>1, <1>4 DEF SetWriteDeadline, NoDeadEntry, NoOrphanSocket
<1>5. CASE ConnWrite(r)
  BY <1>1, <1>5 DEF ConnWrite, NextSocket, socketVars, NoDeadEntry, NoOrphanSocket
<1>6. CASE WriterDeletes(r)
  BY <1>1, <1>6 DEF WriterDeletes, NoDeadEntry, NoOrphanSocket
<1>7. CASE WriterCloses(r)
  BY <1>1, <1>7 DEF WriterCloses, NextSocket, NoDeadEntry, NoOrphanSocket
<1>8. CASE MonReset(r)
  BY <1>1, <1>8 DEF MonReset, NoDeadEntry, NoOrphanSocket
<1>9. CASE ResetCloses(r)
  BY <1>1, <1>9 DEF ResetCloses, NoDeadEntry, NoOrphanSocket
<1> QED
  BY <1>2, <1>3, <1>4, <1>5, <1>6, <1>7, <1>8, <1>9 DEF CallerStep, Running

LEMMA SocketStepsKeep == SocketInv /\ [Next]_vars => SocketInv'
<1> SUFFICES ASSUME SocketInv, [Next]_vars
             PROVE  SocketInv'
  OBVIOUS
<1>1. CASE \E s \in Socket : SocketStep(s)
  BY <1>1, SocketStepKeeps
<1>2. CASE \E r \in Rpc : CallerStep(r)
  BY <1>2, CallerStepKeeps
<1>3. CASE UNCHANGED vars
  BY <1>3 DEF vars, socketVars, readerVars, rpcVars, SocketInv, SocketTypes,
              NoDeadEntry, NoOrphanSocket
<1> QED  BY <1>1, <1>2, <1>3 DEF Next, SocketStep, CallerStep

(* mon/reset and mon/write lose no open socket.                              *)
THEOREM SocketsAreKept == Spec => []NoOrphanSocket
<1>1. SocketInv => NoOrphanSocket
  BY DEF SocketInv
<1> QED  BY <1>1, SocketInit, SocketStepsKeep, PTL DEF Spec

(* A socket whose goroutine has ended stays out of the map.                  *)
THEOREM DeadSocketsAreDropped == Spec => []NoDeadEntry
<1>1. SocketInv => NoDeadEntry
  BY DEF SocketInv
<1> QED  BY <1>1, SocketInit, SocketStepsKeep, PTL DEF Spec

-----------------------------------------------------------------------------
(***************************************************************************)
(* Counting bytes.                                                          *)
(***************************************************************************)
LEMMA MinOfTwo ==
    ASSUME NEW a \in Nat, NEW b \in Nat
    PROVE  /\ Min({a, b}) \in {a, b}
           /\ Min({a, b}) <= a /\ Min({a, b}) <= b
<1>1. \E x \in {a, b} : \A y \in {a, b} : x <= y
  <2>1. CASE a <= b
    BY <2>1
  <2>2. CASE b <= a
    BY <2>2
  <2> QED  BY <2>1, <2>2
<1> QED  BY <1>1 DEF Min

LEMMA BytesFinite ==
    ASSUME NEW S, IsFiniteSet(S), NEW N \in Nat, NEW f
    PROVE  IsFiniteSet(Bytes(S, N, f)) /\ Cardinality(Bytes(S, N, f)) \in Nat
<1>1. IsFiniteSet(1 .. N)
  BY FS_Interval
<1>2. IsFiniteSet(S \X (1 .. N))
  BY <1>1, FS_Product
<1>3. Bytes(S, N, f) \subseteq S \X (1 .. N)
  BY DEF Bytes
<1>4. IsFiniteSet(Bytes(S, N, f))
  BY <1>2, <1>3, FS_Subset
<1> QED  BY <1>4, FS_CardinalityType

(* Nobody has a byte.                                                        *)
LEMMA NoBytes ==
    ASSUME NEW S, NEW N \in Nat, NEW f, \A x \in S : f[x] = 0
    PROVE  Cardinality(Bytes(S, N, f)) = 0
<1>1. Bytes(S, N, f) = {}
  BY DEF Bytes
<1> QED  BY <1>1, FS_EmptySet

(* When one holder has more bytes, there are that many more.                 *)
LEMMA MoreBytes ==
    ASSUME NEW S, IsFiniteSet(S), NEW N \in Nat, NEW f \in [S -> 0 .. N],
           NEW g \in [S -> 0 .. N], NEW x \in S, f[x] <= g[x],
           \A y \in S : y # x => g[y] = f[y]
    PROVE  Cardinality(Bytes(S, N, g)) = Cardinality(Bytes(S, N, f)) + (g[x] - f[x])
<1>1. PICK a \in Nat, b \in Nat : a = f[x] /\ b = g[x] /\ b <= N
  OBVIOUS
<1>2. PICK One, Steps, More : One = {x} /\ Steps = a + 1 .. b /\ More = One \X Steps
  OBVIOUS
<1>3. Bytes(S, N, g) = Bytes(S, N, f) \cup More
  BY <1>1, <1>2 DEF Bytes
<1>4. Bytes(S, N, f) \cap More = {}
  BY <1>1, <1>2 DEF Bytes
<1>5. IsFiniteSet(Bytes(S, N, f)) /\ Cardinality(Bytes(S, N, f)) \in Nat
  BY BytesFinite
<1>6. IsFiniteSet(One) /\ Cardinality(One) = 1
  BY <1>2, FS_Singleton
<1>7. /\ IsFiniteSet(a + 1 .. b)
      /\ Cardinality(a + 1 .. b) = IF a + 1 > b THEN 0 ELSE b - (a + 1) + 1
  <2>1. a + 1 \in Int /\ b \in Int
    OBVIOUS
  <2> QED  BY <2>1, FS_Interval
<1>8. IsFiniteSet(Steps) /\ Cardinality(Steps) = b - a
  BY <1>1, <1>2, <1>7
<1>9. IsFiniteSet(More) /\ Cardinality(More) = Cardinality(One) * Cardinality(Steps)
  BY <1>2, <1>6, <1>8, FS_Product
<1>10. Cardinality(More) = b - a
  BY <1>6, <1>8, <1>9
<1>11. Cardinality(Bytes(S, N, f) \cup More)
       = Cardinality(Bytes(S, N, f)) + Cardinality(More)
         - Cardinality(Bytes(S, N, f) \cap More)
  BY <1>5, <1>9, FS_Union
<1>12. Cardinality(Bytes(S, N, f) \cap More) = 0
  BY <1>4, FS_EmptySet
<1> QED  BY <1>1, <1>3, <1>5, <1>10, <1>11, <1>12

(* When one holder has another number of bytes, the total follows.           *)
LEMMA ChangedBytes ==
    ASSUME NEW S, IsFiniteSet(S), NEW N \in Nat, NEW f \in [S -> 0 .. N],
           NEW g \in [S -> 0 .. N], NEW x \in S, \A y \in S : y # x => g[y] = f[y]
    PROVE  Cardinality(Bytes(S, N, g)) = Cardinality(Bytes(S, N, f)) + (g[x] - f[x])
<1>0. f[x] \in Nat /\ g[x] \in Nat
  OBVIOUS
<1>1. CASE f[x] <= g[x]
  BY <1>1, MoreBytes
<1>2. CASE g[x] <= f[x]
  <2>1. Cardinality(Bytes(S, N, f)) = Cardinality(Bytes(S, N, g)) + (f[x] - g[x])
    BY <1>2, MoreBytes
  <2>2. Cardinality(Bytes(S, N, g)) \in Nat
    BY BytesFinite
  <2> QED  BY <1>0, <2>1, <2>2
<1> QED  BY <1>0, <1>1, <1>2

-----------------------------------------------------------------------------
(***************************************************************************)
(* The counter and the pipe.  What a goroutine has put into the pipe and    *)
(* not added yet is at most its chunk; only the one that holds the pipe is  *)
(* in the middle of its chunk, and only between the last byte and the count *)
(* is a chunk in the pipe as a whole.                                       *)
(***************************************************************************)
CountTypes ==
    /\ peer \in [Socket -> {"new", "here", "gone"}]
    /\ gpc \in [Socket -> {"off", "read", "write", "add", "delete", "close", "done"}]
    /\ rpc \in [Rpc -> {"idle", "read", "sub", "next", "write", "delete", "close",
                        "reset"}]
    /\ n \in [Socket -> 0 .. Chunk]
    /\ put \in [Socket -> 0 .. Chunk]
    /\ pipe \in 0 .. Cap
    /\ bytesInSendPipe \in Int
    /\ want \in [Rpc -> Nat]

ChunkInv ==
    /\ \A s \in Socket :
           /\ gpc[s] = "add" => put[s] = n[s]
           /\ gpc[s] = "write" => put[s] < n[s] /\ (put[s] > 0 => writer = s)
           /\ gpc[s] \notin {"write", "add"} => put[s] = 0
           /\ peer[s] = "new" => gpc[s] = "off"
    /\ \A r \in Rpc : rpc[r] = "sub" => want[r] <= Cap

CountInv == CountTypes /\ ChunkInv /\ CounterFollowsPipe

Taken == [r \in Rpc |-> IF rpc[r] = "sub" THEN want[r] ELSE 0]

LEMMA CountFacts ==
    ASSUME CountTypes, ChunkInv
    PROVE  /\ Cap \in Nat /\ Chunk \in Nat /\ Chunk <= Cap /\ 0 < Cap
           /\ IsFiniteSet(Socket) /\ IsFiniteSet(Rpc)
           /\ Taken \in [Rpc -> 0 .. Cap]
           /\ Cardinality(Uncounted) \in Nat /\ Cardinality(Owed) \in Nat
<1>1. Cap \in Nat /\ Chunk \in Nat /\ Chunk <= Cap /\ 0 < Cap
  BY BufferAssumption
<1>2. IsFiniteSet(Socket) /\ IsFiniteSet(Rpc)
  BY SocketAssumption
<1>3. Taken \in [Rpc -> 0 .. Cap]
  BY <1>1 DEF Taken, CountTypes, ChunkInv
<1> QED  BY <1>1, <1>2, <1>3, BytesFinite DEF Uncounted, Owed

(* A step that moves no byte.                                                *)
LEMMA CountQuiet ==
    ASSUME CountInv, UNCHANGED <<put, pipe, bytesInSendPipe>>, Taken' = Taken
    PROVE  CounterFollowsPipe'
BY DEF CountInv, CounterFollowsPipe, Uncounted, Owed, Taken

LEMMA SocketCount ==
    ASSUME CountInv, NEW s \in Socket, SocketStep(s)
    PROVE  CountInv'
<1> USE DEF CountInv, rpcVars, countVars, readerVars
<1>0. /\ Cap \in Nat /\ Chunk \in Nat /\ Chunk <= Cap /\ 0 < Cap
      /\ IsFiniteSet(Socket) /\ Cardinality(Uncounted) \in Nat /\ Cardinality(Owed) \in Nat
  BY CountFacts
<1>1. UNCHANGED <<rpc, want>> /\ Taken' = Taken /\ Owed' = Owed
  BY DEF SocketStep, PeerLeaves, Accept, Reader, ReadChunk, ReadEnds, PipeWrite,
         AddBytes, ReaderDeletes, ReaderCloses, Taken, Owed
<1>2. CASE PeerLeaves(s) \/ Accept(s) \/ ReadEnds(s) \/ ReaderDeletes(s) \/ ReaderCloses(s)
  <2>1. /\ UNCHANGED <<put, pipe, bytesInSendPipe, n, writer>>
        /\ peer' = peer \/ \E p \in {"here", "gone"} : peer' = [peer EXCEPT ![s] = p]
        /\ \/ gpc' = gpc
           \/ /\ gpc[s] \notin {"write", "add"} /\ peer'[s] # "new"
              /\ \E g \in {"read", "delete", "close", "done"} : gpc' = [gpc EXCEPT ![s] = g]
    BY <1>2 DEF PeerLeaves, Accept, ReadEnds, ReaderDeletes, ReaderCloses, CountTypes, ChunkInv
  <2>2. CountTypes'
    BY <1>1, <2>1 DEF CountTypes
  <2>3. ChunkInv'
    BY <1>1, <2>1 DEF CountTypes, ChunkInv
  <2> QED  BY <1>1, <2>1, <2>2, <2>3, CountQuiet
<1>3. CASE ReadChunk(s)
  <2>1. PICK k \in 1 .. Chunk : n' = [n EXCEPT ![s] = k]
    BY <1>3 DEF ReadChunk
  <2>2. /\ gpc[s] = "read" /\ put[s] = 0
        /\ gpc' = [gpc EXCEPT ![s] = "write"] /\ put' = [put EXCEPT ![s] = 0]
        /\ UNCHANGED <<peer, writer, pipe, bytesInSendPipe>>
    BY <1>3 DEF ReadChunk, ChunkInv
  <2>3. put' = put
    BY <2>2 DEF CountTypes
  <2>4. CountTypes'
    BY <1>0, <1>1, <2>1, <2>2 DEF CountTypes
  <2>5. ChunkInv'
    BY <1>0, <1>1, <2>1, <2>2, <2>3 DEF CountTypes, ChunkInv
  <2> QED  BY <1>1, <2>2, <2>3, <2>4, <2>5, CountQuiet
<1>4. CASE PipeWrite(s)
  <2>1. n[s] \in Nat /\ put[s] \in Nat /\ n[s] <= Chunk /\ put[s] < n[s] /\ pipe \in Nat
        /\ pipe < Cap /\ gpc[s] = "write" /\ writer \in {NoSocket, s}
    BY <1>0, <1>4 DEF PipeWrite, CountTypes, ChunkInv
  <2>2. Cap - pipe \in Nat /\ n[s] - put[s] \in Nat
    BY <1>0, <2>1
  <2>3. PICK k : k = Min({Cap - pipe, n[s] - put[s]})
    OBVIOUS
  <2>4. k \in Nat /\ k <= Cap - pipe /\ k <= n[s] - put[s] /\ k > 0
    BY <1>0, <2>1, <2>2, <2>3, MinOfTwo
  <2>5. /\ pipe' = pipe + k /\ put' = [put EXCEPT ![s] = put[s] + k]
        /\ UNCHANGED <<peer, n, bytesInSendPipe>>
        /\ \/ put[s] + k = n[s] /\ gpc' = [gpc EXCEPT ![s] = "add"] /\ writer' = NoSocket
           \/ put[s] + k # n[s] /\ gpc' = gpc /\ writer' = s
    BY <1>4, <2>3 DEF PipeWrite
  <2>6. CountTypes'
    BY <1>0, <1>1, <2>1, <2>4, <2>5 DEF CountTypes
  <2>7. \A t \in Socket : t # s => writer # t
    BY <2>1, SocketAssumption
  <2>8. ChunkInv'
    BY <1>0, <1>1, <2>1, <2>4, <2>5, <2>7 DEF CountTypes, ChunkInv
  <2>9. /\ put \in [Socket -> 0 .. Chunk] /\ put' \in [Socket -> 0 .. Chunk]
        /\ put'[s] = put[s] + k /\ \A t \in Socket : t # s => put'[t] = put[t]
    BY <2>5, <2>6 DEF CountTypes
  <2>10. Cardinality(Bytes(Socket, Chunk, put'))
         = Cardinality(Bytes(Socket, Chunk, put)) + (put'[s] - put[s])
    BY <1>0, <2>9, ChangedBytes
  <2>11. Cardinality(Uncounted)' = Cardinality(Uncounted) + k
    BY <1>0, <2>1, <2>4, <2>9, <2>10 DEF Uncounted
  <2>12. CounterFollowsPipe'
    BY <1>0, <1>1, <2>1, <2>4, <2>5, <2>11 DEF CounterFollowsPipe
  <2> QED  BY <2>6, <2>8, <2>12
<1>5. CASE AddBytes(s)
  <2>1. /\ gpc[s] = "add" /\ put[s] = n[s] /\ n[s] \in Nat
        /\ bytesInSendPipe' = bytesInSendPipe + n[s]
        /\ put' = [put EXCEPT ![s] = 0] /\ gpc' = [gpc EXCEPT ![s] = "read"]
        /\ UNCHANGED <<peer, n, writer, pipe>>
    BY <1>5 DEF AddBytes, ChunkInv, CountTypes
  <2>2. CountTypes'
    BY <1>0, <1>1, <2>1 DEF CountTypes
  <2>3. ChunkInv'
    BY <1>1, <2>1 DEF CountTypes, ChunkInv
  <2>4. /\ put \in [Socket -> 0 .. Chunk] /\ put' \in [Socket -> 0 .. Chunk]
        /\ put'[s] = 0 /\ \A t \in Socket : t # s => put'[t] = put[t]
    BY <2>1, <2>2 DEF CountTypes
  <2>5. Cardinality(Bytes(Socket, Chunk, put'))
        = Cardinality(Bytes(Socket, Chunk, put)) + (put'[s] - put[s])
    BY <1>0, <2>4, ChangedBytes
  <2>6. Cardinality(Uncounted)' = Cardinality(Uncounted) - n[s]
    BY <1>0, <2>1, <2>4, <2>5 DEF Uncounted
  <2>7. CounterFollowsPipe'
    BY <1>0, <1>1, <2>1, <2>6 DEF CounterFollowsPipe, CountTypes
  <2> QED  BY <2>2, <2>3, <2>7
<1> QED
  BY <1>2, <1>3, <1>4, <1>5 DEF SocketStep, Reader

LEMMA CallerCount ==
    ASSUME CountInv, NEW r \in Rpc, CallerStep(r)
    PROVE  CountInv'
<1> USE DEF CountInv, countVars, readerVars, rpcVars
<1>0. /\ Cap \in Nat /\ Chunk \in Nat /\ Chunk <= Cap /\ 0 < Cap
      /\ IsFiniteSet(Rpc) /\ Cardinality(Uncounted) \in Nat /\ Cardinality(Owed) \in Nat
      /\ Taken \in [Rpc -> 0 .. Cap]
  BY CountFacts
<1>1. UNCHANGED <<peer, gpc, n, put, writer>> /\ Uncounted' = Uncounted
  BY DEF CallerStep, Running, MonRead, MonWrite, MonReset, PipeRead, SubBytes,
         SetWriteDeadline, ConnWrite, WriterDeletes, WriterCloses, ResetCloses, Uncounted
<1>2. ASSUME UNCHANGED <<pipe, bytesInSendPipe>>, want' \in [Rpc -> Nat],
             \A q \in Rpc : q # r => want'[q] = want[q] /\ rpc'[q] = rpc[q],
             rpc[r] # "sub", rpc'[r] # "sub",
             rpc' \in [Rpc -> {"idle", "read", "sub", "next", "write", "delete", "close",
                              "reset"}]
      PROVE  CountInv'
  <2>1. CountTypes'
    BY <1>1, <1>2 DEF CountTypes
  <2>2. ChunkInv'
    BY <1>1, <1>2 DEF ChunkInv
  <2>3. Taken' = Taken
    BY <1>2 DEF Taken
  <2> QED  BY <1>1, <1>2, <2>1, <2>2, <2>3, CountQuiet
<1>3. CASE MonRead(r)
  <2>1. PICK k \in ReadSizes : want' = [want EXCEPT ![r] = k]
    BY <1>3 DEF MonRead
  <2>2. k \in Nat
    BY BoundAssumption
  <2>3. rpc[r] = "idle" /\ rpc' = [rpc EXCEPT ![r] = "read"] /\ UNCHANGED <<pipe, bytesInSendPipe>>
    BY <1>3 DEF MonRead
  <2> QED  BY <1>2, <2>1, <2>2, <2>3 DEF CountTypes
<1>4. CASE MonWrite(r) \/ MonReset(r) \/ SetWriteDeadline(r) \/ WriterDeletes(r)
  <2>1. /\ UNCHANGED <<pipe, bytesInSendPipe, want>> /\ rpc[r] # "sub"
        /\ \E p \in {"next", "reset", "write", "close"} : rpc' = [rpc EXCEPT ![r] = p]
    BY <1>4 DEF MonWrite, MonReset, SetWriteDeadline, WriterDeletes
  <2> QED  BY <1>2, <2>1 DEF CountTypes
<1>5. CASE ConnWrite(r) \/ WriterCloses(r) \/ ResetCloses(r)
  <2>1. /\ UNCHANGED <<pipe, bytesInSendPipe, want>> /\ rpc[r] # "sub"
        /\ \E p \in {"idle", "next", "delete", "reset"} : rpc' = [rpc EXCEPT ![r] = p]
    BY <1>5 DEF ConnWrite, WriterCloses, ResetCloses, NextSocket
  <2> QED  BY <1>2, <2>1 DEF CountTypes
<1>6. CASE PipeRead(r)
  <2>1. want[r] \in Nat /\ pipe \in Nat /\ pipe <= Cap /\ rpc[r] = "read"
    BY <1>0, <1>6 DEF PipeRead, CountTypes
  <2>2. PICK k : k = Min({want[r], pipe})
    OBVIOUS
  <2>3. k \in Nat /\ k <= pipe
    BY <2>1, <2>2, MinOfTwo
  <2>4. /\ pipe' = pipe - k /\ want' = [want EXCEPT ![r] = k]
        /\ rpc' = [rpc EXCEPT ![r] = "sub"] /\ UNCHANGED bytesInSendPipe
    BY <1>6, <2>2 DEF PipeRead
  <2>5. CountTypes'
    BY <1>0, <1>1, <2>1, <2>3, <2>4 DEF CountTypes
  <2>6. ChunkInv'
    BY <1>0, <1>1, <2>1, <2>3, <2>4 DEF CountTypes, ChunkInv
  <2>7. Taken' \in [Rpc -> 0 .. Cap]
    BY <2>5, <2>6, CountFacts, <1>0 DEF CountTypes, ChunkInv, Taken
  <2>8. Taken[r] = 0 /\ Taken'[r] = k /\ \A q \in Rpc : q # r => Taken'[q] = Taken[q]
    BY <2>1, <2>4 DEF Taken, CountTypes
  <2>9. Cardinality(Bytes(Rpc, Cap, Taken'))
        = Cardinality(Bytes(Rpc, Cap, Taken)) + (Taken'[r] - Taken[r])
    BY <1>0, <2>7, <2>8, ChangedBytes
  <2>10. Owed = Bytes(Rpc, Cap, Taken) /\ Owed' = Bytes(Rpc, Cap, Taken')
    BY DEF Owed, Taken
  <2>11. Cardinality(Owed)' = Cardinality(Owed) + k
    BY <1>0, <2>3, <2>8, <2>9, <2>10
  <2>12. CounterFollowsPipe'
    BY <1>0, <1>1, <2>1, <2>3, <2>4, <2>11 DEF CounterFollowsPipe
  <2> QED  BY <2>5, <2>6, <2>12
<1>7. CASE SubBytes(r)
  <2>1. /\ rpc[r] = "sub" /\ want[r] \in Nat /\ want[r] <= Cap
        /\ bytesInSendPipe' = bytesInSendPipe - want[r]
        /\ want' = [want EXCEPT ![r] = 0] /\ rpc' = [rpc EXCEPT ![r] = "idle"]
        /\ UNCHANGED pipe
    BY <1>7 DEF SubBytes, ChunkInv, CountTypes
  <2>2. CountTypes'
    BY <1>1, <2>1 DEF CountTypes
  <2>3. ChunkInv'
    BY <1>1, <2>1 DEF CountTypes, ChunkInv
  <2>4. Taken[r] = want[r] /\ Taken'[r] = 0 /\ \A q \in Rpc : q # r => Taken'[q] = Taken[q]
    BY <2>1 DEF Taken, CountTypes
  <2>5. Taken' \in [Rpc -> 0 .. Cap]
    BY <1>0, <2>2, <2>3 DEF CountTypes, ChunkInv, Taken
  <2>6. Cardinality(Bytes(Rpc, Cap, Taken'))
        = Cardinality(Bytes(Rpc, Cap, Taken)) + (Taken'[r] - Taken[r])
    BY <1>0, <2>4, <2>5, ChangedBytes
  <2>7. Owed = Bytes(Rpc, Cap, Taken) /\ Owed' = Bytes(Rpc, Cap, Taken')
    BY DEF Owed, Taken
  <2>8. Cardinality(Owed)' = Cardinality(Owed) - want[r]
    BY <1>0, <2>1, <2>4, <2>6, <2>7
  <2>9. CounterFollowsPipe'
    BY <1>0, <1>1, <2>1, <2>8 DEF CounterFollowsPipe, CountTypes
  <2> QED  BY <2>2, <2>3, <2>9
<1> QED
  BY <1>3, <1>4, <1>5, <1>6, <1>7 DEF CallerStep, Running

LEMMA CountInit == Init => CountInv
<1> SUFFICES ASSUME Init PROVE CountInv
  OBVIOUS
<1>1. CountTypes
  BY BufferAssumption DEF Init, CountTypes
<1>2. ChunkInv
  BY DEF Init, ChunkInv
<1>3. Cardinality(Uncounted) = 0
  BY NoBytes, CountFacts, <1>1, <1>2 DEF Init, Uncounted
<1>4. \A r \in Rpc : Taken[r] = 0
  BY DEF Init, Taken
<1>5. Cardinality(Owed) = 0
  BY <1>1, <1>2, <1>4, NoBytes, CountFacts DEF Owed, Taken
<1> QED  BY <1>1, <1>2, <1>3, <1>5 DEF Init, CountInv, CounterFollowsPipe

LEMMA CountSteps == CountInv /\ [Next]_vars => CountInv'
<1> SUFFICES ASSUME CountInv, [Next]_vars PROVE CountInv'
  OBVIOUS
<1>1. CASE \E s \in Socket : SocketStep(s)
  BY <1>1, SocketCount
<1>2. CASE \E r \in Rpc : CallerStep(r)
  BY <1>2, CallerCount
<1>3. CASE UNCHANGED vars
  BY <1>3 DEF vars, readerVars, countVars, rpcVars, CountInv, CountTypes, ChunkInv,
     CounterFollowsPipe, Uncounted, Owed
<1> QED  BY <1>1, <1>2, <1>3 DEF Next, SocketStep, CallerStep

(* The counter differs from the pipe exactly by the bytes that are written   *)
(* and not yet added, and read and not yet subtracted.                       *)
THEOREM CounterFollows == Spec => []CounterFollowsPipe
<1>1. CountInv => CounterFollowsPipe
  BY DEF CountInv
<1> QED  BY <1>1, CountInit, CountSteps, PTL DEF Spec

(* A goroutine that waits for room in the pipe can be helped: only one is in *)
(* the middle of a chunk, and a chunk is no larger than the pipe, so that    *)
(* the counter cannot be zero while the pipe is full.                        *)
THEOREM WriterIsDrained == Spec => []WriterCanBeDrained
<1>1. ASSUME CountInv PROVE WriterCanBeDrained
  <2> SUFFICES ASSUME pipe = Cap, \A s \in Socket : gpc[s] # "add",
                      \A r \in Rpc : rpc[r] # "sub"
               PROVE  bytesInSendPipe > 0
    BY DEF WriterCanBeDrained
  <2>0. /\ Cap \in Nat /\ Chunk \in Nat /\ Chunk <= Cap /\ 0 < Cap
        /\ IsFiniteSet(Socket) /\ IsFiniteSet(Rpc)
        /\ Cardinality(Uncounted) \in Nat /\ Cardinality(Owed) \in Nat
    BY <1>1, CountFacts DEF CountInv
  <2>1. \A r \in Rpc : Taken[r] = 0
    BY DEF Taken
  <2>2. Cardinality(Owed) = 0
    BY <2>0, <2>1, NoBytes DEF Owed, Taken
  <2>3. put \in [Socket -> 0 .. Chunk] /\ n \in [Socket -> 0 .. Chunk]
    BY <1>1 DEF CountInv, CountTypes
  <2>4. CASE \A s \in Socket : put[s] = 0
    <3>1. Cardinality(Uncounted) = 0
      BY <2>0, <2>4, NoBytes DEF Uncounted
    <3> QED  BY <1>1, <2>0, <2>2, <3>1 DEF CountInv, CounterFollowsPipe
  <2>5. ASSUME NEW w \in Socket, put[w] # 0
        PROVE  bytesInSendPipe > 0
    <3>1. gpc[w] = "write" /\ put[w] < n[w] /\ writer = w
      BY <1>1, <2>3, <2>5 DEF CountInv, CountTypes, ChunkInv
    <3>2. \A s \in Socket : s # w => put[s] = 0
      BY <1>1, <2>3, <3>1 DEF CountInv, CountTypes, ChunkInv
    <3>3. PICK z \in [Socket -> 0 .. Chunk] : \A s \in Socket : z[s] = 0
      <4>1. [s \in Socket |-> 0] \in [Socket -> 0 .. Chunk]
        BY <2>0
      <4>2. \A s \in Socket : [t \in Socket |-> 0][s] = 0
        OBVIOUS
      <4> QED  BY <4>1, <4>2
    <3>4. Cardinality(Bytes(Socket, Chunk, put))
          = Cardinality(Bytes(Socket, Chunk, z)) + (put[w] - z[w])
      BY <2>0, <2>3, <3>2, <3>3, ChangedBytes
    <3>5. Cardinality(Bytes(Socket, Chunk, z)) = 0
      BY <2>0, <3>3, NoBytes
    <3>6. Cardinality(Uncounted) = put[w]
      BY <2>0, <2>3, <3>3, <3>4, <3>5 DEF Uncounted
    <3>7. put[w] \in Nat /\ put[w] < Cap
      BY <2>0, <2>3, <3>1
    <3> QED  BY <1>1, <2>0, <2>2, <3>6, <3>7 DEF CountInv, CounterFollowsPipe
  <2> QED  BY <2>4, <2>5
<1> QED  BY <1>1, CountInit, CountSteps, PTL DEF Spec

(* A mon/read that looked at the counter when all counting was done, and was *)
(* not overtaken by another one, finds data in the pipe.                     *)
THEOREM ReadsFindData == Spec => []ReadFindsData
<1> DEFINE Inv == CountInv /\ clear \in [Rpc -> BOOLEAN] /\ ReadFindsData
<1>1. Init => Inv
  BY CountInit DEF Init, ReadFindsData
<1>2. Inv /\ [Next]_vars => Inv'
  <2> SUFFICES ASSUME Inv, [Next]_vars PROVE Inv'
    OBVIOUS
  <2>0. CountInv' /\ CountTypes /\ CountTypes' /\ ChunkInv
    BY CountSteps DEF CountInv
  <2>1. CASE UNCHANGED vars
    BY <2>0, <2>1 DEF vars, rpcVars, countVars, ReadFindsData
  <2>2. ASSUME NEW s \in Socket, SocketStep(s) PROVE Inv'
    <3>1. UNCHANGED <<rpc, clear>> /\ (pipe' = pipe \/ PipeWrite(s))
      BY <2>2 DEF SocketStep, PeerLeaves, Accept, Reader, ReadChunk, ReadEnds, PipeWrite,
         AddBytes, ReaderDeletes, ReaderCloses, rpcVars, countVars
    <3>2. CASE PipeWrite(s)
      <4>1. /\ n[s] \in Nat /\ put[s] \in Nat /\ put[s] < n[s] /\ pipe \in Nat
            /\ pipe < Cap /\ Cap \in Nat
        BY <2>0, <3>2, BufferAssumption DEF PipeWrite, CountTypes, ChunkInv
      <4>2. Cap - pipe \in Nat /\ n[s] - put[s] \in Nat
        BY <4>1
      <4>3. pipe' = pipe + Min({Cap - pipe, n[s] - put[s]})
        BY <3>2 DEF PipeWrite
      <4>4. pipe' >= pipe /\ pipe' \in Nat
        BY <4>1, <4>2, <4>3, MinOfTwo
      <4> QED  BY <2>0, <3>1, <4>1, <4>4 DEF ReadFindsData
    <3> QED  BY <2>0, <3>1, <3>2 DEF ReadFindsData
  <2>3. ASSUME NEW r \in Rpc, CallerStep(r) PROVE Inv'
    <3>1. CASE PipeRead(r)
      <4>1. clear' = [q \in Rpc |-> FALSE]
        BY <3>1 DEF PipeRead
      <4> QED  BY <2>0, <4>1 DEF ReadFindsData
    <3>2. CASE MonRead(r)
      <4>1. /\ clear' = [clear EXCEPT ![r] = CounterExact] /\ pipe' = pipe
            /\ rpc' = [rpc EXCEPT ![r] = "read"] /\ bytesInSendPipe # 0
        BY <3>2 DEF MonRead, countVars
      <4>2. CounterExact \in BOOLEAN
        BY DEF CounterExact
      <4>3. clear' \in [Rpc -> BOOLEAN]
        BY <4>1, <4>2
      <4>4. ASSUME CounterExact PROVE pipe > 0
        <5>1. Cap \in Nat /\ Chunk \in Nat
          BY BufferAssumption
        <5>2. Cardinality(Uncounted) = 0
          BY <4>4, <5>1, NoBytes DEF CounterExact, Uncounted
        <5>3. \A q \in Rpc : Taken[q] = 0
          BY <4>4 DEF CounterExact, Taken
        <5>4. Cardinality(Owed) = 0
          BY <5>1, <5>3, NoBytes DEF Owed, Taken
        <5> QED  BY <2>0, <4>1, <5>1, <5>2, <5>4 DEF CountInv, CounterFollowsPipe, CountTypes
      <4>5. \A q \in Rpc : rpc'[q] = "read" /\ clear'[q] => pipe > 0
        <5> SUFFICES ASSUME NEW q \in Rpc, rpc'[q] = "read", clear'[q] PROVE pipe > 0
          OBVIOUS
        <5>1. CASE q = r
          BY <4>1, <4>4, <5>1
        <5>2. CASE q # r
          BY <2>0, <4>1, <5>2 DEF ReadFindsData, CountTypes
        <5> QED  BY <5>1, <5>2
      <4> QED  BY <2>0, <4>1, <4>3, <4>5 DEF ReadFindsData
    <3>3. CASE ~PipeRead(r) /\ ~MonRead(r)
      <4>1. /\ UNCHANGED <<pipe, clear>>
            /\ \E p \in {"idle", "next", "reset", "write", "delete", "close"} :
                   rpc' = [rpc EXCEPT ![r] = p]
        BY <2>3, <3>3 DEF CallerStep, Running, MonWrite, MonReset, SubBytes,
           SetWriteDeadline, ConnWrite, NextSocket, WriterDeletes, WriterCloses, ResetCloses,
           countVars
      <4> QED  BY <2>0, <4>1 DEF ReadFindsData, CountTypes
    <3> QED  BY <3>1, <3>2, <3>3
  <2> QED  BY <2>1, <2>2, <2>3 DEF Next, SocketStep, CallerStep
<1>3. Inv => ReadFindsData
  OBVIOUS
<1> QED  BY <1>1, <1>2, <1>3, PTL DEF Spec

=============================================================================
