------------------------------- MODULE Monitor -------------------------------
(***************************************************************************)
(* The monitor API: internal/monitorapi/monitor-api.go.  Monitor clients    *)
(* connect over TCP; a goroutine per socket copies what they send into one  *)
(* bounded pipe, and the RPC methods mon/read, mon/write and mon/reset, run *)
(* by the goroutines of the RPC connections that call them, take bytes from *)
(* the pipe, write to all sockets and close all sockets.  The sockets map   *)
(* is under socketsLock and the byte counter is atomic, but the counter and *)
(* the pipe are updated one after the other.                                *)
(*                                                                          *)
(* Bytes are only counted.  The pipe (nio.Pipe, external) lets one writer   *)
(* at a time fill it as far as there is room, and a reader wait until there *)
(* is something in it.                                                      *)
(***************************************************************************)
EXTENDS Integers, FiniteSets, FiniteSetsExt

CONSTANTS
    Socket,   \* the monitor connections
    Rpc,      \* the RPC connections that call the mon/ methods
    Calls,    \* Calls[r]: the methods r calls (bound)
    Chunk,    \* the size of the buffer a socket is read into (1024)
    Cap,      \* the capacity of the pipe (1024)
    ReadSizes,  \* the sizes passed to mon/read (bound)
    MaxChunks,  \* how many chunks a monitor client sends (bound)
    NoSocket

ASSUME BufferAssumption == Cap \in Nat \ {0} /\ Chunk \in 1 .. Cap
ASSUME BoundAssumption  == /\ ReadSizes \subseteq Nat /\ MaxChunks \in Nat
                           /\ Calls \in [Rpc -> SUBSET {"mon/read", "mon/write", "mon/reset"}]
ASSUME SocketAssumption == NoSocket \notin Socket /\ IsFiniteSet(Socket) /\ IsFiniteSet(Rpc)

VARIABLES
    peer,     \* peer[s]: the client at the other end of socket s
    sock,     \* sock[s]: our end
    sockets,  \* the sockets map
    gpc,      \* gpc[s]: where the goroutine that reads s is
    n,        \* n[s]: the size of the chunk it has read
    put,      \* put[s]: how much of it is in the pipe already
    chunks,   \* chunks[s]: how many chunks it has read (bound)
    writer,   \* the goroutine in the middle of a write to the pipe
    pipe,     \* how many bytes are in the pipe
    bytesInSendPipe,
    rpc,      \* rpc[r]: what the goroutine of r is doing
    want,     \* want[r]: the size passed to mon/read, then the bytes it got
    todo,     \* todo[r]: the sockets it still has to serve
    cur,      \* cur[r]: the socket it serves
    many,     \* many[r]: mon/write found several sockets
    deadline, \* deadline[s]: a write deadline is set on s
    clear     \* history: clear[r]: see ReadFindsData

socketVars == <<sock, sockets, deadline>>
readerVars == <<gpc, n, put, chunks, writer>>
countVars  == <<pipe, bytesInSendPipe>>
rpcVars    == <<rpc, want, todo, cur, many, clear>>
vars == <<peer, socketVars, readerVars, countVars, rpcVars>>

TypeOK ==
    /\ peer \in [Socket -> {"new", "here", "gone"}]
    /\ sock \in [Socket -> {"open", "closed"}]
    /\ sockets \subseteq Socket
    /\ gpc \in [Socket -> {"off", "read", "write", "add", "delete", "close", "done"}]
    /\ n \in [Socket -> 0 .. Chunk]
    /\ put \in [Socket -> 0 .. Chunk]
    /\ chunks \in [Socket -> 0 .. MaxChunks]
    /\ writer \in Socket \cup {NoSocket}
    /\ pipe \in 0 .. Cap
    /\ bytesInSendPipe \in Int
    /\ rpc \in [Rpc -> {"idle", "read", "sub", "next", "write", "delete", "close",
                        "reset"}]
    /\ want \in [Rpc -> Nat]
    /\ todo \in [Rpc -> SUBSET Socket]
    /\ cur \in [Rpc -> Socket \cup {NoSocket}]
    /\ many \in [Rpc -> BOOLEAN]
    /\ deadline \in [Socket -> BOOLEAN]
    /\ clear \in [Rpc -> BOOLEAN]

Init ==
    /\ peer = [s \in Socket |-> "new"]
    /\ sock = [s \in Socket |-> "open"]
    /\ sockets = {}
    /\ gpc = [s \in Socket |-> "off"]
    /\ n = [s \in Socket |-> 0]
    /\ put = [s \in Socket |-> 0]
    /\ chunks = [s \in Socket |-> 0]
    /\ writer = NoSocket
    /\ pipe = 0
    /\ bytesInSendPipe = 0
    /\ rpc = [r \in Rpc |-> "idle"]
    /\ want = [r \in Rpc |-> 0]
    /\ todo = [r \in Rpc |-> {}]
    /\ cur = [r \in Rpc |-> NoSocket]
    /\ many = [r \in Rpc |-> FALSE]
    /\ deadline = [s \in Socket |-> FALSE]
    /\ clear = [r \in Rpc |-> FALSE]

-----------------------------------------------------------------------------
(***************************************************************************)
(* A monitor client connects and may leave.                                 *)
(***************************************************************************)
PeerLeaves(s) ==
    /\ peer[s] = "here"
    /\ peer' = [peer EXCEPT ![s] = "gone"]
    /\ UNCHANGED <<socketVars, readerVars, countVars, rpcVars>>

(* connectionHandler: the socket enters the map before its goroutine starts. *)
Accept(s) ==
    /\ peer[s] = "new"
    /\ peer' = [peer EXCEPT ![s] = "here"]
    /\ sockets' = sockets \cup {s}
    /\ gpc' = [gpc EXCEPT ![s] = "read"]
    /\ UNCHANGED <<sock, deadline, n, put, chunks, writer, countVars, rpcVars>>

-----------------------------------------------------------------------------
(***************************************************************************)
(* The goroutine of a socket.                                               *)
(***************************************************************************)

(* Mutant: the buffer is larger than the pipe.                               *)
ReadChunkOversize(s) ==
    /\ gpc[s] = "read"
    /\ sock[s] = "open"
    /\ chunks[s] < MaxChunks
    /\ chunks' = [chunks EXCEPT ![s] = @ + 1]
    /\ \E k \in 1 .. Chunk + 1 : n' = [n EXCEPT ![s] = k]
    /\ put' = [put EXCEPT ![s] = 0]
    /\ gpc' = [gpc EXCEPT ![s] = "write"]
    /\ UNCHANGED <<peer, socketVars, writer, countVars, rpcVars>>

ReadChunk(s) ==
    /\ gpc[s] = "read"
    /\ sock[s] = "open"
    /\ chunks[s] < MaxChunks
    /\ chunks' = [chunks EXCEPT ![s] = @ + 1]
    /\ \E k \in 1 .. Chunk : n' = [n EXCEPT ![s] = k]
    /\ put' = [put EXCEPT ![s] = 0]
    /\ gpc' = [gpc EXCEPT ![s] = "write"]
    /\ UNCHANGED <<peer, socketVars, writer, countVars, rpcVars>>

(* Mutant: the goroutine ends without the deferred close.                    *)
ReadEndsSilently(s) ==
    /\ gpc[s] = "read"
    /\ peer[s] = "gone" \/ sock[s] = "closed"
    /\ gpc' = [gpc EXCEPT ![s] = "close"]
    /\ UNCHANGED <<peer, socketVars, n, put, chunks, writer, countVars, rpcVars>>

(* Mutant: the loop goes on after an error.                                  *)
ReadErrorIgnored(s) ==
    /\ gpc[s] = "read"
    /\ peer[s] = "gone" \/ sock[s] = "closed"
    /\ UNCHANGED vars

ReadEnds(s) ==
    /\ gpc[s] = "read"
    /\ peer[s] = "gone" \/ sock[s] = "closed"
    /\ gpc' = [gpc EXCEPT ![s] = "delete"]
    /\ UNCHANGED <<peer, socketVars, n, put, chunks, writer, countVars, rpcVars>>

(* monSendPipeWr.Write: as much as fits, again and again.                    *)
PipeWrite(s) ==
    LET k == Min({Cap - pipe, n[s] - put[s]})
    IN  /\ gpc[s] = "write"
        /\ writer \in {NoSocket, s}
        /\ pipe < Cap
        /\ pipe' = pipe + k
        /\ put' = [put EXCEPT ![s] = @ + k]
        /\ IF put[s] + k = n[s]
             THEN gpc' = [gpc EXCEPT ![s] = "add"] /\ writer' = NoSocket
             ELSE writer' = s /\ UNCHANGED gpc
        /\ UNCHANGED <<peer, socketVars, n, chunks, bytesInSendPipe, rpcVars>>

AddBytes(s) ==
    /\ gpc[s] = "add"
    /\ bytesInSendPipe' = bytesInSendPipe + n[s]
    /\ put' = [put EXCEPT ![s] = 0]
    /\ gpc' = [gpc EXCEPT ![s] = "read"]
    /\ UNCHANGED <<peer, socketVars, n, chunks, writer, pipe, rpcVars>>

(* close: out of the map first, then closed.                                 *)
ReaderDeletes(s) ==
    /\ gpc[s] = "delete"
    /\ sockets' = sockets \ {s}
    /\ gpc' = [gpc EXCEPT ![s] = "close"]
    /\ UNCHANGED <<peer, sock, deadline, n, put, chunks, writer, countVars, rpcVars>>

ReaderCloses(s) ==
    /\ gpc[s] = "close"
    /\ sock' = [sock EXCEPT ![s] = "closed"]
    /\ gpc' = [gpc EXCEPT ![s] = "done"]
    /\ UNCHANGED <<peer, sockets, deadline, n, put, chunks, writer, countVars, rpcVars>>

-----------------------------------------------------------------------------
(***************************************************************************)
(* mon/read.  When the counter is zero it answers with no bytes and changes *)
(* nothing; otherwise it reads from the pipe, which waits while that is     *)
(* empty.                                                                   *)
(***************************************************************************)
CounterExact == /\ \A s \in Socket : put[s] = 0
                /\ \A r \in Rpc : rpc[r] # "sub"

(* Mutant: the counter is not looked at.                                     *)
MonReadAlways(r) ==
    /\ rpc[r] = "idle"
    /\ \E k \in ReadSizes : want' = [want EXCEPT ![r] = k]
    /\ rpc' = [rpc EXCEPT ![r] = "read"]
    /\ clear' = [clear EXCEPT ![r] = CounterExact]
    /\ UNCHANGED <<peer, socketVars, readerVars, countVars, todo, cur, many>>

MonRead(r) ==
    /\ rpc[r] = "idle" /\ "mon/read" \in Calls[r]
    /\ bytesInSendPipe # 0
    /\ \E k \in ReadSizes : want' = [want EXCEPT ![r] = k]
    /\ rpc' = [rpc EXCEPT ![r] = "read"]
    /\ clear' = [clear EXCEPT ![r] = CounterExact]
    /\ UNCHANGED <<peer, socketVars, readerVars, countVars, todo, cur, many>>

(* Mutant: the bytes asked for are counted, not the bytes read.              *)
PipeReadCountsAsked(r) ==
    /\ rpc[r] = "read"
    /\ pipe > 0
    /\ pipe' = pipe - Min({want[r], pipe})
    /\ rpc' = [rpc EXCEPT ![r] = "sub"]
    /\ clear' = [q \in Rpc |-> FALSE]
    /\ UNCHANGED <<peer, socketVars, readerVars, bytesInSendPipe, want, todo, cur,
                   many>>

PipeRead(r) ==
    LET k == Min({want[r], pipe})
    IN  /\ rpc[r] = "read"
        /\ pipe > 0
        /\ pipe' = pipe - k
        /\ want' = [want EXCEPT ![r] = k]
        /\ rpc' = [rpc EXCEPT ![r] = "sub"]
        /\ clear' = [q \in Rpc |-> FALSE]
        /\ UNCHANGED <<peer, socketVars, readerVars, bytesInSendPipe, todo, cur, many>>

SubBytes(r) ==
    /\ rpc[r] = "sub"
    /\ bytesInSendPipe' = bytesInSendPipe - want[r]
    /\ want' = [want EXCEPT ![r] = 0]
    /\ rpc' = [rpc EXCEPT ![r] = "idle"]
    /\ UNCHANGED <<peer, socketVars, readerVars, pipe, todo, cur, many, clear>>

-----------------------------------------------------------------------------
(***************************************************************************)
(* mon/write: a copy of the map, then one socket after the other, in any    *)
(* order.  A deadline applies to writes already under way.                  *)
(***************************************************************************)
MonWrite(r) ==
    /\ rpc[r] = "idle" /\ "mon/write" \in Calls[r]
    /\ sockets # {}
    /\ todo' = [todo EXCEPT ![r] = sockets]
    /\ many' = [many EXCEPT ![r] = Cardinality(sockets) > 1]
    /\ rpc' = [rpc EXCEPT ![r] = "next"]
    /\ UNCHANGED <<peer, socketVars, readerVars, countVars, want, cur, clear>>

SetWriteDeadline(r) ==
    /\ rpc[r] = "next"
    /\ \E s \in todo[r] :
           /\ cur' = [cur EXCEPT ![r] = s]
           /\ todo' = [todo EXCEPT ![r] = @ \ {s}]
           /\ deadline' = [deadline EXCEPT ![s] = many[r]]
    /\ rpc' = [rpc EXCEPT ![r] = "write"]
    /\ UNCHANGED <<peer, sock, sockets, readerVars, countVars, want, many, clear>>

(* The next socket, or the answer to the call.                               *)
NextSocket(r) ==
    /\ rpc' = [rpc EXCEPT ![r] = IF todo[r] = {} THEN "idle" ELSE "next"]
    /\ cur' = [cur EXCEPT ![r] = NoSocket]

(* The write succeeds (of a client that is gone, because the kernel takes    *)
(* the data), or fails because the socket is closed, the client is gone, or  *)
(* the client does not take the data before the deadline.                    *)
ConnWrite(r) ==
    LET s == cur[r]
    IN  /\ rpc[r] = "write"
        /\ \/ sock[s] = "open" /\ NextSocket(r)
           \/ /\ sock[s] = "closed" \/ peer[s] = "gone" \/ deadline[s]
              /\ rpc' = [rpc EXCEPT ![r] = "delete"]
              /\ UNCHANGED cur
        /\ UNCHANGED <<peer, socketVars, readerVars, countVars, want, todo, many, clear>>

WriterDeletes(r) ==
    /\ rpc[r] = "delete"
    /\ sockets' = sockets \ {cur[r]}
    /\ rpc' = [rpc EXCEPT ![r] = "close"]
    /\ UNCHANGED <<peer, sock, deadline, readerVars, countVars, want, todo, cur, many,
                   clear>>

WriterCloses(r) ==
    /\ rpc[r] = "close"
    /\ sock' = [sock EXCEPT ![cur[r]] = "closed"]
    /\ NextSocket(r)
    /\ UNCHANGED <<peer, sockets, deadline, readerVars, countVars, want, todo, many,
                   clear>>

-----------------------------------------------------------------------------
(***************************************************************************)
(* mon/reset: the map is replaced by an empty one, then the sockets of the  *)
(* old map are closed.                                                      *)
(***************************************************************************)
MonReset(r) ==
    /\ rpc[r] = "idle" /\ "mon/reset" \in Calls[r]
    /\ sockets # {}
    /\ todo' = [todo EXCEPT ![r] = sockets]
    /\ sockets' = {}
    /\ rpc' = [rpc EXCEPT ![r] = "reset"]
    /\ UNCHANGED <<peer, sock, deadline, readerVars, countVars, want, cur, many, clear>>

(* Mutant: the map is emptied once more when the sockets are closed.         *)
ResetClosesThenClears(r) ==
    /\ rpc[r] = "reset"
    /\ IF todo[r] = {}
         THEN /\ sockets' = {}
              /\ rpc' = [rpc EXCEPT ![r] = "idle"]
              /\ UNCHANGED <<sock, todo>>
         ELSE /\ \E s \in todo[r] :
                     /\ sock' = [sock EXCEPT ![s] = "closed"]
                     /\ todo' = [todo EXCEPT ![r] = @ \ {s}]
              /\ UNCHANGED <<sockets, rpc>>
    /\ UNCHANGED <<peer, deadline, readerVars, countVars, want, cur, many, clear>>

ResetCloses(r) ==
    /\ rpc[r] = "reset"
    /\ \E s \in todo[r] :
           /\ sock' = [sock EXCEPT ![s] = "closed"]
           /\ todo' = [todo EXCEPT ![r] = @ \ {s}]
           /\ rpc' = [rpc EXCEPT ![r] = IF todo[r] = {s} THEN "idle" ELSE "reset"]
    /\ UNCHANGED <<peer, sockets, deadline, readerVars, countVars, want, cur, many,
                   clear>>

-----------------------------------------------------------------------------
Reader(s) == ReadChunk(s) \/ ReadEnds(s) \/ PipeWrite(s) \/ AddBytes(s)
             \/ ReaderDeletes(s) \/ ReaderCloses(s)

Running(r) == PipeRead(r) \/ SubBytes(r) \/ SetWriteDeadline(r) \/ ConnWrite(r)
              \/ WriterDeletes(r) \/ WriterCloses(r) \/ ResetCloses(r)

Next ==
    \/ \E s \in Socket : PeerLeaves(s) \/ Accept(s) \/ Reader(s)
    \/ \E r \in Rpc : MonRead(r) \/ MonWrite(r) \/ MonReset(r) \/ Running(r)

Spec == Init /\ [][Next]_vars

(***************************************************************************)
(* The goroutine of a socket runs when it can: a read from a closed socket  *)
(* returns.  Nothing is assumed of callers and clients: a mon/write may     *)
(* wait forever for a client that does not read.                            *)
(***************************************************************************)
FairSpec == Spec /\ \A s \in Socket : WF_vars(Reader(s))

-----------------------------------------------------------------------------
(* The bytes on their way: f[x] of them, N at most, at every x in S.         *)
Bytes(S, N, f) == {b \in S \X (1 .. N) : b[2] <= f[b[1]]}

Uncounted == Bytes(Socket, Chunk, put)
Owed      == Bytes(Rpc, Cap, [r \in Rpc |-> IF rpc[r] = "sub" THEN want[r] ELSE 0])

(* The counter follows the pipe: it is short of it by what is written and    *)
(* not yet added, and ahead by what is read and not yet subtracted           *)
(* (monitor-api.go:68-71, 108-112).  In between it may be negative.          *)
CounterFollowsPipe == bytesInSendPipe = pipe - Cardinality(Uncounted) + Cardinality(Owed)

(* A goroutine that waits for room in the pipe can be helped by mon/read:    *)
(* once all counting is done the counter is not zero, so that mon/read does  *)
(* read.  This rests on the buffer being no larger than the pipe             *)
(* (monitor-api.go:36, 63).                                                  *)
WriterCanBeDrained ==
    /\ pipe = Cap
    /\ \A s \in Socket : gpc[s] # "add"
    /\ \A r \in Rpc : rpc[r] # "sub"
    => bytesInSendPipe > 0

(* mon/read does not wait, if all counting was done when it looked at the    *)
(* counter and no other mon/read has overtaken it (monitor-api.go:102-108).  *)
ReadFindsData == \A r \in Rpc : rpc[r] = "read" /\ clear[r] => pipe > 0

(* An open socket is in the map or somebody is about to close it: mon/reset  *)
(* loses no socket that connects meanwhile (monitor-api.go:158-178).         *)
NoOrphanSocket ==
    \A s \in Socket :
        peer[s] # "new" /\ sock[s] = "open" /\ s \notin sockets =>
            \/ gpc[s] = "close"
            \/ \E r \in Rpc : rpc[r] = "close" /\ cur[r] = s
            \/ \E r \in Rpc : rpc[r] = "reset" /\ s \in todo[r]

(* A socket whose goroutine has ended is out of the map for good, whatever   *)
(* mon/write and mon/reset do with it (monitor-api.go:55-60, 158-163).       *)
NoDeadEntry ==
    \A s \in Socket : gpc[s] \in {"close", "done"} => s \notin sockets

(* A monitor client that has left is taken out of the map, so that           *)
(* mon/connected stops counting it, unless its goroutine waits for room in   *)
(* the pipe.                                                                 *)
LeftMeansForgotten ==
    \A s \in Socket : peer[s] = "gone" ~> s \notin sockets \/ pipe = Cap

=============================================================================
