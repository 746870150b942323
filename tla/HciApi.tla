------------------------------- MODULE HciApi -------------------------------
(***************************************************************************)
(* The HCI API: internal/hciapi/hci-api_linux.go.  One descriptor, kept in  *)
(* an atomic variable, is shared by the handlers of hci/open, hci/close,    *)
(* hci/send, hci/recv and hci/avail, which run on the goroutines of the RPC *)
(* connections that call them (workers).  There is no lock: a handler swaps *)
(* or loads the descriptor and then works on the number it got.             *)
(*                                                                          *)
(* The kernel is external.  A descriptor is a number; a new one is the      *)
(* lowest free number, which may have been the number of a socket closed a  *)
(* moment ago.  The rest of the process (TCP and UDP sockets, monitor and   *)
(* RPC connections, the serial port) opens and closes descriptors too.  A   *)
(* device has at most one socket bound to its user channel, and can be      *)
(* brought down only while it has none.                                     *)
(***************************************************************************)
EXTENDS Integers

CONSTANTS
    Worker,   \* the RPC connections that call these methods
    Device,   \* the HCI devices
    MaxFd     \* the number of descriptors (bound)

ASSUME DeviceAssumption == Device \cap {"free", "other", "raw", "none"} = {}
ASSUME MaxFdAssumption  == MaxFd \in Nat

Fd == 0 .. MaxFd - 1

VARIABLES
    hciSocket,  \* the shared descriptor, or -1
    fds,        \* fds[f]: "free", "other", an HCI socket not yet bound ("raw"),
                \*         or the device it is bound to
    pc,         \* where worker w is
    fd,         \* fd[w]: the descriptor it got
    dev,        \* dev[w]: the device it opens
    overlap     \* history: two hci/open calls of different devices overlapped

vars == <<hciSocket, fds, pc, fd, dev, overlap>>

Opening == {"closeOld", "socket", "down", "bind", "undo", "store"}
Steps   == Opening \cup {"idle", "close", "write", "timeout", "read", "poll"}

TypeOK ==
    /\ hciSocket \in Fd \cup {-1}
    /\ fds \in [Fd -> {"free", "other", "raw"} \cup Device]
    /\ pc \in [Worker -> Steps]
    /\ fd \in [Worker -> Fd \cup {-1}]
    /\ dev \in [Worker -> Device \cup {"none"}]
    /\ overlap \in BOOLEAN

Init ==
    /\ hciSocket = -1
    /\ fds = [f \in Fd |-> "free"]
    /\ pc = [w \in Worker |-> "idle"]
    /\ fd = [w \in Worker |-> -1]
    /\ dev = [w \in Worker |-> "none"]
    /\ overlap = FALSE

-----------------------------------------------------------------------------
Goto(w, step) == pc' = [pc EXCEPT ![w] = step]

Return(w) ==
    /\ Goto(w, "idle")
    /\ fd' = [fd EXCEPT ![w] = -1]
    /\ dev' = [dev EXCEPT ![w] = "none"]

Close(f) == fds' = [fds EXCEPT ![f] = "free"]

(* The lowest free descriptor.                                               *)
NewFd(f) == fds[f] = "free" /\ \A g \in Fd : g < f => fds[g] # "free"

InUse(d) == \E f \in Fd : fds[f] = d

(***************************************************************************)
(* hci/open: put the old socket away, then make, prepare and store a new    *)
(* one.  A name that is not hciX is refused before anything is touched.     *)
(***************************************************************************)
Opens(w, d) ==
    /\ dev' = [dev EXCEPT ![w] = d]
    /\ overlap' = (overlap \/ \E v \in Worker : pc[v] \in Opening /\ dev[v] # d)

hciOpen(w, d) ==
    /\ pc[w] = "idle"
    /\ fd' = [fd EXCEPT ![w] = hciSocket]
    /\ hciSocket' = -1
    /\ Goto(w, IF hciSocket >= 0 THEN "closeOld" ELSE "socket")
    /\ Opens(w, d)
    /\ UNCHANGED fds

CloseOld(w) ==
    /\ pc[w] = "closeOld"
    /\ Close(fd[w])
    /\ Goto(w, "socket")
    /\ fd' = [fd EXCEPT ![w] = -1]
    /\ UNCHANGED <<hciSocket, dev, overlap>>

Socket(w) ==
    /\ pc[w] = "socket"
    /\ \/ /\ \E f \in Fd : /\ NewFd(f)
                           /\ fds' = [fds EXCEPT ![f] = "raw"]
                           /\ fd' = [fd EXCEPT ![w] = f]
          /\ Goto(w, "down") /\ UNCHANGED dev
       \/ Return(w) /\ UNCHANGED fds
    /\ UNCHANGED <<hciSocket, overlap>>

(* ioctl(HCIDEVDOWN) *)
DeviceDown(w) ==
    /\ pc[w] = "down"
    /\ \/ ~InUse(dev[w]) /\ Goto(w, "bind")
       \/ Goto(w, "undo")
    /\ UNCHANGED <<hciSocket, fds, fd, dev, overlap>>

(* Mutant: the error of bind is not looked at.                               *)
BindUnchecked(w) ==
    /\ pc[w] = "bind"
    /\ fds' = IF InUse(dev[w]) THEN fds ELSE [fds EXCEPT ![fd[w]] = dev[w]]
    /\ Goto(w, "store")
    /\ UNCHANGED <<hciSocket, fd, dev, overlap>>

Bind(w) ==
    /\ pc[w] = "bind"
    /\ \/ /\ ~InUse(dev[w])
          /\ fds' = [fds EXCEPT ![fd[w]] = dev[w]]
          /\ Goto(w, "store")
       \/ Goto(w, "undo") /\ UNCHANGED fds
    /\ UNCHANGED <<hciSocket, fd, dev, overlap>>

(* Mutant: the socket is forgotten when it cannot be used.                   *)
UndoLeaks(w) ==
    /\ pc[w] = "undo"
    /\ Return(w)
    /\ UNCHANGED <<hciSocket, fds, overlap>>

(* The device could not be brought down or bound to.                         *)
Undo(w) ==
    /\ pc[w] = "undo"
    /\ Close(fd[w])
    /\ Return(w)
    /\ UNCHANGED <<hciSocket, overlap>>

Store(w) ==
    /\ pc[w] = "store"
    /\ hciSocket' = fd[w]
    /\ Return(w)
    /\ UNCHANGED <<fds, overlap>>

-----------------------------------------------------------------------------
(* Mutant: Load and, after the close, Store(-1).                             *)
hciCloseLoads(w) ==
    /\ pc[w] = "idle"
    /\ hciSocket >= 0
    /\ fd' = [fd EXCEPT ![w] = hciSocket]
    /\ Goto(w, "close")
    /\ UNCHANGED <<hciSocket, fds, dev, overlap>>

hciClose(w) ==
    /\ pc[w] = "idle"
    /\ hciSocket >= 0
    /\ fd' = [fd EXCEPT ![w] = hciSocket]
    /\ hciSocket' = -1
    /\ Goto(w, "close")
    /\ UNCHANGED <<fds, dev, overlap>>

CloseHeld(w) ==
    /\ pc[w] = "close"
    /\ Close(fd[w])
    /\ Return(w)
    /\ UNCHANGED <<hciSocket, overlap>>

-----------------------------------------------------------------------------
(* hci/send, hci/recv and hci/avail load the descriptor and use it later,    *)
(* whatever has become of the number by then.                                *)
Load(w, step) ==
    /\ pc[w] = "idle"
    /\ hciSocket >= 0
    /\ fd' = [fd EXCEPT ![w] = hciSocket]
    /\ Goto(w, step)
    /\ UNCHANGED <<hciSocket, fds, dev, overlap>>

hciSend(w)  == Load(w, "write")
hciRecv(w)  == Load(w, "timeout")
hciAvail(w) == Load(w, "poll")

(* setsockopt(SO_RCVTIMEO), which fails on what is not a socket.             *)
SetTimeout(w) ==
    /\ pc[w] = "timeout"
    /\ \/ fds[fd[w]] # "free" /\ Goto(w, "read") /\ UNCHANGED <<fd, dev>>
       \/ fds[fd[w]] \in {"free", "other"} /\ Return(w)
    /\ UNCHANGED <<hciSocket, fds, overlap>>

(* write, read or poll: done, or the descriptor is no longer open.           *)
Use(w) ==
    /\ pc[w] \in {"write", "read", "poll"}
    /\ Return(w)
    /\ UNCHANGED <<hciSocket, fds, overlap>>

(* The rest of the process.                                                  *)
OtherOpens(f) ==
    /\ NewFd(f)
    /\ fds' = [fds EXCEPT ![f] = "other"]
    /\ UNCHANGED <<hciSocket, pc, fd, dev, overlap>>

OtherCloses(f) ==
    /\ fds[f] = "other"
    /\ Close(f)
    /\ UNCHANGED <<hciSocket, pc, fd, dev, overlap>>

Next ==
    \/ \E w \in Worker : \/ \E d \in Device : hciOpen(w, d)
                         \/ CloseOld(w) \/ Socket(w) \/ DeviceDown(w) \/ Bind(w)
                         \/ Undo(w) \/ Store(w)
                         \/ hciClose(w) \/ CloseHeld(w)
                         \/ hciSend(w) \/ hciRecv(w) \/ hciAvail(w)
                         \/ SetTimeout(w) \/ Use(w)
    \/ \E f \in Fd : OtherOpens(f) \/ OtherCloses(f)

Spec == Init /\ [][Next]_vars

-----------------------------------------------------------------------------
(* The handlers that have to close, or to store, the descriptor they hold.   *)
Owners == {w \in Worker : pc[w] \in {"closeOld", "down", "bind", "undo", "store", "close"}}

HciFds == {f \in Fd : fds[f] \notin {"free", "other"}}

(* A handler closes only what is its own: the descriptor in its hands is an  *)
(* open HCI socket that no other handler holds and that is not stored, so    *)
(* its close never ends a connection somebody else has opened under the      *)
(* same number, nor the socket a later hci/open has stored (69, 114).        *)
OwnsItsSocket ==
    \A w \in Owners : /\ fd[w] \in HciFds
                      /\ fd[w] # hciSocket
                      /\ \A v \in Owners \ {w} : fd[v] # fd[w]

(* What is stored is an open socket bound to a device, however hci/open and  *)
(* hci/close overlap: a call that finds a descriptor finds a usable one.     *)
StoredIsBound == hciSocket >= 0 => fds[hciSocket] \in Device

(* Every HCI socket is stored or in the hands of a handler, so the next      *)
(* hci/open or hci/close finds it: also when calls fail half way, or two     *)
(* hci/open overlap, as long as they name the same device, which only one    *)
(* of them gets (83, 96).                                                    *)
NoSocketLost ==
    ~overlap => HciFds \subseteq {hciSocket} \cup {fd[w] : w \in Owners}

=============================================================================
