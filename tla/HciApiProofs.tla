---------------------------- MODULE HciApiProofs ----------------------------
(***************************************************************************)
(* The handlers of the HCI API share one descriptor without a lock; that    *)
(* each of them closes only its own socket, and that none is lost, is       *)
(* proved for any number of callers, devices and descriptors.               *)
(***************************************************************************)
EXTENDS HciApi, TLAPS

-----------------------------------------------------------------------------
(***************************************************************************)
(* The inductive invariant.  Owning a descriptor is inductive together with *)
(* what is stored, because a handler gets its descriptor from there.  That  *)
(* no socket is lost needs the reason why Store never overwrites one: while *)
(* the open calls name one device, a stored socket would be bound to the    *)
(* same device as the one being stored.                                     *)
(***************************************************************************)
StoreIsBound == \A w \in Worker : pc[w] = "store" => fds[fd[w]] = dev[w]

OneSocketPerDevice ==
    \A f, g \in Fd : fds[f] \in Device /\ fds[f] = fds[g] => f = g

OpenNamesDevice == \A w \in Worker : pc[w] \in Opening => dev[w] \in Device

OneDeviceOpened ==
    ~overlap => \A v, w \in Worker :
                    pc[v] \in Opening /\ pc[w] \in Opening => dev[v] = dev[w]

StoredIsThatDevice ==
    ~overlap => \A w \in Worker :
                    pc[w] \in Opening /\ hciSocket >= 0 => fds[hciSocket] = dev[w]

HandInv == TypeOK /\ OwnsItsSocket /\ StoredIsBound
OpenInv == StoreIsBound /\ OneSocketPerDevice /\ OpenNamesDevice
LostInv == OneDeviceOpened /\ StoredIsThatDevice /\ NoSocketLost

HInv == HandInv /\ OpenInv /\ LostInv

LEMMA HInit == Init => HInv
<1> SUFFICES ASSUME Init
             PROVE  HInv
  OBVIOUS
<1> USE DeviceAssumption, MaxFdAssumption DEF Init, Fd, Opening, Steps, Owners, HciFds
<1>1. HandInv
  <2>1. fds \in [Fd -> {"free", "other", "raw"} \cup Device] /\ hciSocket \in Fd \cup {-1}
    OBVIOUS
  <2>2. pc \in [Worker -> Steps] /\ fd \in [Worker -> Fd \cup {-1}]
    OBVIOUS
  <2>3. dev \in [Worker -> Device \cup {"none"}] /\ overlap \in BOOLEAN
    BY Zenon
  <2>4. OwnsItsSocket /\ StoredIsBound
    BY DEF OwnsItsSocket, StoredIsBound
  <2> QED  BY <2>1, <2>2, <2>3, <2>4, Zenon DEF HandInv, TypeOK
<1>2. OpenInv
  <2>1. OneSocketPerDevice
    BY DEF OneSocketPerDevice
  <2> QED  BY <2>1 DEF OpenInv, StoreIsBound, OpenNamesDevice
<1>3. LostInv
  BY DEF LostInv, OneDeviceOpened, StoredIsThatDevice, NoSocketLost
<1> QED  BY <1>1, <1>2, <1>3 DEF HInv

-----------------------------------------------------------------------------
LEMMA HandStep == HandInv /\ OpenInv /\ [Next]_vars => HandInv'
<1> SUFFICES ASSUME HandInv, OpenInv, [Next]_vars
             PROVE  HandInv'
  OBVIOUS
<1> USE DeviceAssumption, MaxFdAssumption
    DEF HandInv, OpenInv, TypeOK, OwnsItsSocket, StoredIsBound, Owners, HciFds, Fd, Steps,
        Opening, Goto, Return, Close
<1>1. ASSUME NEW w \in Worker, NEW d \in Device, hciOpen(w, d)
      PROVE  HandInv'
  BY <1>1 DEF hciOpen, Opens
<1>2. ASSUME NEW w \in Worker, CloseOld(w)
      PROVE  HandInv'
  BY <1>2 DEF CloseOld
<1>3. ASSUME NEW w \in Worker, Socket(w)
      PROVE  HandInv'
  <2>1. CASE Return(w) /\ UNCHANGED <<fds, hciSocket, overlap>>
    BY <1>3, <2>1 DEF Socket
  <2>2. ASSUME NEW f \in Fd, NewFd(f), fds' = [fds EXCEPT ![f] = "raw"],
               fd' = [fd EXCEPT ![w] = f], Goto(w, "down"),
               UNCHANGED <<dev, hciSocket, overlap>>
        PROVE  HandInv'
    BY <2>2 DEF NewFd
  <2> QED  BY <1>3, <2>1, <2>2 DEF Socket
<1>4. ASSUME NEW w \in Worker, DeviceDown(w)
      PROVE  HandInv'
  BY <1>4 DEF DeviceDown
<1>5. ASSUME NEW w \in Worker, Bind(w)
      PROVE  HandInv'
  BY <1>5 DEF Bind, OpenNamesDevice
<1>6. ASSUME NEW w \in Worker, Undo(w)
      PROVE  HandInv'
  BY <1>6 DEF Undo
<1>7. ASSUME NEW w \in Worker, Store(w)
      PROVE  HandInv'
  BY <1>7 DEF Store, StoreIsBound, OpenNamesDevice
<1>8. ASSUME NEW w \in Worker, hciClose(w)
      PROVE  HandInv'
  BY <1>8 DEF hciClose
<1>9. ASSUME NEW w \in Worker, CloseHeld(w)
      PROVE  HandInv'
  BY <1>9 DEF CloseHeld
<1>10. ASSUME NEW w \in Worker, hciSend(w) \/ hciRecv(w) \/ hciAvail(w)
       PROVE  HandInv'
  BY <1>10 DEF hciSend, hciRecv, hciAvail, Load
<1>11. ASSUME NEW w \in Worker, SetTimeout(w) \/ Use(w)
       PROVE  HandInv'
  BY <1>11 DEF SetTimeout, Use
<1>12. ASSUME NEW f \in Fd, OtherOpens(f) \/ OtherCloses(f)
       PROVE  HandInv'
  BY <1>12 DEF OtherOpens, OtherCloses, NewFd
<1>13. CASE UNCHANGED vars
  BY <1>13 DEF vars
<1> QED  BY <1>1, <1>2, <1>3, <1>4, <1>5, <1>6, <1>7, <1>8, <1>9, <1>10, <1>11, <1>12,
            <1>13 DEF Next

LEMMA OpenStep == HandInv /\ OpenInv /\ [Next]_vars => OpenInv'
<1> SUFFICES ASSUME HandInv, OpenInv, [Next]_vars
             PROVE  OpenInv'
  OBVIOUS
<1> USE DeviceAssumption, MaxFdAssumption
    DEF HandInv, OpenInv, TypeOK, OwnsItsSocket, Owners, HciFds, Fd, Steps, Opening, Goto,
        Return, Close, StoreIsBound, OneSocketPerDevice, OpenNamesDevice
<1>1. ASSUME NEW w \in Worker, NEW d \in Device, hciOpen(w, d)
      PROVE  OpenInv'
  BY <1>1 DEF hciOpen, Opens
<1>2. ASSUME NEW w \in Worker, CloseOld(w)
      PROVE  OpenInv'
  BY <1>2 DEF CloseOld
<1>3. ASSUME NEW w \in Worker, Socket(w)
      PROVE  OpenInv'
  BY <1>3 DEF Socket, NewFd
<1>4. ASSUME NEW w \in Worker, DeviceDown(w)
      PROVE  OpenInv'
  BY <1>4 DEF DeviceDown
<1>5. ASSUME NEW w \in Worker, Bind(w)
      PROVE  OpenInv'
  BY <1>5 DEF Bind, InUse
<1>6. ASSUME NEW w \in Worker, Undo(w)
      PROVE  OpenInv'
  BY <1>6 DEF Undo
<1>7. ASSUME NEW w \in Worker, Store(w)
      PROVE  OpenInv'
  BY <1>7 DEF Store
<1>8. ASSUME NEW w \in Worker, hciClose(w)
      PROVE  OpenInv'
  BY <1>8 DEF hciClose
<1>9. ASSUME NEW w \in Worker, CloseHeld(w)
      PROVE  OpenInv'
  BY <1>9 DEF CloseHeld
<1>10. ASSUME NEW w \in Worker, hciSend(w) \/ hciRecv(w) \/ hciAvail(w)
       PROVE  OpenInv'
  BY <1>10 DEF hciSend, hciRecv, hciAvail, Load
<1>11. ASSUME NEW w \in Worker, SetTimeout(w) \/ Use(w)
       PROVE  OpenInv'
  BY <1>11 DEF SetTimeout, Use
<1>12. ASSUME NEW f \in Fd, OtherOpens(f) \/ OtherCloses(f)
       PROVE  OpenInv'
  BY <1>12 DEF OtherOpens, OtherCloses, NewFd
<1>13. CASE UNCHANGED vars
  BY <1>13 DEF vars
<1> QED  BY <1>1, <1>2, <1>3, <1>4, <1>5, <1>6, <1>7, <1>8, <1>9, <1>10, <1>11, <1>12,
            <1>13 DEF Next

LEMMA LostStep == HInv /\ [Next]_vars => LostInv'
<1> SUFFICES ASSUME HInv, [Next]_vars
             PROVE  LostInv'
  OBVIOUS
<1> USE DeviceAssumption, MaxFdAssumption
    DEF HInv, HandInv, OpenInv, LostInv, TypeOK, OwnsItsSocket, StoredIsBound, Owners,
        HciFds, Fd, Steps, Opening, Goto, Return, Close, OneDeviceOpened,
        StoredIsThatDevice, NoSocketLost
<1>1. ASSUME NEW w \in Worker, NEW d \in Device, hciOpen(w, d)
      PROVE  LostInv'
  <2>1. hciSocket' = -1 /\ fds' = fds /\ dev' = [dev EXCEPT ![w] = d]
    BY <1>1 DEF hciOpen, Opens
  <2>2. ~overlap' => ~overlap /\ \A v \in Worker : pc[v] \in Opening => dev[v] = d
    BY <1>1, Zenon DEF hciOpen, Opens
  <2>3. \A v \in Worker \ {w} : pc'[v] = pc[v] /\ fd'[v] = fd[v] /\ dev'[v] = dev[v]
    BY <1>1 DEF hciOpen, Opens
  <2>4. OneDeviceOpened'
    BY <2>1, <2>2, <2>3
  <2>5. StoredIsThatDevice'
    BY <2>1
  <2>6. NoSocketLost'
    <3>1. hciSocket = -1 \/ (fd'[w] = hciSocket /\ pc'[w] = "closeOld")
      BY <1>1 DEF hciOpen
    <3>2. pc[w] = "idle"
      BY <1>1 DEF hciOpen
    <3> QED  BY <2>1, <2>2, <2>3, <3>1, <3>2
  <2> QED  BY <2>4, <2>5, <2>6
<1>2. ASSUME NEW w \in Worker, CloseOld(w)
      PROVE  LostInv'
  BY <1>2 DEF CloseOld
<1>3. ASSUME NEW w \in Worker, Socket(w)
      PROVE  LostInv'
  BY <1>3 DEF Socket, NewFd
<1>4. ASSUME NEW w \in Worker, DeviceDown(w)
      PROVE  LostInv'
  BY <1>4 DEF DeviceDown
<1>5. ASSUME NEW w \in Worker, Bind(w)
      PROVE  LostInv'
  BY <1>5 DEF Bind
<1>6. ASSUME NEW w \in Worker, Undo(w)
      PROVE  LostInv'
  BY <1>6 DEF Undo
<1>7. ASSUME NEW w \in Worker, Store(w)
      PROVE  LostInv'
  BY <1>7 DEF Store, StoreIsBound, OneSocketPerDevice, OpenNamesDevice
<1>8. ASSUME NEW w \in Worker, hciClose(w)
      PROVE  LostInv'
  BY <1>8 DEF hciClose
<1>9. ASSUME NEW w \in Worker, CloseHeld(w)
      PROVE  LostInv'
  BY <1>9 DEF CloseHeld
<1>10. ASSUME NEW w \in Worker, hciSend(w) \/ hciRecv(w) \/ hciAvail(w)
       PROVE  LostInv'
  BY <1>10 DEF hciSend, hciRecv, hciAvail, Load
<1>11. ASSUME NEW w \in Worker, SetTimeout(w) \/ Use(w)
       PROVE  LostInv'
  BY <1>11 DEF SetTimeout, Use
<1>12. ASSUME NEW f \in Fd, OtherOpens(f) \/ OtherCloses(f)
       PROVE  LostInv'
  BY <1>12 DEF OtherOpens, OtherCloses, NewFd
<1>13. CASE UNCHANGED vars
  BY <1>13 DEF vars
<1> QED  BY <1>1, <1>2, <1>3, <1>4, <1>5, <1>6, <1>7, <1>8, <1>9, <1>10, <1>11, <1>12,
            <1>13 DEF Next

LEMMA HciInvariant == Spec => []HInv
<1>1. HInv /\ [Next]_vars => HInv'
  BY HandStep, OpenStep, LostStep DEF HInv
<1> QED  BY <1>1, HInit, PTL DEF Spec

-----------------------------------------------------------------------------
(* The descriptors, the handlers and the kernel's table have their types.    *)
THEOREM HciTypeCorrect == Spec => []TypeOK
<1>1. HInv => TypeOK
  BY DEF HInv, HandInv
<1> QED  BY <1>1, HciInvariant, PTL

(* A handler closes only its own socket (hci-api_linux.go:69-70, 114-115).   *)
THEOREM HandlersOwnTheirSockets == Spec => []OwnsItsSocket
<1>1. HInv => OwnsItsSocket
  BY DEF HInv, HandInv
<1> QED  BY <1>1, HciInvariant, PTL

(* The stored descriptor is a bound socket (hci-api_linux.go:69-102).        *)
THEOREM StoredSocketsAreBound == Spec => []StoredIsBound
<1>1. HInv => StoredIsBound
  BY DEF HInv, HandInv
<1> QED  BY <1>1, HciInvariant, PTL

(* No socket is lost while overlapping hci/open calls name one device        *)
(* (hci-api_linux.go:83-102).                                                *)
THEOREM SocketsAreNotLost == Spec => []NoSocketLost
<1>1. HInv => NoSocketLost
  BY DEF HInv, LostInv
<1> QED  BY <1>1, HciInvariant, PTL

=============================================================================
