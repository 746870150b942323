------------------------- MODULE SerialSystemProofs -------------------------
(***************************************************************************)
(* The invariants of the serial port, for any number of clients, any        *)
(* behaviour of the device and any number of channels; of waitForPort, for  *)
(* a path of any length; and of the two together, which keep to the         *)
(* specification of each of them.                                           *)
(***************************************************************************)
EXTENDS SerialSystem, TLAPS

-----------------------------------------------------------------------------
(***************************************************************************)
(* The serial port.                                                         *)
(***************************************************************************)

(***************************************************************************)
(* Channels are numbered upwards, so a closed channel is not newer than the *)
(* last one made, and the current one is newer than every channel that a    *)
(* close has asked about.                                                   *)
(***************************************************************************)
ChannelInv ==
    /\ SignalIsOpen
    /\ closed \subseteq 1 .. lastGen
    /\ \A c \in Caller : cpc[c] \in {"waiting", "woken"} => asked[c] \in closed

(***************************************************************************)
(* Away from the top of its loop the serial goroutine works for a channel   *)
(* newer than those of the closers it has woken.                            *)
(***************************************************************************)
ProgressInv ==
    /\ ParkedMeansQuiet
    /\ OneConnection
    /\ ServingCanBeStopped
    /\ spc = "closing" => handle = "closed"
    /\ spc \in {"open", "waitport", "serving", "closing"} =>
           \A c \in Caller : cpc[c] = "woken" => asked[c] < chan

SerialInv == StateOK /\ ChannelInv /\ ProgressInv

(* The initial state, with one open channel and nobody waiting.              *)
LEMMA SerialInit == Init => SerialInv
<1> USE PortsAssumption, MaxGenAssumption DEF Init
<1>1. Init => StateOK
  BY DEF StateOK
<1>2. Init => ChannelInv
  BY DEF ChannelInv, SignalIsOpen
<1>3. Init => ProgressInv
  BY DEF ProgressInv, ParkedMeansQuiet, OneConnection, ServingCanBeStopped
<1> QED  BY <1>1, <1>2, <1>3 DEF SerialInv

(* $/serial/open makes a channel newer than all others.                      *)
LEMMA OpenKeeps ==
  ASSUME SerialInv, NEW c \in Caller, SerialOpen(c)
  PROVE  SerialInv'
<1> USE MaxGenAssumption DEF SerialInv, SerialOpen, CanCall
<1>1. StateOK'
  BY DEF StateOK
<1>2. ChannelInv'
  BY DEF StateOK, ChannelInv, SignalIsOpen
<1>3. ProgressInv'
  BY DEF StateOK, ProgressInv, ParkedMeansQuiet, OneConnection, ServingCanBeStopped
<1> QED  BY <1>1, <1>2, <1>3

(* $/serial/close closes the current channel and waits.                      *)
LEMMA CloseKeeps ==
  ASSUME SerialInv, NEW c \in Caller, SerialClose(c)
  PROVE  SerialInv'
<1> USE MaxGenAssumption DEF SerialInv, CanCall
<1>1. UNCHANGED <<lastGen, spc, chan, conn, handle, port>>
  BY DEF SerialClose, serialVars
<1>2. CASE serialCloseSignal = 0
  <2>1. UNCHANGED <<serialCloseSignal, closed, cpc, asked>>
    BY <1>2 DEF SerialClose
  <2> QED
    BY <1>1, <2>1 DEF StateOK, ChannelInv, ProgressInv, SignalIsOpen,
                      ParkedMeansQuiet, OneConnection, ServingCanBeStopped
<1>3. CASE serialCloseSignal # 0
  <2>1. /\ closed' = closed \cup {serialCloseSignal}
        /\ asked' = [asked EXCEPT ![c] = serialCloseSignal]
        /\ serialCloseSignal' = 0
        /\ cpc' = [cpc EXCEPT ![c] = "waiting"]
    BY <1>3 DEF SerialClose
  <2>2. serialCloseSignal \in 1 .. lastGen /\ serialCloseSignal = lastGen
    BY <1>3 DEF StateOK, ChannelInv, SignalIsOpen
  <2>3. StateOK'
    BY <1>1, <2>1, <2>2 DEF StateOK
  <2>4. ChannelInv'
    BY <1>1, <2>1, <2>2 DEF StateOK, ChannelInv, SignalIsOpen
  <2>5. ProgressInv'
    BY <1>1, <1>3, <2>1 DEF StateOK, ProgressInv, ParkedMeansQuiet, OneConnection,
                            ServingCanBeStopped
  <2> QED  BY <2>3, <2>4, <2>5
<1> QED  BY <1>2, <1>3

LEMMA CloseReturnsKeeps ==
  ASSUME SerialInv, NEW c \in Caller, SerialCloseReturns(c)
  PROVE  SerialInv'
<1> USE DEF SerialInv, SerialCloseReturns, serialVars
<1>1. StateOK'
  BY DEF StateOK
<1>2. ChannelInv'
  BY DEF StateOK, ChannelInv, SignalIsOpen
<1>3. ProgressInv'
  BY DEF StateOK, ProgressInv, ParkedMeansQuiet, OneConnection, ServingCanBeStopped
<1> QED  BY <1>1, <1>2, <1>3

(* Another handler of the microcontroller neither closes nor waits for a     *)
(* close.                                                                    *)
LEMMA OtherKeeps ==
  ASSUME SerialInv, OtherCall \/ OtherReturns
  PROVE  SerialInv'
<1> USE CallerAssumption DEF SerialInv, OtherCall, OtherReturns, serialVars, Caller
<1>1. StateOK'
  BY DEF StateOK
<1>2. ChannelInv'
  BY DEF StateOK, ChannelInv, SignalIsOpen
<1>3. ProgressInv'
  BY DEF StateOK, ProgressInv, ParkedMeansQuiet, OneConnection, ServingCanBeStopped
<1> QED  BY <1>1, <1>2, <1>3

(* The top of the loop: wake the closers and park, or take up the current    *)
(* channel, which is newer than what any woken closer has closed.            *)
LEMMA TopKeeps ==
  ASSUME SerialInv, Top
  PROVE  SerialInv'
<1> USE MaxGenAssumption DEF SerialInv, Top, Broadcast
<1>1. StateOK'
  BY DEF StateOK
<1>2. ChannelInv'
  BY DEF StateOK, ChannelInv, SignalIsOpen
<1>3. ProgressInv'
  BY DEF StateOK, ChannelInv, SignalIsOpen, ProgressInv, ParkedMeansQuiet,
         OneConnection, ServingCanBeStopped
<1> QED  BY <1>1, <1>2, <1>3

(* The other steps leave the callers and the channels alone.                 *)
LEMMA QuietKeeps ==
  ASSUME SerialInv,
         OpenPort \/ PortFound \/ WaitFailed \/ StopServing \/ Disconnected
         \/ ConnEnds \/ PortChanges \/ UNCHANGED vars
  PROVE  SerialInv'
<1> USE MaxGenAssumption, PortsAssumption
        DEF SerialInv, OpenPort, PortFound, WaitFailed, StopServing, Disconnected,
            ConnEnds, PortChanges, vars, serialVars
<1>1. StateOK'
  BY DEF StateOK
<1>2. ChannelInv'
  BY DEF StateOK, ChannelInv, SignalIsOpen
<1>3. ProgressInv'
  BY DEF StateOK, ProgressInv, ParkedMeansQuiet, OneConnection, ServingCanBeStopped
<1> QED  BY <1>1, <1>2, <1>3

LEMMA SerialStep == SerialInv /\ [Next]_vars => SerialInv'
<1> SUFFICES ASSUME SerialInv, [Next]_vars
             PROVE  SerialInv'
  OBVIOUS
<1>1. CASE \E c \in Caller : SerialOpen(c) \/ SerialClose(c) \/ SerialCloseReturns(c)
  BY <1>1, OpenKeeps, CloseKeeps, CloseReturnsKeeps
<1>2. CASE SerialGoroutine \/ WaitFailed
  BY <1>2, TopKeeps, QuietKeeps DEF SerialGoroutine
<1>3. CASE ReadFails \/ ReadsNoise \/ PortChanges \/ UNCHANGED vars
  BY <1>3, QuietKeeps DEF ReadFails, ReadsNoise
<1>4. CASE OtherCall \/ OtherReturns
  BY <1>4, OtherKeeps
<1> QED  BY <1>1, <1>2, <1>3, <1>4 DEF Next

LEMMA SerialInvariant == Spec => []SerialInv
  BY SerialInit, SerialStep, PTL DEF Spec

(* The history variables; they take part in no guard.                        *)
LEMMA HistoryStep == HistoryOK /\ [Next]_vars => HistoryOK'
<1> SUFFICES ASSUME told \in BOOLEAN, [Next]_vars
             PROVE  told' \in BOOLEAN
  BY DEF HistoryOK
<1>1. ASSUME NEW c \in Caller, SerialOpen(c) \/ SerialClose(c) \/ SerialCloseReturns(c)
      PROVE  told' \in BOOLEAN
  BY <1>1, Zenon DEF SerialOpen, SerialClose, SerialCloseReturns, serialVars
<1>2. CASE Top \/ PortFound \/ StopServing \/ Disconnected \/ ConnEnds \/ UNCHANGED vars
  BY <1>2, Zenon DEF Top, PortFound, StopServing, Disconnected, ConnEnds, vars
<1>3. CASE OpenPort \/ WaitFailed \/ PortChanges \/ OtherCall \/ OtherReturns
  BY <1>3, Zenon DEF OpenPort, WaitFailed, PortChanges, OtherCall, OtherReturns
<1> QED  BY <1>1, <1>2, <1>3, Zenon DEF Next, SerialGoroutine, ReadFails, ReadsNoise

(* Every variable keeps its type.                                            *)
THEOREM SerialTypeCorrect == Spec => []TypeOK
<1>1. Init => HistoryOK
  BY Zenon DEF Init, HistoryOK
<1>2. SerialInv /\ HistoryOK => TypeOK
  BY DEF SerialInv, TypeOK
<1> QED  BY <1>1, <1>2, HistoryStep, SerialInvariant, PTL DEF Spec

(* $/serial/close never closes a channel twice.                              *)
THEOREM SignalStaysOpen == Spec => []SignalIsOpen
<1>1. SerialInv => SignalIsOpen
  BY DEF SerialInv, ChannelInv
<1> QED  BY <1>1, SerialInvariant, PTL

(* No wake-up is lost: the serial goroutine sleeps only when nobody waits    *)
(* for it and nothing is to be opened.                                       *)
THEOREM ParkingIsQuiet == Spec => []ParkedMeansQuiet
<1>1. SerialInv => ParkedMeansQuiet
  BY DEF SerialInv, ProgressInv
<1> QED  BY <1>1, SerialInvariant, PTL

(* A $/serial/close that waited returns after the connection it closed is    *)
(* gone.                                                                     *)
THEOREM CloseWaitsForDisconnect == Spec => []WokenMeansDisconnected
<1>1. SerialInv => WokenMeansDisconnected
  BY DEF SerialInv, StateOK, ChannelInv, ProgressInv, OneConnection,
         WokenMeansDisconnected
<1> QED  BY <1>1, SerialInvariant, PTL

(* The port is always served with a channel that can still be closed, or has *)
(* been.                                                                     *)
THEOREM ServingIsStoppable == Spec => []ServingCanBeStopped
<1>1. SerialInv => ServingCanBeStopped
  BY DEF SerialInv, ProgressInv
<1> QED  BY <1>1, SerialInvariant, PTL

(* The router never holds two connections over the port.                     *)
THEOREM ConnectionIsUnique == Spec => []OneConnection
<1>1. SerialInv => OneConnection
  BY DEF SerialInv, ProgressInv
<1> QED  BY <1>1, SerialInvariant, PTL

-----------------------------------------------------------------------------
(***************************************************************************)
(* waitForPort never misses the device in a directory it watches, for any   *)
(* number of changes of the file system.  The argument: the function starts *)
(* to wait only after it has not found the device, and while it waits the   *)
(* device can only appear through an event.                                 *)
(***************************************************************************)

(* The search for an existing ancestor starts above the device itself.       *)
WatchInv == WatchTypeOK /\ (pc \in {"search", "add"} => dir < Depth)

LEMMA WatchInit == InitWatch => WatchInv /\ NoLostEvent
  BY PathAssumption, ChangeAssumption DEF InitWatch, WatchInv, WatchTypeOK, NoLostEvent, Level

LEMMA WatchStep == WatchInv /\ [NextWatch]_watchVars => WatchInv'
<1> SUFFICES ASSUME WatchInv, [NextWatch]_watchVars
             PROVE  WatchInv'
  OBVIOUS
<1> USE PathAssumption, ChangeAssumption DEF WatchInv, WatchTypeOK, Level, Return
<1>1. CASE Start \/ Search
  <2>1. CASE Start
    BY <2>1 DEF Start
  <2>2. CASE Search
    <3>1. CASE dir <= present
      BY <2>2, <3>1 DEF Search
    <3>2. CASE ~(dir <= present)
      <4>1. dir' = dir - 1 /\ pc' = pc /\ dir - 1 \in Level /\ dir - 1 < Depth
        BY <2>2, <3>2 DEF Search
      <4> QED  BY <2>2, <4>1 DEF Search
    <3> QED  BY <3>1, <3>2
  <2> QED  BY <1>1, <2>1, <2>2
<1>2. CASE AddAncestor
  <2>1. <<>> \in Seq(Event)
    OBVIOUS
  <2>2. {dir} \subseteq 0 .. Depth - 1
    BY <1>2 DEF AddAncestor
  <2>3. CASE dir <= present
    BY <1>2, <2>2, <2>3 DEF AddAncestor
  <2>4. CASE ~(dir <= present)
    BY <1>2, <2>1, <2>4 DEF AddAncestor
  <2> QED  BY <2>3, <2>4
<1>3. CASE CheckTarget \/ Stop
  <2>1. <<>> \in Seq(Event)
    OBVIOUS
  <2> QED  BY <1>3, <2>1 DEF CheckTarget, Stop
<1>4. CASE TakeEvent
  <2>1. Head(events) \in Event /\ Tail(events) \in Seq(Event)
    BY <1>4 DEF TakeEvent
  <2> QED  BY <1>4, <2>1 DEF TakeEvent, Event
<1>5. CASE Follow
  <2>1. watched' \subseteq 0 .. Depth - 1
    <3>1. CASE watched' = watched \cup {dir} /\ dir < Depth
      <4>1. dir \in 0 .. Depth - 1
        BY <3>1
      <4> QED  BY <3>1, <4>1
    <3>2. CASE UNCHANGED watched
      BY <3>2
    <3> QED  BY <1>5, <3>1, <3>2 DEF Follow
  <2> QED  BY <1>5, <2>1 DEF Follow
<1>6. CASE Create
  <2>1. [op |-> "create", level |-> present + 1] \in Event
    BY <1>6 DEF Create, Event
  <2> QED  BY <1>6, <2>1 DEF Create
<1>7. CASE Remove
  <2>1. [op |-> "remove", level |-> present] \in Event
    BY DEF Event
  <2> QED  BY <1>7, <2>1 DEF Remove
<1>8. CASE UNCHANGED watchVars
  BY <1>8 DEF watchVars
<1> QED
  BY <1>1, <1>2, <1>3, <1>4, <1>5, <1>6, <1>7, <1>8 DEF NextWatch, waitForPort

LEMMA LostStep == WatchTypeOK /\ NoLostEvent /\ [NextWatch]_watchVars => NoLostEvent'
<1> SUFFICES ASSUME WatchTypeOK, NoLostEvent, [NextWatch]_watchVars,
                    pc' = "wait", present' = Depth, Depth - 1 \in watched'
             PROVE  \E i \in DOMAIN events' :
                        events'[i] = [op |-> "create", level |-> Depth]
  BY DEF NoLostEvent
<1> USE PathAssumption, ChangeAssumption DEF WatchTypeOK, Level, Return
<1>1. CASE waitForPort \/ Stop
  BY <1>1 DEF waitForPort, Start, Search, AddAncestor, CheckTarget, TakeEvent, Follow,
              Stop
<1>2. CASE Create
  <2>1. events' = Append(events, [op |-> "create", level |-> Depth])
    BY <1>2 DEF Create
  <2> QED  BY <2>1
<1>3. CASE Remove
  BY <1>3 DEF Remove
<1>4. CASE UNCHANGED watchVars
  BY <1>4 DEF watchVars, NoLostEvent
<1> QED  BY <1>1, <1>2, <1>3, <1>4 DEF NextWatch

(* Every variable of waitForPort keeps its type.                             *)
THEOREM WatchTypeCorrect == WatchSpec => []WatchTypeOK
<1>1. WatchInv => WatchTypeOK
  BY DEF WatchInv
<1> QED  BY <1>1, WatchInit, WatchStep, PTL DEF WatchSpec

(* When waitForPort is about to block although the device is there and its   *)
(* directory is watched, the event that reports it is still to come.         *)
THEOREM CreationIsReported == WatchSpec => []NoLostEvent
  BY WatchInit, WatchTypeCorrect, LostStep, PTL DEF WatchSpec

-----------------------------------------------------------------------------
(***************************************************************************)
(* The composition of the serial goroutine with waitForPort keeps to the    *)
(* specification of each of them, so that what is proved of either holds of *)
(* the two together.                                                        *)
(***************************************************************************)

(* Every step of the system is a step of the serial port, or none.           *)
LEMMA SystemStepIsSerialStep == [SystemNext]_systemVars => [Next]_vars
<1> SUFFICES ASSUME [SystemNext]_systemVars
             PROVE  [Next]_vars
  OBVIOUS
<1>1. CASE OpenOrWait
  BY <1>1 DEF OpenOrWait, Next, SerialGoroutine
<1>2. CASE WaitForPort
  BY <1>2 DEF WaitForPort, Next, SerialGoroutine
<1>3. CASE Serve
  BY <1>3 DEF Serve, Next, SerialGoroutine
<1>4. CASE GiveUp
  BY <1>4 DEF GiveUp, Next
<1>5. CASE \E c \in Caller : Handlers(c)
  BY <1>5 DEF Handlers, Next
<1>6. CASE Connection
  BY <1>6 DEF Connection, Next
<1>7. CASE Plug \/ Unplug \/ Share
  BY <1>7 DEF Plug, Unplug, Share, Next
<1>8. CASE UNCHANGED systemVars
  BY <1>8 DEF systemVars
<1> QED  BY <1>1, <1>2, <1>3, <1>4, <1>5, <1>6, <1>7, <1>8 DEF SystemNext, Goroutine

(* Every step of the system is a step of waitForPort or its surroundings, or *)
(* none.                                                                     *)
LEMMA SystemStepIsWatchStep == [SystemNext]_systemVars => [NextWatch]_watchVars
<1> SUFFICES ASSUME [SystemNext]_systemVars
             PROVE  [NextWatch]_watchVars
  OBVIOUS
<1>1. CASE OpenOrWait
  BY <1>1 DEF OpenOrWait, NextWatch, waitForPort
<1>2. CASE WaitForPort
  BY <1>2 DEF WaitForPort, NextWatch, waitForPort
<1>3. CASE GiveUp
  BY <1>3 DEF GiveUp, NextWatch
<1>4. CASE Plug \/ Unplug
  BY <1>4 DEF Plug, Unplug, NextWatch
<1>5. CASE Serve \/ (\E c \in Caller : Handlers(c)) \/ Connection \/ Share
  BY <1>5 DEF Serve, Handlers, Connection, Share
<1>6. CASE UNCHANGED systemVars
  BY <1>6 DEF systemVars
<1> QED  BY <1>1, <1>2, <1>3, <1>4, <1>5, <1>6 DEF SystemNext, Goroutine

(* The system implements both of its parts (main.go:238-279 and 332-375).    *)
THEOREM SystemImplementsParts == SystemSpec => Spec /\ WatchSpec
<1>1. SystemInit => Init /\ InitWatch
  BY DEF SystemInit
<1> QED  BY <1>1, SystemStepIsSerialStep, SystemStepIsWatchStep, PTL
         DEF SystemSpec, Spec, WatchSpec

(* The two parts agree on the device: it exists for serial.Open exactly when *)
(* it does for Lstat.                                                        *)
THEOREM PartsAgreeOnDevice == SystemSpec => []DeviceExists
<1>1. SystemInit => DeviceExists
  BY DEF SystemInit
<1>2. WatchTypeOK /\ DeviceExists /\ [SystemNext]_systemVars => DeviceExists'
  <2> SUFFICES ASSUME WatchTypeOK, DeviceExists, [SystemNext]_systemVars
               PROVE  DeviceExists'
    OBVIOUS
  <2> USE PathAssumption DEF DeviceExists, WatchTypeOK, Level
  <2>1. CASE OpenOrWait
    BY <2>1 DEF OpenOrWait, OpenPort, Start, watchVars
  <2>2. CASE WaitForPort
    BY <2>2 DEF WaitForPort, Search, AddAncestor, CheckTarget, TakeEvent, Follow,
                Return, PortFound, WaitFailed, vars
  <2>3. CASE GiveUp
    BY <2>3 DEF GiveUp, Stop, WaitFailed
  <2>4. CASE Serve
    BY <2>4 DEF Serve, Top, StopServing, Disconnected, watchVars
  <2>5. CASE \E c \in Caller : Handlers(c)
    BY <2>5 DEF Handlers, SerialOpen, SerialClose, SerialCloseReturns, watchVars
  <2>6. CASE Connection
    BY <2>6 DEF Connection, OtherCall, OtherReturns, ReadFails, ReadsNoise, ConnEnds,
                watchVars
  <2>7. CASE Plug
    BY <2>7 DEF Plug, Create, PortChanges, vars
  <2>8. CASE Unplug
    BY <2>8 DEF Unplug, Remove, PortChanges, vars
  <2>9. CASE Share
    BY <2>9 DEF Share, PortChanges, watchVars
  <2>10. CASE UNCHANGED systemVars
    BY <2>10 DEF systemVars, vars, watchVars
  <2> QED  BY <2>1, <2>2, <2>3, <2>4, <2>5, <2>6, <2>7, <2>8, <2>9, <2>10
           DEF SystemNext, Goroutine
<1> QED  BY <1>1, <1>2, SystemImplementsParts, WatchTypeCorrect, PTL DEF SystemSpec

(* What is proved of the parts holds of the system: the close signal is      *)
(* never closed twice, no closer waits for a parked goroutine, one           *)
(* connection exists at a time, and no creation of the device is missed in a *)
(* watched directory.                                                        *)
THEOREM SystemIsSafe ==
    SystemSpec => [](SignalIsOpen /\ ParkedMeansQuiet /\ OneConnection /\ NoLostEvent)
  BY SystemImplementsParts, SignalStaysOpen, ParkingIsQuiet, ConnectionIsUnique,
     CreationIsReported, PTL

=============================================================================
