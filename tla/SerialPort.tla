----------------------------- MODULE SerialPort -----------------------------
(***************************************************************************)
(* The serial connection of main.go: the handlers of $/serial/open and      *)
(* $/serial/close, run by the goroutines of the connections that call them, *)
(* and the goroutine that opens the port, hands it to the router and takes  *)
(* it back.  They share serialCloseSignal under serialLock and wait on two  *)
(* condition variables of that lock.  One action is one critical section or *)
(* one blocking call.                                                       *)
(*                                                                          *)
(* The channels serialCloseSignal takes on are numbered 1, 2, ... in the    *)
(* order they are made; 0 is nil.                                           *)
(***************************************************************************)
EXTENDS Naturals

CONSTANTS
    Client,   \* connections other than the serial one
    Mcu,      \* the connection made over the serial port itself
    Active,   \* the connections that call $/serial/open and $/serial/close
    Ports,    \* the conditions the serial device may be in
    MaxGen    \* how many channels are made (bound)

Caller == Client \cup {Mcu}

ASSUME CallerAssumption == Mcu \notin Client /\ Active \subseteq Caller
ASSUME PortsAssumption  == Ports \subseteq {"absent", "busy", "ready"}
ASSUME MaxGenAssumption == MaxGen \in Nat \ {0}

VARIABLES
    serialCloseSignal,  \* the current channel, or 0
    lastGen,   \* the number of the last channel made
    closed,    \* the channels that have been closed
    cpc,       \* cpc[c]: "idle", in serialClosed.Wait ("waiting"), "woken", or
               \*         in a handler that has nothing to do with the port ("away")
    asked,     \* asked[c]: the channel c closed
    spc,       \* where the serial goroutine is
    chan,      \* its local variable `close'
    conn,      \* the router's connection over the port (routerExit)
    handle,    \* the open serial port
    port,      \* the device
    told       \* history: a close has returned and no open was asked since the
               \*          port was last asked to be closed

serialVars == <<spc, chan>>
vars == <<serialCloseSignal, lastGen, closed, cpc, asked, spc, chan, conn, handle,
          port, told>>

StateOK ==
    /\ serialCloseSignal \in 0 .. MaxGen
    /\ lastGen \in 1 .. MaxGen
    /\ closed \subseteq 1 .. MaxGen
    /\ cpc \in [Caller -> {"idle", "waiting", "woken", "away"}]
    /\ asked \in [Caller -> 0 .. MaxGen]
    /\ spc \in {"top", "parked", "open", "waitport", "serving", "closing"}
    /\ chan \in 0 .. MaxGen
    /\ conn \in {"none", "running", "ended"}
    /\ handle \in {"closed", "open", "broken"}
    /\ port \in {"absent", "busy", "ready"}

HistoryOK == told \in BOOLEAN

TypeOK == StateOK /\ HistoryOK

Init ==
    /\ serialCloseSignal = 1
    /\ lastGen = 1
    /\ closed = {}
    /\ cpc = [c \in Caller |-> "idle"]
    /\ asked = [c \in Caller |-> 0]
    /\ spc = "top"
    /\ chan = 0
    /\ conn = "none"
    /\ handle = "closed"
    /\ port \in Ports
    /\ told = FALSE

-----------------------------------------------------------------------------
(***************************************************************************)
(* The handlers.  Requests whose parameters fail the checks are answered    *)
(* without touching this state and are left out.  The goroutine of the      *)
(* serial connection runs the handlers too, as long as it has not ended     *)
(* (its decoder may hold requests read before the port was closed), and     *)
(* does nothing else while it waits inside one.                             *)
(***************************************************************************)
CanCall(c) ==
    /\ c \in Active
    /\ cpc[c] = "idle"
    /\ c = Mcu => conn = "running"

(* Mutant: a new channel is made although the port is already opened.        *)
SerialOpenAlways(c) ==
    /\ CanCall(c)
    /\ lastGen < MaxGen
    /\ lastGen' = lastGen + 1
    /\ serialCloseSignal' = lastGen + 1
    /\ spc' = IF spc = "parked" THEN "top" ELSE spc
    /\ told' = FALSE
    /\ UNCHANGED <<closed, cpc, asked, chan, conn, handle, port>>

SerialOpen(c) ==
    /\ CanCall(c)
    /\ IF serialCloseSignal = 0
         THEN /\ lastGen < MaxGen
              /\ lastGen' = lastGen + 1
              /\ serialCloseSignal' = lastGen + 1
              /\ spc' = IF spc = "parked" THEN "top" ELSE spc
         ELSE UNCHANGED <<serialCloseSignal, lastGen, spc>>
    /\ told' = FALSE
    /\ UNCHANGED <<closed, cpc, asked, chan, conn, handle, port>>

(* Mutant: serialCloseSignal is not set to nil.                              *)
SerialCloseKeepsSignal(c) ==
    /\ CanCall(c)
    /\ serialCloseSignal # 0
    /\ closed' = closed \cup {serialCloseSignal}
    /\ asked' = [asked EXCEPT ![c] = serialCloseSignal]
    /\ cpc' = [cpc EXCEPT ![c] = "waiting"]
    /\ UNCHANGED <<serialCloseSignal, lastGen, serialVars, conn, handle, port, told>>

SerialClose(c) ==
    /\ CanCall(c)
    /\ IF serialCloseSignal # 0
         THEN /\ closed' = closed \cup {serialCloseSignal}
              /\ asked' = [asked EXCEPT ![c] = serialCloseSignal]
              /\ serialCloseSignal' = 0
              /\ cpc' = [cpc EXCEPT ![c] = "waiting"]
              /\ UNCHANGED told
         ELSE /\ told' = TRUE
              /\ UNCHANGED <<serialCloseSignal, closed, cpc, asked>>
    /\ UNCHANGED <<lastGen, serialVars, conn, handle, port>>

SerialCloseReturns(c) ==
    /\ cpc[c] = "woken"
    /\ cpc' = [cpc EXCEPT ![c] = "idle"]
    /\ told' = (serialCloseSignal = 0)
    /\ UNCHANGED <<serialCloseSignal, lastGen, closed, asked, serialVars, conn,
                   handle, port>>

(***************************************************************************)
(* The microcontroller calls something else.  Until that returns, the       *)
(* goroutine of the serial connection does not read.  It may be never:      *)
(* tcp/accept (network-api.go:163), udp/awaitPacket without a timeout       *)
(* (564), mon/read of a pipe that is empty (monitor-api.go:107) and a write *)
(* to a client that does not read have no deadline.                         *)
(***************************************************************************)
OtherCall ==
    /\ conn = "running"
    /\ cpc[Mcu] = "idle"
    /\ cpc' = [cpc EXCEPT ![Mcu] = "away"]
    /\ UNCHANGED <<serialCloseSignal, lastGen, closed, asked, serialVars, conn, handle,
                   port, told>>

OtherReturns ==
    /\ cpc[Mcu] = "away"
    /\ cpc' = [cpc EXCEPT ![Mcu] = "idle"]
    /\ UNCHANGED <<serialCloseSignal, lastGen, closed, asked, serialVars, conn, handle,
                   port, told>>

-----------------------------------------------------------------------------
(***************************************************************************)
(* The serial goroutine.                                                    *)
(***************************************************************************)
Broadcast == cpc' = [c \in Caller |-> IF cpc[c] = "waiting" THEN "woken" ELSE cpc[c]]

(* Mutant: the wait for serialOpened without the Broadcast before it.        *)
TopSilent ==
    /\ spc = "top"
    /\ IF serialCloseSignal = 0
         THEN spc' = "parked" /\ UNCHANGED chan
         ELSE chan' = serialCloseSignal /\ spc' = "open"
    /\ UNCHANGED <<serialCloseSignal, lastGen, closed, cpc, asked, conn, handle, port,
                   told>>

Top ==
    /\ spc = "top"
    /\ IF serialCloseSignal = 0
         THEN Broadcast /\ spc' = "parked" /\ UNCHANGED chan
         ELSE chan' = serialCloseSignal /\ spc' = "open" /\ UNCHANGED cpc
    /\ UNCHANGED <<serialCloseSignal, lastGen, closed, asked, conn, handle, port,
                   told>>

OpenPort ==
    /\ spc = "open"
    /\ IF port = "ready"
         THEN /\ handle' = "open"
              /\ conn' = "running"
              /\ spc' = "serving"
         ELSE /\ spc' = "waitport"
              /\ UNCHANGED <<handle, conn>>
    /\ UNCHANGED <<serialCloseSignal, lastGen, closed, cpc, asked, chan, port, told>>

(* Mutant: the wait goes on although the device exists.                      *)
PortFoundIgnored ==
    /\ spc = "waitport"
    /\ port # "absent"
    /\ UNCHANGED vars

(* waitForPort returns as soon as the device exists, ready or not; when it   *)
(* fails the goroutine sleeps for five seconds.                              *)
PortFound ==
    /\ spc = "waitport"
    /\ port # "absent"
    /\ spc' = "top"
    /\ UNCHANGED <<serialCloseSignal, lastGen, closed, cpc, asked, chan, conn, handle,
                   port, told>>

WaitFailed ==
    /\ spc = "waitport"
    /\ spc' = "top"
    /\ UNCHANGED <<serialCloseSignal, lastGen, closed, cpc, asked, chan, conn, handle,
                   port, told>>

(* Mutant: the waiting closers are told before the router has let go.        *)
StopServingBroadcasts ==
    /\ spc = "serving"
    /\ conn = "ended" \/ chan \in closed
    /\ spc' = "closing"
    /\ handle' = "closed"
    /\ Broadcast
    /\ UNCHANGED <<serialCloseSignal, lastGen, closed, asked, chan, conn, port, told>>

(* Mutant: the select has no case for the channel.                           *)
StopServingOnFailure ==
    /\ spc = "serving"
    /\ conn = "ended"
    /\ spc' = "closing"
    /\ handle' = "closed"
    /\ UNCHANGED <<serialCloseSignal, lastGen, closed, cpc, asked, chan, conn, port,
                   told>>

(* The select on routerExit and the channel, then wr.Close and               *)
(* serialPort.Close.                                                         *)
StopServing ==
    /\ spc = "serving"
    /\ conn = "ended" \/ chan \in closed
    /\ spc' = "closing"
    /\ handle' = "closed"
    /\ UNCHANGED <<serialCloseSignal, lastGen, closed, cpc, asked, chan, conn, port,
                   told>>

(* Mutant: the port is handed back without waiting for the router.           *)
DisconnectedEarly ==
    /\ spc = "closing"
    /\ spc' = "top"
    /\ conn' = IF conn = "ended" THEN "none" ELSE conn
    /\ UNCHANGED <<serialCloseSignal, lastGen, closed, cpc, asked, chan, handle, port,
                   told>>

(* <-routerExit *)
Disconnected ==
    /\ spc = "closing"
    /\ conn = "ended"
    /\ conn' = "none"
    /\ spc' = "top"
    /\ UNCHANGED <<serialCloseSignal, lastGen, closed, cpc, asked, chan, handle, port,
                   told>>

-----------------------------------------------------------------------------
(***************************************************************************)
(* The router's goroutine on the serial connection ends when it reads from  *)
(* a closed or failed port, or reads bytes it cannot decode; not while it   *)
(* is inside a handler.                                                     *)
(***************************************************************************)
ConnEnds ==
    /\ conn = "running"
    /\ cpc[Mcu] = "idle"
    /\ conn' = "ended"
    /\ UNCHANGED <<serialCloseSignal, lastGen, closed, cpc, asked, serialVars, handle,
                   port, told>>

ReadFails  == handle # "open" /\ ConnEnds
ReadsNoise == handle = "open" /\ ConnEnds

(* The device is unplugged, plugged in, or taken by another program.         *)
PortChanges ==
    /\ port' \in Ports \ {port}
    /\ handle' = IF port' # "ready" /\ handle = "open" THEN "broken" ELSE handle
    /\ UNCHANGED <<serialCloseSignal, lastGen, closed, cpc, asked, serialVars, conn,
                   told>>

-----------------------------------------------------------------------------
SerialGoroutine == Top \/ OpenPort \/ PortFound \/ StopServing \/ Disconnected

Next ==
    \/ \E c \in Caller : SerialOpen(c) \/ SerialClose(c) \/ SerialCloseReturns(c)
    \/ OtherCall \/ OtherReturns
    \/ SerialGoroutine \/ WaitFailed
    \/ ReadFails \/ ReadsNoise \/ PortChanges

Spec == Init /\ [][Next]_vars

-----------------------------------------------------------------------------
(* The current channel has not been closed: $/serial/close never closes a    *)
(* channel twice, which would panic the router (main.go:229-231).            *)
SignalIsOpen == serialCloseSignal \notin closed /\ serialCloseSignal \in {0, lastGen}

(* While the serial goroutine is parked nobody waits for it, and there is    *)
(* nothing to open: no wake-up is lost on the way to serialOpened.Wait       *)
(* (main.go:240-246).                                                        *)
ParkedMeansQuiet ==
    spc = "parked" => /\ serialCloseSignal = 0
                      /\ \A c \in Caller : cpc[c] # "waiting"

(* When a $/serial/close that waited is about to return, the connection it   *)
(* closed is gone: an open port belongs to a later $/serial/open             *)
(* (main.go:228-235).                                                        *)
WokenMeansDisconnected ==
    \A c \in Caller : cpc[c] = "woken" =>
        /\ asked[c] \in closed
        /\ (handle = "closed" /\ conn = "none") \/ chan > asked[c]

(* The channel the serial goroutine watches is the current one or a closed   *)
(* one: it never serves the port with a channel that no $/serial/close can   *)
(* close any more (main.go:205-208, 245, 269-273).                           *)
ServingCanBeStopped ==
    spc \in {"open", "waitport", "serving"} =>
        chan # 0 /\ chan \in closed \cup {serialCloseSignal}

(* The port is opened only when the previous connection over it is gone,     *)
(* port and goroutine both: the router never holds two connections for one   *)
(* device, and the routes of the first are dropped before the second one     *)
(* can register (main.go:275-278).                                           *)
OneConnection ==
    spc \in {"top", "parked", "open", "waitport"} => handle = "closed" /\ conn = "none"

-----------------------------------------------------------------------------
(***************************************************************************)
(* A claim of the documentation that the code does not keep.                *)
(***************************************************************************)

(* README.md:77: $/serial/close "returns only after the port has been        *)
(* successfully disconnected".                                               *)
ToldMeansDisconnected == told => handle # "open"

=============================================================================
