---------------------------- MODULE SerialSystem ----------------------------
(***************************************************************************)
(* The serial goroutine of main.go together with the waitForPort it calls   *)
(* and the device both of them look at: SerialPort and PortWatch composed.  *)
(* A failed serial.Open starts the wait, its return lets the goroutine go   *)
(* on, and the device exists when the last level of its path does.          *)
(***************************************************************************)
EXTENDS SerialPort, PortWatch

systemVars == <<vars, watchVars>>

DeviceExists == (port # "absent") <=> (present = Depth)

SystemInit == Init /\ InitWatch /\ DeviceExists

-----------------------------------------------------------------------------
OpenOrWait ==
    /\ OpenPort
    /\ IF port = "ready" THEN UNCHANGED watchVars ELSE Start

(* A step of waitForPort, which returns to the goroutine in the same step.   *)
WaitForPort ==
    /\ Search \/ AddAncestor \/ CheckTarget \/ TakeEvent \/ Follow
    /\ CASE pc' = "found"  -> PortFound
         [] pc' = "failed" -> WaitFailed
         [] OTHER          -> UNCHANGED vars

GiveUp == Stop /\ WaitFailed

(* The goroutine outside waitForPort.                                        *)
Serve == (Top \/ StopServing \/ Disconnected) /\ UNCHANGED watchVars

Goroutine == OpenOrWait \/ WaitForPort \/ Serve

Handlers(c) ==
    (SerialOpen(c) \/ SerialClose(c) \/ SerialCloseReturns(c)) /\ UNCHANGED watchVars

Connection == (OtherCall \/ OtherReturns \/ ReadFails \/ ReadsNoise) /\ UNCHANGED watchVars

(* A level of the path appears or goes; with the last one the device does.   *)
Plug ==
    /\ Create
    /\ IF present' = Depth THEN PortChanges ELSE UNCHANGED vars

Unplug ==
    /\ Remove
    /\ IF present = Depth THEN PortChanges /\ port' = "absent" ELSE UNCHANGED vars

(* Another program takes the device, or lets it go.                          *)
Share ==
    /\ port # "absent"
    /\ PortChanges
    /\ port' # "absent"
    /\ UNCHANGED watchVars

SystemNext ==
    \/ Goroutine \/ GiveUp
    \/ \E c \in Caller : Handlers(c)
    \/ Connection \/ Plug \/ Unplug \/ Share

SystemSpec == SystemInit /\ [][SystemNext]_systemVars

(***************************************************************************)
(* A goroutine that can run does run.  A read from a closed or failed port  *)
(* returns, and the router comes to it if its handlers return: the decoder  *)
(* holds finitely many requests, so handlers can put the read off again and *)
(* again but not for ever, which is strong fairness.  Nobody need call      *)
(* anything, no call of another handler need return, no device need change, *)
(* and waitForPort need not give up.                                        *)
(***************************************************************************)
FairSystem ==
    /\ SystemSpec
    /\ WF_systemVars(Goroutine)
    /\ SF_systemVars(ReadFails /\ UNCHANGED watchVars)
    /\ \A c \in Caller : WF_systemVars(SerialCloseReturns(c) /\ UNCHANGED watchVars)

-----------------------------------------------------------------------------
(* The wait blocks without watching the directory of the device: a level of  *)
(* the path came or went before it could be watched (main.go:353-372).       *)
Blind == pc = "wait" /\ Depth - 1 \notin watched

(* A $/serial/close that waits returns, unless the port is asked to be       *)
(* opened again first, or the goroutine waits for a device that is absent or *)
(* that it cannot see, or the serial connection itself waits to be closed or *)
(* never comes back from another handler: <-routerExit waits for it without  *)
(* a limit (main.go:277).                                                    *)
CloseReturns ==
    \A c \in Caller :
        cpc[c] = "waiting" ~> \/ cpc[c] # "waiting"
                              \/ serialCloseSignal # 0
                              \/ spc = "waitport" /\ (port = "absent" \/ Blind)
                              \/ cpc[Mcu] = "waiting"
                              \/ [](cpc[Mcu] = "away")

(* An opened port gets connected, unless the request is withdrawn, the       *)
(* device is not ready, the wait for it is blind, or the goroutine of the    *)
(* connection before it waits to be closed or never comes back from another  *)
(* handler (main.go:277).                                                    *)
OpenConnects ==
    \A g \in 1 .. MaxGen :
        serialCloseSignal = g ~> \/ handle = "open" /\ chan = g
                                 \/ serialCloseSignal # g
                                 \/ port # "ready"
                                 \/ Blind
                                 \/ cpc[Mcu] = "waiting"
                                 \/ [](cpc[Mcu] = "away")

-----------------------------------------------------------------------------
(***************************************************************************)
(* A claim of the documentation that the code does not keep.                *)
(***************************************************************************)

(* README.md:72: "If the serial port fails for some reason, the router will  *)
(* retry to connect automatically": a device that is there and stays ready   *)
(* is connected again, however it came back.                                 *)
PortRetried ==
    spc = "waitport" /\ port = "ready" ~> spc # "waitport" \/ port # "ready"

=============================================================================
