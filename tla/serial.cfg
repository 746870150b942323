SPECIFICATION FairSystem
CONSTANTS
    client1 = client1
    client2 = client2
    Mcu = Mcu
    Client = {client1, client2}
    Active = {client1, client2, Mcu}
    Ports = {"absent", "busy", "ready"}
    MaxGen = 3
    Depth = 2
    Fixed = 0
    MaxChanges = 5
INVARIANTS
    SignalIsOpen
    ParkedMeansQuiet
    WokenMeansDisconnected
    ServingCanBeStopped
    OneConnection
    NoLostEvent
PROPERTIES
    CloseReturns
    OpenConnects
CHECK_DEADLOCK FALSE
