SPECIFICATION FairSystem
CONSTANTS
    client1 = client1
    client2 = client2
    Mcu = Mcu
    Client = {client1, client2}
    Active = {}
    Ports = {"absent", "ready"}
    MaxGen = 1
    Depth = 2
    Fixed = 0
    MaxChanges = 3
PROPERTIES
    PortRetried
CHECK_DEADLOCK FALSE
